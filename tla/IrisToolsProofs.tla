-------------------------- MODULE IrisToolsProofs --------------------------
(***************************************************************************)
(* Proofs about the experiments on Iris radios, for any radios, any        *)
(* laboratory and any sizes.  A step of the laboratory is a step of the    *)
(* experiment that has the radios and stays in its phases (PlacedStep);    *)
(* then each property has an invariant of its own.                         *)
(***************************************************************************)
EXTENDS IrisLab, FiniteSetTheorems, SequenceTheorems, WellFoundedInduction, TLAPS
-----------------------------------------------------------------------------

\* The phases of an experiment, by its name.
PhasesOf(name) ==
  {"start", "over", "stopped"} \cup
  CASE name = "mimo"        -> {"ready", "call", "gains"}
    [] name = "burst"       -> {"burst_open", "burst_armed", "burst_read"}
    [] name = "array"       -> {"array_open", "array_arm", "array_plot", "array_loop"}
    [] name = "offset"      -> {"offset_open", "offset_cal", "offset_ver"}
    [] name = "reciprocity" -> {"recip_open", "recip_plot", "recip_loop"}
    [] name = "sounder"     -> {"sounder_open", "sounder_arm", "sounder_handler",
                                "sounder_trigger", "sounder_run", "sounder_stop"}
    [] name = "sweep"       -> {"sweep_open", "sweep_arm", "sweep_handler", "sweep_trigger",
                                "sweep_run"}
    [] name = "ofdm"        -> {"ofdm_open", "ofdm_send", "ofdm_show"}
    [] name = "siggen"      -> {"siggen_open", "siggen_send", "siggen_signal", "siggen_handled",
                                "siggen_started", "siggen_pause", "siggen_end"}
    [] name = "rx"          -> {"rx_replay", "rx_open", "rx_show"}
    [] OTHER                -> {}

\* The experiment is one of the laboratory and in one of its own phases.
Placed == tool \in Labs /\ phase \in PhasesOf(tool.name)

\* What each experiment does, an interrupt nobody handles included.
OffsetSteps == OffsetMain \/ OffsetOpen \/ OffsetRetry \/ OffsetCalibrate \/ OffsetVerify \/ CalKilled
RecipSteps ==
  \/ RecipMain \/ RecipOpen \/ RecipPlot \/ RecipSkip \/ RecipTake \/ RecipEnd \/ RecipHandler
  \/ CalKilled
BurstSteps == BurstMain \/ BurstArm \/ BurstFrame \/ BurstEnd \/ PilotKilled
ArraySteps ==
  \/ ArrayMain \/ ArrayOpen \/ ArrayArm \/ ArrayPlot \/ ArrayRound \/ ArrayEnd \/ ArrayHandler
  \/ PilotKilled
SounderSteps ==
  \/ SounderMain \/ SounderOpen \/ SounderArm \/ SounderHandled \/ SounderTrigger
  \/ FreeFrame \/ Activate \/ TxThread \/ TxThreadEnds \/ RxThread \/ RxThreadEnds
  \/ SounderHandler \/ SounderOver \/ FreeKilled
SweepSteps ==
  \/ SweepMain \/ SweepOpen \/ SweepArm \/ SweepHandled \/ SweepTrigger \/ SweepHandler
  \/ FreeFrame \/ FreeKilled
OfdmSteps == OfdmMain \/ OfdmOpen \/ OfdmSend \/ Animate \/ OfdmOver \/ FreeKilled
SiggenSteps ==
  \/ SiggenMain \/ SiggenOpen \/ SiggenSend \/ SiggenHandled \/ SiggenThread \/ SiggenPause
  \/ PrinterEnds \/ SiggenHandler \/ SiggenOver \/ FreeKilled
RecvSteps == RxMain \/ RxReplay \/ RxOpen \/ RxAnimate \/ RxOver \/ FreeKilled

\* A step of the driver is a step of a call, or of iris_py.py by itself.
LEMMA MimoWho == MimoNext => Driver \/ Alone \/ phase \in {"call", "gains"}
<1> SUFFICES ASSUME MimoNext PROVE Driver \/ Alone \/ phase \in {"call", "gains"}
  OBVIOUS
<1>1. CASE MimoInit \/ Close \/ SetOptGains
  BY <1>1 DEF MimoInit, Close, SetOptGains, Enter
<1>2. CASE Refuse
  BY <1>2 DEF Refuse, Enter
<1>3. CASE TxrxUplink \/ TxrxDownlink \/ TxrxDlSound \/ TxrxRefnode
  BY <1>3 DEF TxrxUplink, TxrxDownlink, TxrxDlSound, TxrxRefnode, Begin, Enter
<1>4. CASE CallFails
  BY <1>4, Zenon DEF CallFails
<1>5. CASE UplinkTry \/ DownlinkTry \/ SoundTry
  BY <1>5, Zenon DEF UplinkTry, DownlinkTry, SoundTry, Trying
<1>6. CASE RefFrame \/ GainsFail \/ Combination \/ GainsDone
  BY <1>6, Zenon DEF RefFrame, GainsFail, Combination, GainsDone
<1> QED  BY <1>1, <1>2, <1>3, <1>4, <1>5, <1>6 DEF MimoNext

\* A step of PilotTools is one of its two experiments.
LEMMA PilotWho == PilotNext => (Burst /\ BurstSteps) \/ (Array /\ ArraySteps) \/ PilotKilled
<1> SUFFICES ASSUME PilotNext
             PROVE  (Burst /\ BurstSteps) \/ (Array /\ ArraySteps) \/ PilotKilled
  OBVIOUS
<1>1. ASSUME BurstMain \/ BurstArm \/ BurstFrame \/ BurstEnd PROVE Burst
  BY <1>1 DEF BurstMain, BurstArm, BurstFrame, BurstEnd
<1>2. ASSUME ArrayMain \/ ArrayOpen \/ ArrayArm \/ ArrayPlot \/ ArrayRound \/ ArrayEnd PROVE Array
  BY <1>2 DEF ArrayMain, ArrayOpen, ArrayArm, ArrayPlot, ArrayRound, ArrayEnd
<1>3. ASSUME ArrayHandler PROVE Array
  BY <1>3 DEF ArrayHandler
<1> QED  BY <1>1, <1>2, <1>3 DEF PilotNext, BurstSteps, ArraySteps

\* A step of CalTools is one of its two experiments.
LEMMA CalWho == CalNext => (Offset /\ OffsetSteps) \/ (Recip /\ RecipSteps) \/ CalKilled
<1>1. ASSUME OffsetMain \/ OffsetOpen \/ OffsetRetry \/ OffsetCalibrate \/ OffsetVerify PROVE Offset
  BY <1>1 DEF OffsetMain, OffsetOpen, OffsetRetry, OffsetCalibrate, OffsetVerify
<1>2. ASSUME RecipMain \/ RecipOpen \/ RecipPlot \/ RecipSkip \/ RecipTake \/ RecipEnd PROVE Recip
  BY <1>2 DEF RecipMain, RecipOpen, RecipPlot, RecipSkip, RecipTake, RecipEnd
<1>3. ASSUME RecipHandler PROVE Recip
  BY <1>3 DEF RecipHandler
<1> QED  BY <1>1, <1>2, <1>3 DEF CalNext, OffsetSteps, RecipSteps

\* A step of FreeTools is one of its five experiments.
LEMMA FreeWho ==
  FreeNext => \/ Sounder /\ SounderSteps
              \/ Sweep /\ SweepSteps
              \/ Ofdm /\ OfdmSteps
              \/ Siggen /\ SiggenSteps
              \/ Recv /\ RecvSteps
              \/ FreeFrame \/ FreeKilled
<1>1. ASSUME SounderMain \/ SounderOpen \/ SounderArm \/ SounderHandled \/ SounderTrigger PROVE Sounder
  BY <1>1 DEF SounderMain, SounderOpen, SounderArm, SounderHandled, SounderTrigger
<1>2. ASSUME \/ Activate \/ TxThread \/ TxThreadEnds \/ RxThread \/ RxThreadEnds
       \/ SounderHandler \/ SounderOver PROVE Sounder
  BY <1>2 DEF Activate, TxThread, TxThreadEnds, RxThread, RxThreadEnds, SounderHandler, SounderOver
<1>3. ASSUME SweepMain \/ SweepOpen \/ SweepArm \/ SweepHandled \/ SweepTrigger \/ SweepHandler PROVE Sweep
  BY <1>3 DEF SweepMain, SweepOpen, SweepArm, SweepHandled, SweepTrigger, SweepHandler
<1>4. ASSUME OfdmMain \/ OfdmOpen \/ OfdmSend \/ OfdmOver PROVE Ofdm
  BY <1>4 DEF OfdmMain, OfdmOpen, OfdmSend, OfdmOver
<1>8. ASSUME Animate PROVE Ofdm
  BY <1>8 DEF Animate
<1>5. ASSUME \/ SiggenMain \/ SiggenOpen \/ SiggenSend \/ SiggenHandled \/ SiggenThread
             \/ SiggenPause \/ PrinterEnds \/ SiggenHandler \/ SiggenOver
      PROVE  Siggen
  <2>1. CASE SiggenMain
    BY <2>1 DEF SiggenMain
  <2>2. CASE SiggenOpen
    BY <2>2 DEF SiggenOpen
  <2>3. CASE SiggenSend
    BY <2>3 DEF SiggenSend
  <2>4. CASE SiggenHandled
    BY <2>4 DEF SiggenHandled
  <2>5. CASE SiggenThread
    BY <2>5 DEF SiggenThread
  <2>6. CASE SiggenPause
    BY <2>6 DEF SiggenPause
  <2>7. CASE PrinterEnds
    BY <2>7 DEF PrinterEnds
  <2>8. CASE SiggenHandler
    BY <2>8 DEF SiggenHandler
  <2>9. CASE SiggenOver
    BY <2>9 DEF SiggenOver
  <2> QED  BY <1>5, <2>1, <2>2, <2>3, <2>4, <2>5, <2>6, <2>7, <2>8, <2>9
<1>6. ASSUME (RxMain \/ RxReplay \/ RxOpen \/ RxAnimate \/ RxOver) PROVE Recv
  BY <1>6 DEF RxMain, RxReplay, RxOpen, RxAnimate, RxOver
<1> QED
  BY <1>1, <1>2, <1>3, <1>4, <1>5, <1>6, <1>8
  DEF FreeNext, SounderSteps, SweepSteps, OfdmSteps, SiggenSteps, RecvSteps

\* What the driver does, and iris_py.py by itself.
DriverSteps ==
  \/ MimoInit \/ Refuse \/ TxrxUplink \/ TxrxDownlink \/ TxrxDlSound \/ TxrxRefnode \/ CallFails
  \/ UplinkTry \/ DownlinkTry \/ SoundTry \/ RefFrame
  \/ SetOptGains \/ GainsFail \/ Combination \/ GainsDone \/ Close
Pair == tool.name = "pair"

\* A step is a step of the experiment that has the radios.
StepOfTool ==
  \/ Driver /\ DriverSteps
  \/ Pair /\ Alone
  \/ Burst /\ BurstSteps
  \/ Array /\ ArraySteps
  \/ Offset /\ OffsetSteps
  \/ Recip /\ RecipSteps
  \/ Sounder /\ SounderSteps
  \/ Sweep /\ SweepSteps
  \/ Ofdm /\ OfdmSteps
  \/ Siggen /\ SiggenSteps
  \/ Recv /\ RecvSteps

\* Phases whose interrupts and frames several experiments share belong to one of them.
LEMMA PhaseTells ==
  ASSUME Placed
  PROVE  /\ phase \in {"call", "gains"} => Driver
         /\ phase \in {"burst_open", "burst_armed", "burst_read"} => Burst
         /\ phase \in {"array_open", "array_arm", "array_plot"} => Array
         /\ phase \in {"offset_open", "offset_cal", "offset_ver"} => Offset
         /\ phase \in {"recip_open", "recip_plot"} => Recip
         /\ phase \in {"sounder_open", "sounder_arm", "sounder_handler", "sounder_run"} => Sounder
         /\ phase \in {"sweep_open", "sweep_arm", "sweep_handler", "sweep_run"} => Sweep
         /\ phase \in {"ofdm_open", "ofdm_send", "ofdm_show"} => Ofdm
         /\ phase \in {"siggen_open", "siggen_send", "siggen_signal"} => Siggen
         /\ phase \in {"rx_replay", "rx_open", "rx_show"} => Recv
  BY DEF Placed, PhasesOf, Driver, Burst, Array, Offset, Recip, Sounder, Sweep, Ofdm, Siggen, Recv

\* Every step is a step of the experiment that has the radios.
LEMMA OneTool == ASSUME Placed, Next PROVE StepOfTool
<1>1. CASE MimoNext
  <2>1. Driver \/ Alone
    BY <1>1, MimoWho, PhaseTells
  <2>2. Alone => Pair
    BY DEF Alone, Pair
  <2>3. MimoNext => DriverSteps \/ Alone
    BY DEF MimoNext, DriverSteps
  <2> QED  BY <1>1, <2>1, <2>2, <2>3 DEF StepOfTool
<1>2. CASE PilotNext
  <2>1. PilotKilled => Burst \/ Array
    BY PhaseTells DEF PilotKilled
  <2>2. PilotKilled => BurstSteps /\ ArraySteps
    BY DEF BurstSteps, ArraySteps
  <2> QED  BY <1>2, <2>1, <2>2, PilotWho DEF StepOfTool
<1>3. CASE CalNext
  <2>1. CalKilled => Offset \/ Recip
    BY PhaseTells DEF CalKilled
  <2>2. CalKilled => OffsetSteps /\ RecipSteps
    BY DEF OffsetSteps, RecipSteps
  <2> QED  BY <1>3, <2>1, <2>2, CalWho DEF StepOfTool
<1>4. CASE FreeNext
  <2>1. FreeKilled => Sounder \/ Sweep \/ Ofdm \/ Siggen \/ Recv
    BY PhaseTells DEF FreeKilled
  <2>2. FreeKilled => SounderSteps /\ SweepSteps /\ OfdmSteps /\ SiggenSteps /\ RecvSteps
    BY DEF SounderSteps, SweepSteps, OfdmSteps, SiggenSteps, RecvSteps
  <2>3. FreeFrame => Sounder \/ Sweep
    BY PhaseTells DEF FreeFrame
  <2>4. FreeFrame => SounderSteps /\ SweepSteps
    BY DEF SounderSteps, SweepSteps
  <2> QED  BY <1>4, <2>1, <2>2, <2>3, <2>4, FreeWho DEF StepOfTool
<1> QED  BY <1>1, <1>2, <1>3, <1>4 DEF Next

\* An experiment makes its own steps only.
LEMMA OwnSteps ==
  ASSUME Placed, Next
  PROVE  /\ Driver  => DriverSteps
         /\ Pair    => Alone
         /\ Burst   => BurstSteps
         /\ Array   => ArraySteps
         /\ Offset  => OffsetSteps
         /\ Recip   => RecipSteps
         /\ Sounder => SounderSteps
         /\ Sweep   => SweepSteps
         /\ Ofdm    => OfdmSteps
         /\ Siggen  => SiggenSteps
         /\ Recv    => RecvSteps
  BY OneTool DEF StepOfTool, Driver, Pair, Burst, Array, Offset, Recip, Sounder, Sweep, Ofdm,
     Siggen, Recv

\* The phase a step leads to.
To(ps) == tool' = tool /\ phase' \in ps

\* A step of the experiment "mimo" stays with it and its phases.
LEMMA DriverPlaced == ASSUME Placed, Driver, DriverSteps PROVE Placed' /\ tool' = tool
<1> DEFINE ps == {"start", "over", "stopped"} \cup {"ready", "call", "gains"}
<1>0. PhasesOf(tool.name) = ps
  BY DEF Driver, PhasesOf
<1>1. phase \in ps
  BY <1>0 DEF Placed
<1>2. To(ps)
  <2>1. CASE MimoInit
    BY <1>1, <2>1 DEF To, MimoInit
  <2>2. CASE Refuse
    BY <1>1, <2>2 DEF To, Refuse
  <2>3. CASE TxrxUplink
    BY <1>1, <2>3 DEF To, TxrxUplink, Begin
  <2>4. CASE TxrxDownlink
    BY <1>1, <2>4 DEF To, TxrxDownlink, Begin
  <2>5. CASE TxrxDlSound
    BY <1>1, <2>5 DEF To, TxrxDlSound, Begin
  <2>6. CASE TxrxRefnode
    BY <1>1, <2>6 DEF To, TxrxRefnode, Begin
  <2>7. CASE CallFails
    BY <1>1, <2>7 DEF To, CallFails, Fail
  <2>8. CASE UplinkTry
    BY <1>1, <2>8 DEF To, UplinkTry, Trying, Outcome, FrameDone
  <2>9. CASE DownlinkTry
    BY <1>1, <2>9 DEF To, DownlinkTry, Trying, Outcome, FrameDone
  <2>10. CASE SoundTry
    BY <1>1, <2>10 DEF To, SoundTry, Trying, Outcome, FrameDone
  <2>11. CASE RefFrame
    BY <1>1, <2>11 DEF To, RefFrame, FrameDone
  <2>12. CASE SetOptGains
    BY <1>1, <2>12 DEF To, SetOptGains
  <2>13. CASE GainsFail
    BY <1>1, <2>13 DEF To, GainsFail
  <2>14. CASE Combination
    BY <1>1, <2>14 DEF To, Combination
  <2>15. CASE GainsDone
    BY <1>1, <2>15 DEF To, GainsDone
  <2>16. CASE Close
    BY <1>1, <2>16 DEF To, Close
  <2> QED  BY <2>1, <2>2, <2>3, <2>4, <2>5, <2>6, <2>7, <2>8, <2>9, <2>10, <2>11, <2>12, <2>13, <2>14, <2>15, <2>16 DEF DriverSteps
<1> QED  BY <1>0, <1>2 DEF Placed, To

\* A step of the experiment "pair" stays with it and its phases.
LEMMA PairPlaced == ASSUME Placed, Pair, Alone PROVE Placed' /\ tool' = tool
<1> DEFINE ps == {"start", "over", "stopped"} \cup {}
<1>0. PhasesOf(tool.name) = ps
  BY DEF Pair, PhasesOf
<1>1. phase \in ps
  BY <1>0 DEF Placed
<1>2. To(ps)
  BY DEF To, Alone
<1> QED  BY <1>0, <1>2 DEF Placed, To

\* A step of the experiment "burst" stays with it and its phases.
LEMMA BurstPlaced == ASSUME Placed, Burst, BurstSteps PROVE Placed' /\ tool' = tool
<1> DEFINE ps == {"start", "over", "stopped"} \cup {"burst_open", "burst_armed", "burst_read"}
<1>0. PhasesOf(tool.name) = ps
  BY DEF Burst, PhasesOf
<1>1. phase \in ps
  BY <1>0 DEF Placed
<1>2. To(ps)
  <2>1. CASE BurstMain
    BY <1>1, <2>1 DEF To, BurstMain
  <2>2. CASE BurstArm
    BY <1>1, <2>2 DEF To, BurstArm
  <2>3. CASE BurstFrame
    BY <1>1, <2>3 DEF To, BurstFrame
  <2>4. CASE BurstEnd
    BY <1>1, <2>4 DEF To, BurstEnd
  <2>5. CASE PilotKilled
    BY <1>1, <2>5 DEF To, PilotKilled
  <2> QED  BY <2>1, <2>2, <2>3, <2>4, <2>5 DEF BurstSteps
<1> QED  BY <1>0, <1>2 DEF Placed, To

\* A step of the experiment "array" stays with it and its phases.
LEMMA ArrayPlaced == ASSUME Placed, Array, ArraySteps PROVE Placed' /\ tool' = tool
<1> DEFINE ps == {"start", "over", "stopped"} \cup {"array_open", "array_arm", "array_plot", "array_loop"}
<1>0. PhasesOf(tool.name) = ps
  BY DEF Array, PhasesOf
<1>1. phase \in ps
  BY <1>0 DEF Placed
<1>2. To(ps)
  <2>1. CASE ArrayMain
    BY <1>1, <2>1 DEF To, ArrayMain
  <2>2. CASE ArrayOpen
    BY <1>1, <2>2 DEF To, ArrayOpen
  <2>3. CASE ArrayArm
    BY <1>1, <2>3 DEF To, ArrayArm
  <2>4. CASE ArrayPlot
    BY <1>1, <2>4 DEF To, ArrayPlot
  <2>5. CASE ArrayRound
    BY <1>1, <2>5 DEF To, ArrayRound
  <2>6. CASE ArrayEnd
    BY <1>1, <2>6 DEF To, ArrayEnd
  <2>7. CASE ArrayHandler
    BY <1>1, <2>7 DEF To, ArrayHandler
  <2>8. CASE PilotKilled
    BY <1>1, <2>8 DEF To, PilotKilled
  <2> QED  BY <2>1, <2>2, <2>3, <2>4, <2>5, <2>6, <2>7, <2>8 DEF ArraySteps
<1> QED  BY <1>0, <1>2 DEF Placed, To

\* A step of the experiment "offset" stays with it and its phases.
LEMMA OffsetPlaced == ASSUME Placed, Offset, OffsetSteps PROVE Placed' /\ tool' = tool
<1> DEFINE ps == {"start", "over", "stopped"} \cup {"offset_open", "offset_cal", "offset_ver"}
<1>0. PhasesOf(tool.name) = ps
  BY DEF Offset, PhasesOf
<1>1. phase \in ps
  BY <1>0 DEF Placed
<1>2. To(ps)
  <2>1. CASE OffsetMain
    BY <1>1, <2>1 DEF To, OffsetMain
  <2>2. CASE OffsetOpen
    BY <1>1, <2>2 DEF To, OffsetOpen
  <2>3. CASE OffsetRetry
    BY <1>1, <2>3 DEF To, OffsetRetry
  <2>4. CASE OffsetCalibrate
    BY <1>1, <2>4 DEF To, OffsetCalibrate
  <2>5. CASE OffsetVerify
    BY <1>1, <2>5 DEF To, OffsetVerify
  <2>6. CASE CalKilled
    BY <1>1, <2>6 DEF To, CalKilled
  <2> QED  BY <2>1, <2>2, <2>3, <2>4, <2>5, <2>6 DEF OffsetSteps
<1> QED  BY <1>0, <1>2 DEF Placed, To

\* A step of the experiment "reciprocity" stays with it and its phases.
LEMMA RecipPlaced == ASSUME Placed, Recip, RecipSteps PROVE Placed' /\ tool' = tool
<1> DEFINE ps == {"start", "over", "stopped"} \cup {"recip_open", "recip_plot", "recip_loop"}
<1>0. PhasesOf(tool.name) = ps
  BY DEF Recip, PhasesOf
<1>1. phase \in ps
  BY <1>0 DEF Placed
<1>2. To(ps)
  <2>1. CASE RecipMain
    BY <1>1, <2>1 DEF To, RecipMain
  <2>2. CASE RecipOpen
    BY <1>1, <2>2 DEF To, RecipOpen
  <2>3. CASE RecipPlot
    BY <1>1, <2>3 DEF To, RecipPlot
  <2>4. CASE RecipSkip
    BY <1>1, <2>4 DEF To, RecipSkip
  <2>5. CASE RecipTake
    BY <1>1, <2>5 DEF To, RecipTake
  <2>6. CASE RecipEnd
    BY <1>1, <2>6 DEF To, RecipEnd
  <2>7. CASE RecipHandler
    BY <1>1, <2>7 DEF To, RecipHandler
  <2>8. CASE CalKilled
    BY <1>1, <2>8 DEF To, CalKilled
  <2> QED  BY <2>1, <2>2, <2>3, <2>4, <2>5, <2>6, <2>7, <2>8 DEF RecipSteps
<1> QED  BY <1>0, <1>2 DEF Placed, To

\* A step of the experiment "sounder" stays with it and its phases.
LEMMA SounderPlaced == ASSUME Placed, Sounder, SounderSteps PROVE Placed' /\ tool' = tool
<1> DEFINE ps == {"start", "over", "stopped"} \cup {"sounder_open", "sounder_arm", "sounder_handler", "sounder_trigger", "sounder_run", "sounder_stop"}
<1>0. PhasesOf(tool.name) = ps
  BY DEF Sounder, PhasesOf
<1>1. phase \in ps
  BY <1>0 DEF Placed
<1>2. To(ps)
  <2>1. CASE SounderMain
    BY <1>1, <2>1 DEF To, SounderMain
  <2>2. CASE SounderOpen
    BY <1>1, <2>2 DEF To, SounderOpen
  <2>3. CASE SounderArm
    BY <1>1, <2>3 DEF To, SounderArm
  <2>4. CASE SounderHandled
    BY <1>1, <2>4 DEF To, SounderHandled
  <2>5. CASE SounderTrigger
    BY <1>1, <2>5 DEF To, SounderTrigger
  <2>6. CASE FreeFrame
    BY <1>1, <2>6 DEF To, FreeFrame
  <2>7. CASE Activate
    BY <1>1, <2>7 DEF To, Activate
  <2>8. CASE TxThread
    BY <1>1, <2>8 DEF To, TxThread
  <2>9. CASE TxThreadEnds
    BY <1>1, <2>9 DEF To, TxThreadEnds
  <2>10. CASE RxThread
    BY <1>1, <2>10 DEF To, RxThread
  <2>11. CASE RxThreadEnds
    BY <1>1, <2>11 DEF To, RxThreadEnds
  <2>12. CASE SounderHandler
    BY <1>1, <2>12 DEF To, SounderHandler
  <2>13. CASE SounderOver
    BY <1>1, <2>13 DEF To, SounderOver
  <2>14. CASE FreeKilled
    BY <1>1, <2>14 DEF To, FreeKilled
  <2> QED  BY <2>1, <2>2, <2>3, <2>4, <2>5, <2>6, <2>7, <2>8, <2>9, <2>10, <2>11, <2>12, <2>13, <2>14 DEF SounderSteps
<1> QED  BY <1>0, <1>2 DEF Placed, To

\* A step of the experiment "sweep" stays with it and its phases.
LEMMA SweepPlaced == ASSUME Placed, Sweep, SweepSteps PROVE Placed' /\ tool' = tool
<1> DEFINE ps == {"start", "over", "stopped"} \cup {"sweep_open", "sweep_arm", "sweep_handler", "sweep_trigger", "sweep_run"}
<1>0. PhasesOf(tool.name) = ps
  BY DEF Sweep, PhasesOf
<1>1. phase \in ps
  BY <1>0 DEF Placed
<1>2. To(ps)
  <2>1. CASE SweepMain
    BY <1>1, <2>1 DEF To, SweepMain
  <2>2. CASE SweepOpen
    BY <1>1, <2>2 DEF To, SweepOpen
  <2>3. CASE SweepArm
    BY <1>1, <2>3 DEF To, SweepArm
  <2>4. CASE SweepHandled
    BY <1>1, <2>4 DEF To, SweepHandled
  <2>5. CASE SweepTrigger
    BY <1>1, <2>5 DEF To, SweepTrigger
  <2>6. CASE SweepHandler
    BY <1>1, <2>6 DEF To, SweepHandler
  <2>7. CASE FreeFrame
    BY <1>1, <2>7 DEF To, FreeFrame
  <2>8. CASE FreeKilled
    BY <1>1, <2>8 DEF To, FreeKilled
  <2> QED  BY <2>1, <2>2, <2>3, <2>4, <2>5, <2>6, <2>7, <2>8 DEF SweepSteps
<1> QED  BY <1>0, <1>2 DEF Placed, To

\* A step of the experiment "ofdm" stays with it and its phases.
LEMMA OfdmPlaced == ASSUME Placed, Ofdm, OfdmSteps PROVE Placed' /\ tool' = tool
<1> DEFINE ps == {"start", "over", "stopped"} \cup {"ofdm_open", "ofdm_send", "ofdm_show"}
<1>0. PhasesOf(tool.name) = ps
  BY DEF Ofdm, PhasesOf
<1>1. phase \in ps
  BY <1>0 DEF Placed
<1>2. To(ps)
  <2>1. CASE OfdmMain
    BY <1>1, <2>1 DEF To, OfdmMain
  <2>2. CASE OfdmOpen
    BY <1>1, <2>2 DEF To, OfdmOpen
  <2>3. CASE OfdmSend
    BY <1>1, <2>3 DEF To, OfdmSend
  <2>4. CASE Animate
    BY <1>1, <2>4 DEF To, Animate
  <2>5. CASE OfdmOver
    BY <1>1, <2>5 DEF To, OfdmOver
  <2>6. CASE FreeKilled
    BY <1>1, <2>6 DEF To, FreeKilled
  <2> QED  BY <2>1, <2>2, <2>3, <2>4, <2>5, <2>6 DEF OfdmSteps
<1> QED  BY <1>0, <1>2 DEF Placed, To

\* A step of the experiment "siggen" stays with it and its phases.
LEMMA SiggenPlaced == ASSUME Placed, Siggen, SiggenSteps PROVE Placed' /\ tool' = tool
<1> DEFINE ps == {"start", "over", "stopped"} \cup {"siggen_open", "siggen_send", "siggen_signal", "siggen_handled", "siggen_started", "siggen_pause", "siggen_end"}
<1>0. PhasesOf(tool.name) = ps
  BY DEF Siggen, PhasesOf
<1>1. phase \in ps
  BY <1>0 DEF Placed
<1>2. To(ps)
  <2>1. CASE SiggenMain
    BY <1>1, <2>1 DEF To, SiggenMain
  <2>2. CASE SiggenOpen
    BY <1>1, <2>2 DEF To, SiggenOpen
  <2>3. CASE SiggenSend
    BY <1>1, <2>3 DEF To, SiggenSend
  <2>4. CASE SiggenHandled
    BY <1>1, <2>4 DEF To, SiggenHandled
  <2>5. CASE SiggenThread
    BY <1>1, <2>5 DEF To, SiggenThread
  <2>6. CASE SiggenPause
    BY <1>1, <2>6 DEF To, SiggenPause
  <2>7. CASE PrinterEnds
    BY <1>1, <2>7 DEF To, PrinterEnds
  <2>8. CASE SiggenHandler
    BY <1>1, <2>8 DEF To, SiggenHandler
  <2>9. CASE SiggenOver
    BY <1>1, <2>9 DEF To, SiggenOver
  <2>10. CASE FreeKilled
    BY <1>1, <2>10 DEF To, FreeKilled
  <2> QED  BY <2>1, <2>2, <2>3, <2>4, <2>5, <2>6, <2>7, <2>8, <2>9, <2>10 DEF SiggenSteps
<1> QED  BY <1>0, <1>2 DEF Placed, To

\* A step of the experiment "rx" stays with it and its phases.
LEMMA RecvPlaced == ASSUME Placed, Recv, RecvSteps PROVE Placed' /\ tool' = tool
<1> DEFINE ps == {"start", "over", "stopped"} \cup {"rx_replay", "rx_open", "rx_show"}
<1>0. PhasesOf(tool.name) = ps
  BY DEF Recv, PhasesOf
<1>1. phase \in ps
  BY <1>0 DEF Placed
<1>2. To(ps)
  <2>1. CASE RxMain
    BY <1>1, <2>1 DEF To, RxMain
  <2>2. CASE RxReplay
    BY <1>1, <2>2 DEF To, RxReplay
  <2>3. CASE RxOpen
    BY <1>1, <2>3 DEF To, RxOpen
  <2>4. CASE RxAnimate
    BY <1>1, <2>4 DEF To, RxAnimate
  <2>5. CASE RxOver
    BY <1>1, <2>5 DEF To, RxOver
  <2>6. CASE FreeKilled
    BY <1>1, <2>6 DEF To, FreeKilled
  <2> QED  BY <2>1, <2>2, <2>3, <2>4, <2>5, <2>6 DEF RecvSteps
<1> QED  BY <1>0, <1>2 DEF Placed, To

\* Placed is an invariant of the laboratory.
LEMMA PlacedStep == ASSUME Placed, [Next]_toolVars PROVE Placed' /\ tool' = tool
<1>1. CASE Next
  BY <1>1, OneTool, DriverPlaced, PairPlaced, BurstPlaced, ArrayPlaced, OffsetPlaced, RecipPlaced,
     SounderPlaced, SweepPlaced, OfdmPlaced, SiggenPlaced, RecvPlaced DEF StepOfTool
<1>2. CASE UNCHANGED toolVars
  BY <1>2 DEF Placed, toolVars
<1> QED  BY <1>1, <1>2

\* The lesser of two numbers.
LEMMA MinOfTwo ==
  ASSUME NEW a \in Int, NEW b \in Int
  PROVE  Min({a, b}) = IF a <= b THEN a ELSE b
<1> DEFINE m == IF a <= b THEN a ELSE b
<1>1. m \in {a, b} /\ (\A y \in {a, b} : m <= y)
  OBVIOUS
<1>2. \A x \in {a, b} : (\A y \in {a, b} : x <= y) => x = m
  OBVIOUS
<1> HIDE DEF m
<1>3. Min({a, b}) = m
  BY <1>1, <1>2 DEF Min
<1> QED  BY <1>3 DEF m

-----------------------------------------------------------------------------
(* SISO_OFDM.py and SISO_TX.py: signals are whole at both ends *)

\* Every verdict is the verdict on its peak.
Says == {"none", "early", "no_preamble", "late", "cut_off", "decoded"}
Look == [peak : Int, says : Says]
OfdmInv ==
  Ofdm => /\ out \in Seq(Look)
          /\ \A i \in DOMAIN out : out[i].says = Verdict(out[i].peak)

\* The verdict "decoded" says that the preamble and the payload are whole.
LEMMA VerdictWhole ==
  ASSUME Placed, Ofdm, NEW a \in Int
  PROVE  Verdict(a) = "decoded" <=>
           /\ InSnapshot(a - Preamble + 1, a + Payload)
           /\ tool.cp = 32
           /\ a - Preamble + 1 # 0
<1>1. tool.cp \in Nat
  BY LabAssumption DEF Placed, Ofdm
<1>2. Payload \in Nat /\ Preamble \in Nat /\ (Preamble = 160 <=> tool.cp = 32)
  BY <1>1, FreeAssumption DEF Preamble
<1>3. Samples \in Nat
  BY <1>2, FreeAssumption DEF Samples
<1> DEFINE P == Preamble S == Samples M == Min({a + Payload + 1, S})
<1>4. M = IF a + Payload + 1 <= S THEN a + Payload + 1 ELSE S
  BY <1>2, <1>3, MinOfTwo
<1>5. Verdict(a) = "decoded" <=>
        /\ ~(a <= 0) /\ ~(a - P < 0) /\ P = 160 /\ ~(S < a + Payload)
        /\ M - (a + 1) = Payload
  BY DEF Verdict
<1>6. P \in Nat /\ S \in Nat /\ (P = 160 <=> tool.cp = 32)
  BY <1>2, <1>3
<1> HIDE DEF P, S, M
<1>7. Verdict(a) = "decoded" <=>
        0 <= a - P + 1 /\ a + Payload <= S - 1 /\ tool.cp = 32 /\ a - P + 1 # 0
  BY <1>2, <1>4, <1>5, <1>6
<1> QED  BY <1>7 DEF S, P, InSnapshot

\* There is a verdict on every peak.
LEMMA VerdictSays == ASSUME NEW a PROVE Verdict(a) \in Says
<1> DEFINE p1 == a <= 0
           p2 == a - Preamble < 0
           p3 == Preamble # 160
           p4 == Samples < a + Payload
           p5 == Min({a + Payload + 1, Samples}) - (a + 1) # Payload
<1>1. Verdict(a) = CASE p1 -> "none" [] p2 -> "early" [] p3 -> "no_preamble" [] p4 -> "late"
                     [] p5 -> "cut_off" [] OTHER -> "decoded"
  BY DEF Verdict
<1> HIDE DEF p1, p2, p3, p4, p5
<1> QED  BY <1>1 DEF Says

\* A step keeps the verdicts right.
LEMMA OfdmStep ==
  ASSUME Placed, OfdmInv, [Next]_toolVars PROVE OfdmInv'
<1>0. tool' = tool
  BY PlacedStep
<1> SUFFICES ASSUME Ofdm
             PROVE  /\ out' \in Seq(Look)
                    /\ \A i \in DOMAIN out' : out'[i].says = Verdict(out'[i].peak)
  BY <1>0 DEF OfdmInv, Ofdm, Verdict, Preamble, Samples
<1>1. /\ out \in Seq(Look)
      /\ \A i \in DOMAIN out : out[i].says = Verdict(out[i].peak)
  BY DEF OfdmInv
<1>2. CASE Animate
  <2>1. tool.cp \in Nat
    BY LabAssumption DEF Placed, Ofdm
  <2>2. PICK a \in IF tool.ota THEN Peaks \cup {-1} ELSE {30 + 160 + Preamble - 1} :
          out' = IF tool.ota /\ tool.agc THEN out ELSE Append(out, [peak |-> a, says |-> Verdict(a)])
    BY <1>2 DEF Animate
  <2>3. a \in Int
    <3>1. Preamble \in Int /\ Peaks \subseteq Int
      BY <2>1, FreeAssumption DEF Preamble
    <3>2. a \in Peaks \cup {-1} \/ a = 30 + 160 + Preamble - 1
      BY <2>2
    <3> QED  BY <3>1, <3>2
  <2>4. Verdict(a) \in Says
    BY VerdictSays
  <2>5. [peak |-> a, says |-> Verdict(a)] \in Look
    BY <2>3, <2>4 DEF Look
  <2> DEFINE e == [peak |-> a, says |-> Verdict(a)]
  <2>6. e \in Look /\ e.says = Verdict(e.peak)
    BY <2>5
  <2> HIDE DEF e
  <2>7. CASE out' = Append(out, e)
    BY <1>1, <2>6, <2>7
  <2>8. CASE out' = out
    BY <1>1, <2>8
  <2> QED  BY <2>2, <2>7, <2>8 DEF e
<1>3. CASE out' = out
  BY <1>1, <1>3
<1>4. CASE Next /\ ~Animate
  <2>1. OfdmMain \/ OfdmOpen \/ OfdmSend \/ OfdmOver \/ FreeKilled
    BY <1>4, OwnSteps DEF OfdmSteps
  <2> QED  BY <1>3, <2>1 DEF OfdmMain, OfdmOpen, OfdmSend, OfdmOver, FreeKilled
<1>5. CASE UNCHANGED toolVars
  BY <1>3, <1>5 DEF toolVars
<1> QED  BY <1>2, <1>4, <1>5

(* The radios: what each helper leaves alone, and the modes each experiment uses *)

Fields == {"mode", "slots", "active", "corr", "count", "fifo"}
Shaped(d) == DOMAIN d = Fields
Shape == DOMAIN dev = Radios /\ \A r \in Radios : Shaped(dev[r])

\* Only the radios of S have a mode, one of modes.
ModesIn(S, modes) == \A r \in Radios : dev[r].mode = "off" \/ (r \in S /\ dev[r].mode \in modes)
AllOff == \A r \in Radios : dev[r].mode = "off"
NoCount == \A r \in Radios : dev[r].count = 0

\* Stopped, Closed and their like give radios again.
LEMMA StoppedIs ==
  ASSUME NEW d, Shaped(d)
  PROVE  /\ Shaped(Stopped(d)) /\ Stopped(d).mode = "off" /\ Stopped(d).count = 0
         /\ Stopped(d).fifo = <<>> /\ Stopped(d).slots = d.slots
         /\ Stopped(d).active = d.active /\ Stopped(d).corr = d.corr
  BY DEF Shaped, Stopped, Fields

\* A closed stream: nothing is read from the radio any more, its schedule goes on.
LEMMA ClosedIs ==
  ASSUME NEW d, Shaped(d)
  PROVE  /\ Shaped(Closed(d)) /\ Closed(d).mode = d.mode /\ Closed(d).count = d.count
         /\ Closed(d).fifo = <<>> /\ Closed(d).slots = d.slots
         /\ Closed(d).active = FALSE /\ Closed(d).corr = d.corr
  BY DEF Shaped, Closed, Fields

\* A radio that Iris_py has opened is off, with nothing in its queue.
LEMMA OpenedIs ==
  ASSUME NEW d, Shaped(d)
  PROVE  /\ Shaped(Opened(d)) /\ Opened(d).mode = "off" /\ Opened(d).count = 0
         /\ Opened(d).fifo = <<>> /\ Opened(d).slots = d.slots
         /\ Opened(d).active = FALSE /\ Opened(d).corr = d.corr
<1>1. Shaped(Stopped(d))
  BY StoppedIs
<1> QED  BY <1>1, StoppedIs DEF Opened, Shaped, Fields

\* A radio that Iris_py has closed is off.
LEMMA IrisCloseIs ==
  ASSUME NEW d, Shaped(d)
  PROVE  Shaped(IrisClose(d)) /\ IrisClose(d).mode = "off"
  BY StoppedIs, ClosedIs DEF IrisClose

\* A radio switched off and closed, as the demos leave it.
LEMMA EndIs ==
  ASSUME NEW d, Shaped(d)
  PROVE  LET e == Closed(Stopped(d))
         IN  Shaped(e) /\ e.mode = "off" /\ e.count = 0 /\ e.fifo = <<>>
<1> DEFINE s == Stopped(d)
<1>1. Shaped(s) /\ s.mode = "off" /\ s.count = 0
  BY StoppedIs
<1> HIDE DEF s
<1>2. Shaped(Closed(s)) /\ Closed(s).mode = "off" /\ Closed(s).count = 0 /\ Closed(s).fifo = <<>>
  BY <1>1, ClosedIs
<1> QED  BY <1>2 DEF s

\* A radio that has been read from, or whose frames go on.
LEMMA ReadIs ==
  ASSUME NEW d, Shaped(d), NEW fifo
  PROVE  LET e == [d EXCEPT !.fifo = fifo]
         IN  /\ Shaped(e) /\ e.mode = d.mode /\ e.slots = d.slots /\ e.active = d.active
             /\ e.corr = d.corr /\ e.count = d.count /\ e.fifo = fifo
  BY DEF Shaped, Fields

\* Frames on the air change nothing but counts and queues.
Keeps(d, e) ==
  /\ Shaped(e) /\ e.mode = d.mode /\ e.slots = d.slots /\ e.active = d.active /\ e.corr = d.corr
  /\ e.count \in {d.count, d.count + 1}
\* A frame changes counts and queues only, and only of radios that play.
LEMMA PlayedIs ==
  ASSUME Shape, NEW heard, NEW lost, NEW r \in Radios
  PROVE  /\ Keeps(dev[r], Played(heard, lost)[r])
         /\ r \in heard \/ dev[r].mode = "once" \/ Played(heard, lost)[r] = dev[r]
<1> DEFINE d == Played(heard, lost)[r]
<1>1. Shaped(dev[r])
  BY DEF Shape
<1>2. d = dev[r] \/ \E f : d = [dev[r] EXCEPT !.count = @ + 1, !.fifo = f]
  BY DEF Played
<1>3. ASSUME r \notin heard, dev[r].mode # "once" PROVE d = dev[r]
  <2>1. r \notin heard \cup {q \in Radios : dev[q].mode = "once"}
    BY <1>3
  <2> QED  BY <2>1 DEF Played
<1> HIDE DEF d
<1>5. ASSUME NEW f, d = [dev[r] EXCEPT !.count = @ + 1, !.fifo = f]
      PROVE  Keeps(dev[r], d)
  BY <1>1, <1>5 DEF Shaped, Fields, Keeps
<1>6. Keeps(dev[r], d)
  BY <1>1, <1>2, <1>5 DEF Keeps
<1> QED  BY <1>3, <1>6 DEF d

\* After a frame there are the same radios.
LEMMA PlayedDomain == \A heard, lost : DOMAIN Played(heard, lost) = Radios
  BY DEF Played

-----------------------------------------------------------------------------
(* QuietWhenOver: no radio is left on *)

QuietInv ==
  /\ Shape
  /\ phase = "start" => AllOff /\ NoCount
  /\ Driver => /\ ModesIn(BS \cup UE \cup Ref, {"once", "beacon"})
               /\ phase = "over" => AllOff
  /\ Pair   => ModesIn(Radios, {"once"}) /\ phase # "over"
  /\ Burst  => ModesIn(1 .. 2, {"once"}) /\ (phase = "over" => AllOff)
  /\ Array  => ModesIn(Nodes \cup {RefRadio}, {"once"}) /\ (phase = "over" => AllOff)
  /\ Offset => ModesIn(Boards, {"once"}) /\ (phase = "over" => AllOff)
  /\ Recip \/ Recv => AllOff
  /\ Sounder => /\ ModesIn(Sounders, {"free", "beacon", "resync"})
                /\ phase \notin {"sounder_run", "sounder_stop", "over"} => NoCount
                /\ phase \in {"sounder_stop", "over"} => AllOff
  /\ Sweep => /\ ModesIn(Sweepers, {"free"})
              /\ phase \notin {"sweep_run", "over"} => NoCount
              /\ phase = "over" => AllOff
  /\ Siggen => ModesIn({1}, {"tone", "replay"})

\* What the invariant says at the end is what the property says.
LEMMA QuietEnough == ASSUME Placed, QuietInv PROVE QuietWhenOver
<1>0. \/ Driver \/ Pair \/ Burst \/ Array \/ Offset \/ Recip \/ Recv \/ Sounder \/ Sweep \/ Ofdm
      \/ Siggen
  BY LabAssumption DEF Placed, Driver, Pair, Burst, Array, Offset, Recip, Recv, Sounder, Sweep,
     Ofdm, Siggen
<1>1. CASE phase = "over"
  <2>1. Driver \/ Pair \/ Burst \/ Array \/ Offset \/ Recip \/ Recv \/ Sounder \/ Sweep => AllOff
    BY <1>1 DEF QuietInv
  <2> QED  BY <1>0, <1>1, <2>1 DEF QuietWhenOver, AllOff
<1>2. CASE phase = "stopped"
  <2>1. SUFFICES ASSUME NEW r \in Radios, ~Ofdm, dev[r].mode \in {"free", "resync"}, dev[r].count > 0
                 PROVE  FALSE
    BY <1>2 DEF QuietWhenOver, OnAir
  <2>2. CASE Sounder \/ Sweep
    <3>1. dev[r].count = 0
      BY <1>2, <2>2 DEF QuietInv, NoCount
    <3> QED  BY <2>1, <3>1
  <2>3. CASE Recip \/ Recv
    BY <2>1, <2>3 DEF QuietInv, AllOff
  <2>4. CASE Driver \/ Pair \/ Burst
    BY <2>1, <2>4 DEF QuietInv, ModesIn
  <2>5. CASE Array \/ Offset \/ Siggen
    BY <2>1, <2>5 DEF QuietInv, ModesIn
  <2> QED  BY <1>0, <2>1, <2>2, <2>3, <2>4, <2>5
<1> QED  BY <1>1, <1>2 DEF QuietWhenOver

\* Radios after a step, when an experiment gives modes to the radios of S.
Fine(S, modes, d, r) == Shaped(d) /\ (d.mode = "off" \/ (r \in S /\ d.mode \in modes))

\* iris_py.py by itself, and the experiments without a schedule.
LEMMA QuietPair == ASSUME Placed, Pair, QuietInv, Alone PROVE QuietInv'
  BY DEF Alone, Placed, Pair, QuietInv, Shape, Shaped, Fields, ModesIn, Driver, Burst, Array, Offset,
     Recip, Recv, Sounder, Sweep, Siggen

\* SISO_RX.py gives no radio a mode.
LEMMA QuietRecv == ASSUME Placed, Recv, QuietInv, RecvSteps PROVE QuietInv'
<1> SUFFICES tool' = tool /\ phase' # "start" /\ Shape' /\ AllOff'
  BY DEF QuietInv, Recv, Driver, Pair, Burst, Array, Offset, Recip, Sounder, Sweep, Siggen
<1>1. Shape /\ AllOff
  BY DEF QuietInv
<1>2. CASE RxAnimate
  BY <1>1, <1>2 DEF RxAnimate, Shape, AllOff, Shaped, Fields
<1>3. CASE RxMain \/ RxReplay \/ RxOpen \/ RxOver \/ FreeKilled
  BY <1>1, <1>3 DEF RxMain, RxReplay, RxOpen, RxOver, FreeKilled, Shape, AllOff
<1> QED  BY <1>2, <1>3 DEF RecvSteps

\* WB_CAL_DEMO.py gives no radio a mode.
LEMMA QuietRecip == ASSUME Placed, Recip, QuietInv, RecipSteps PROVE QuietInv'
<1> SUFFICES tool' = tool /\ phase' # "start" /\ Shape' /\ AllOff'
  BY DEF QuietInv, Recv, Driver, Pair, Burst, Array, Offset, Recip, Sounder, Sweep, Siggen
<1>1. DOMAIN dev = Radios /\ (\A r \in Radios : Shaped(dev[r]) /\ dev[r].mode = "off")
  BY DEF QuietInv, Shape, AllOff
<1>2. CASE RecipOpen
  <2>1. \A r \in Radios : dev'[r] = IF r <= tool.sdrs THEN [Stopped(dev[r]) EXCEPT !.active = TRUE]
                                                      ELSE dev[r]
    BY <1>2 DEF RecipOpen
  <2>2. \A r \in Radios : Shaped(Stopped(dev[r])) /\ Stopped(dev[r]).mode = "off"
    BY <1>1, StoppedIs
  <2>3. \A r \in Radios : Shaped(dev'[r]) /\ dev'[r].mode = "off"
    BY <1>1, <2>1, <2>2 DEF Shaped, Fields
  <2>4. tool' = tool /\ phase' # "start" /\ DOMAIN dev' = Radios
    BY <1>2 DEF RecipOpen
  <2> QED  BY <2>3, <2>4 DEF Shape, AllOff
<1>3. CASE RecipEnd
  <2>1. \A r \in Radios : dev'[r] = IF r <= tool.sdrs THEN Closed(dev[r]) ELSE dev[r]
    BY <1>3 DEF RecipEnd
  <2>2. \A r \in Radios : Shaped(dev'[r]) /\ dev'[r].mode = "off"
    <3>1. \A r \in Radios : Shaped(Closed(dev[r])) /\ Closed(dev[r]).mode = "off"
      BY <1>1, ClosedIs
    <3> QED  BY <1>1, <2>1, <3>1
  <2>3. tool' = tool /\ phase' # "start" /\ DOMAIN dev' = Radios
    BY <1>3 DEF RecipEnd
  <2> QED  BY <2>2, <2>3 DEF Shape, AllOff
<1>4. CASE RecipMain \/ RecipPlot \/ RecipSkip \/ RecipTake \/ RecipHandler \/ CalKilled
  BY <1>1, <1>4 DEF RecipMain, RecipPlot, RecipSkip, RecipTake, RecipHandler, CalKilled, Shape, AllOff
<1> QED  BY <1>2, <1>3, <1>4 DEF RecipSteps

\* SISO_TX.py has radio 1 send, and no other.
LEMMA QuietSiggen == ASSUME Placed, Siggen, QuietInv, SiggenSteps PROVE QuietInv'
<1> SUFFICES tool' = tool /\ phase' # "start" /\ Shape' /\ ModesIn({1}, {"tone", "replay"})'
  BY DEF QuietInv, Recv, Driver, Pair, Burst, Array, Offset, Recip, Sounder, Sweep, Siggen
<1>1. Shape /\ ModesIn({1}, {"tone", "replay"})
  BY DEF QuietInv
<1>2. CASE SiggenOpen \/ SiggenSend
  BY <1>1, <1>2 DEF SiggenOpen, SiggenSend, Shape, ModesIn, Shaped, Fields
<1>3. CASE \/ SiggenMain \/ SiggenHandled \/ SiggenThread \/ SiggenPause \/ PrinterEnds
           \/ SiggenHandler \/ SiggenOver \/ FreeKilled
  BY <1>1, <1>3 DEF SiggenMain, SiggenHandled, SiggenThread, SiggenPause, PrinterEnds,
     SiggenHandler, SiggenOver, FreeKilled, Shape, ModesIn
<1> QED  BY <1>2, <1>3 DEF SiggenSteps

\* SISO_OFDM.py: the radios stay radios; what they send is exempt.
LEMMA QuietOfdm == ASSUME Placed, Ofdm, QuietInv, OfdmSteps PROVE QuietInv'
<1> SUFFICES tool' = tool /\ phase' # "start" /\ Shape'
  BY DEF QuietInv, Recv, Driver, Pair, Burst, Array, Offset, Recip, Sounder, Sweep, Siggen, Ofdm
<1>1. Shape
  BY DEF QuietInv
<1>2. CASE OfdmOpen
  BY <1>1, <1>2, StoppedIs DEF OfdmOpen, Shape
<1>3. CASE OfdmSend \/ Animate
  BY <1>1, <1>3 DEF OfdmSend, Animate, Shape, Shaped
<1>4. CASE OfdmMain \/ OfdmOver \/ FreeKilled
  BY <1>1, <1>4 DEF OfdmMain, OfdmOver, FreeKilled, Shape
<1> QED  BY <1>2, <1>3, <1>4 DEF OfdmSteps

\* The two demos with a schedule, and the calibration of the offsets.
LEMMA QuietBurst == ASSUME Placed, Burst, QuietInv, BurstSteps PROVE QuietInv'
<1> DEFINE Ok(d, r) == Fine(1 .. 2, {"once"}, d, r)
<1>1. DOMAIN dev = Radios /\ (\A r \in Radios : Ok(dev[r], r))
  BY DEF QuietInv, Shape, ModesIn, Fine
<1> SUFFICES /\ tool' = tool /\ phase' # "start" /\ DOMAIN dev' = Radios
             /\ \A r \in Radios : Ok(dev'[r], r)
             /\ phase' = "over" => \A r \in Radios : dev'[r].mode = "off"
  BY DEF QuietInv, Recv, Driver, Pair, Burst, Array, Offset, Recip, Sounder, Sweep, Siggen,
     Shape, ModesIn, Fine, AllOff
<1>2. CASE BurstMain
  BY <1>1, <1>2 DEF BurstMain, QuietInv, AllOff
<1>3. CASE PilotKilled
  BY <1>1, <1>3 DEF PilotKilled
<1>4. CASE BurstArm
  <2>1. /\ tool' = tool /\ phase' = "burst_armed" /\ DOMAIN dev' = Radios
        /\ \A r \in Radios : dev'[r] = IF r \in 1 .. 2
                                       THEN [Set(BurstSchedule)[r] EXCEPT !.active = TRUE] ELSE dev[r]
    BY <1>4 DEF BurstArm
  <2>2. \A r \in Radios \cap (1 .. 2) :
           Set(BurstSchedule)[r] = [dev[r] EXCEPT !.mode = "once", !.slots = BurstSchedule[r]]
    BY DEF Set, BurstSchedule
  <2>3. \A r \in Radios \cap (1 .. 2) :
           LET d == Set(BurstSchedule)[r] IN Shaped(d) /\ d.mode = "once"
    BY <1>1, <2>2 DEF Fine, Shaped, Fields
  <2>4. \A r \in Radios \cap (1 .. 2) : Shaped(dev'[r]) /\ dev'[r].mode = "once"
    BY <2>1, <2>3 DEF Shaped, Fields
  <2>5. \A r \in Radios \ (1 .. 2) : dev'[r] = dev[r]
    BY <2>1
  <2> QED  BY <1>1, <2>1, <2>4, <2>5 DEF Fine
<1>5. CASE BurstFrame
  <2>1. PICK lost : dev' = [r \in Radios |-> [Played({}, lost)[r] EXCEPT !.fifo = Beyond(1, @)]]
    BY <1>5 DEF BurstFrame
  <2>2. \A r \in Radios : Keeps(dev[r], Played({}, lost)[r])
    BY PlayedIs DEF QuietInv
  <2>3. \A r \in Radios : Shaped(dev'[r]) /\ dev'[r].mode = dev[r].mode
    BY <2>1, <2>2 DEF Keeps, Shaped, Fields
  <2>4. tool' = tool /\ phase' = "burst_read" /\ DOMAIN dev' = Radios
    BY <1>5, <2>1 DEF BurstFrame
  <2> QED  BY <1>1, <2>3, <2>4 DEF Fine
<1>6. CASE BurstEnd
  <2>1. /\ tool' = tool /\ phase' = "over" /\ DOMAIN dev' = Radios
        /\ \A r \in Radios : dev'[r] = IF r \in 1 .. 2 THEN Closed(Stopped(dev[r])) ELSE dev[r]
    BY <1>6 DEF BurstEnd
  <2>2. \A r \in Radios : /\ Shaped(Closed(Stopped(dev[r])))
                          /\ Closed(Stopped(dev[r])).mode = "off"
    BY <1>1, EndIs DEF Fine
  <2>3. \A r \in Radios \ (1 .. 2) : dev'[r] = dev[r] /\ Shaped(dev[r]) /\ dev[r].mode = "off"
    BY <1>1, <2>1 DEF Fine
  <2>4. \A r \in Radios \cap (1 .. 2) : dev'[r] = Closed(Stopped(dev[r]))
    BY <2>1
  <2>5. \A r \in Radios : Shaped(dev'[r]) /\ dev'[r].mode = "off"
    BY <2>2, <2>3, <2>4
  <2> QED  BY <2>1, <2>5 DEF Fine
<1> QED  BY <1>2, <1>3, <1>4, <1>5, <1>6 DEF BurstSteps

\* NB_CAL_DEMO.py switches off every radio it has given a schedule.
LEMMA QuietArray == ASSUME Placed, Array, QuietInv, ArraySteps PROVE QuietInv'
<1> DEFINE All == Nodes \cup {RefRadio}
           Ok(d, r) == Fine(All, {"once"}, d, r)
<1>1. DOMAIN dev = Radios /\ (\A r \in Radios : Ok(dev[r], r))
  BY DEF QuietInv, Shape, ModesIn, Fine
<1> SUFFICES /\ tool' = tool /\ phase' # "start" /\ DOMAIN dev' = Radios
             /\ \A r \in Radios : Ok(dev'[r], r)
             /\ phase' = "over" => \A r \in Radios : dev'[r].mode = "off"
  BY DEF QuietInv, Recv, Driver, Pair, Burst, Array, Offset, Recip, Sounder, Sweep, Siggen,
     Shape, ModesIn, Fine, AllOff, Nodes, RefRadio
<1> HIDE DEF All
<1>2. CASE ArrayMain
  BY <1>1, <1>2 DEF ArrayMain, QuietInv, AllOff
<1>3. CASE PilotKilled \/ ArrayPlot \/ ArrayHandler
  BY <1>1, <1>3 DEF PilotKilled, ArrayPlot, ArrayHandler
<1>7. CASE ArrayOpen
  <2>1. /\ tool' = tool /\ phase' = "array_arm" /\ DOMAIN dev' = Radios
        /\ \A r \in Radios : dev'[r] = IF r \in All THEN Stopped(dev[r]) ELSE dev[r]
    BY <1>7 DEF ArrayOpen, All
  <2> QED  BY <1>1, <2>1, StoppedIs DEF Fine
<1>4. CASE ArrayArm
  <2>1. /\ tool' = tool /\ phase' = "array_plot" /\ DOMAIN dev' = Radios
        /\ \A r \in Radios : dev'[r] = IF r \in All
                                       THEN [Set(ArraySchedule)[r] EXCEPT !.active = TRUE] ELSE dev[r]
    BY <1>4 DEF ArrayArm, All
  <2>2. \A r \in Radios \cap All :
           Set(ArraySchedule)[r] = [dev[r] EXCEPT !.mode = "once", !.slots = ArraySchedule[r]]
    BY DEF Set, ArraySchedule, All
  <2>3. \A r \in Radios \cap All :
           LET d == Set(ArraySchedule)[r] IN Shaped(d) /\ d.mode = "once"
    BY <1>1, <2>2 DEF Fine, Shaped, Fields
  <2>4. \A r \in Radios \cap All : Shaped(dev'[r]) /\ dev'[r].mode = "once"
    BY <2>1, <2>3 DEF Shaped, Fields
  <2>5. \A r \in Radios \ All : dev'[r] = dev[r]
    BY <2>1
  <2> QED  BY <1>1, <2>1, <2>4, <2>5 DEF Fine
<1>5. CASE ArrayRound
  <2>1. PICK lost :
           dev' = [r \in Radios |->
                     CASE r \in Nodes    -> [Played({}, lost)[r] EXCEPT !.fifo = Beyond(1, @)]
                       [] r = RefRadio   -> [Played({}, lost)[r] EXCEPT !.fifo = Beyond(RefReads, @)]
                       [] OTHER          -> Played({}, lost)[r]]
    BY <1>5 DEF ArrayRound
  <2>2. \A r \in Radios : Keeps(dev[r], Played({}, lost)[r])
    BY PlayedIs DEF QuietInv
  <2>3. \A r \in Radios : LET d == Played({}, lost)[r]
                           IN  dev'[r] \in {d, [d EXCEPT !.fifo = Beyond(1, @)],
                                            [d EXCEPT !.fifo = Beyond(RefReads, @)]}
    BY <2>1
  <2>4. \A r \in Radios : Shaped(dev'[r]) /\ dev'[r].mode = dev[r].mode
    BY <2>2, <2>3 DEF Keeps, Shaped, Fields
  <2>5. tool' = tool /\ phase' = phase /\ phase = "array_loop" /\ DOMAIN dev' = Radios
    BY <1>5, <2>1 DEF ArrayRound
  <2> QED  BY <1>1, <2>4, <2>5 DEF Fine
<1>6. CASE ArrayEnd
  <2>1. /\ tool' = tool /\ phase' = "over" /\ DOMAIN dev' = Radios
        /\ \A r \in Radios : dev'[r] = IF r \in All THEN Closed(Stopped(dev[r])) ELSE dev[r]
    BY <1>6 DEF ArrayEnd, All
  <2>2. \A r \in Radios : /\ Shaped(Closed(Stopped(dev[r])))
                          /\ Closed(Stopped(dev[r])).mode = "off"
    BY <1>1, EndIs DEF Fine
  <2>3. \A r \in Radios \ All : dev'[r] = dev[r] /\ Shaped(dev[r]) /\ dev[r].mode = "off"
    BY <1>1, <2>1 DEF Fine
  <2>4. \A r \in Radios \cap All : dev'[r] = Closed(Stopped(dev[r]))
    BY <2>1
  <2>5. \A r \in Radios : Shaped(dev'[r]) /\ dev'[r].mode = "off"
    BY <2>2, <2>3, <2>4
  <2> QED  BY <2>1, <2>5 DEF Fine
<1> QED  BY <1>2, <1>3, <1>4, <1>5, <1>6, <1>7 DEF ArraySteps

\* sample_offset_cal.py switches off every board it has given a schedule.
LEMMA QuietOffset == ASSUME Placed, Offset, QuietInv, OffsetSteps PROVE QuietInv'
<1> DEFINE Ok(d, r) == Fine(Boards, {"once"}, d, r)
<1>1. DOMAIN dev = Radios /\ (\A r \in Radios : Ok(dev[r], r))
  BY DEF QuietInv, Shape, ModesIn, Fine
<1> SUFFICES /\ tool' = tool /\ phase' # "start" /\ DOMAIN dev' = Radios
             /\ \A r \in Radios : Ok(dev'[r], r)
             /\ phase' = "over" => \A r \in Radios : dev'[r].mode = "off"
  BY DEF QuietInv, Recv, Driver, Pair, Burst, Array, Offset, Recip, Sounder, Sweep, Siggen,
     Shape, ModesIn, Fine, AllOff, Boards
<1>2. CASE OffsetMain \/ OffsetCalibrate \/ CalKilled
  BY <1>1, <1>2 DEF OffsetMain, OffsetCalibrate, CalKilled
<1>3. CASE OffsetOpen
  <2>1. /\ tool' = tool /\ phase' = "offset_cal" /\ DOMAIN dev' = Radios
        /\ \A r \in Radios : dev'[r] = IF r \in Boards
                                       THEN [dev[r] EXCEPT !.mode = "once", !.active = TRUE] ELSE dev[r]
    BY <1>3 DEF OffsetOpen
  <2>2. \A r \in Radios \cap Boards : Shaped(dev'[r]) /\ dev'[r].mode = "once"
    BY <1>1, <2>1 DEF Shaped, Fields, Fine
  <2>3. \A r \in Radios \ Boards : dev'[r] = dev[r]
    BY <2>1
  <2> QED  BY <1>1, <2>1, <2>2, <2>3 DEF Fine
<1>4. ASSUME dev' = OffsetClosed PROVE DOMAIN dev' = Radios /\ \A r \in Radios : Shaped(dev'[r]) /\ dev'[r].mode = "off"
  <2>1. /\ DOMAIN dev' = Radios
        /\ \A r \in Radios : dev'[r] = IF r \in Boards THEN Closed(Stopped(dev[r])) ELSE dev[r]
    BY <1>4 DEF OffsetClosed
  <2>2. \A r \in Radios : /\ Shaped(Closed(Stopped(dev[r])))
                          /\ Closed(Stopped(dev[r])).mode = "off"
    BY <1>1, EndIs DEF Fine
  <2>3. \A r \in Radios \ Boards : dev'[r] = dev[r] /\ Shaped(dev[r]) /\ dev[r].mode = "off"
    BY <1>1, <2>1 DEF Fine
  <2>4. \A r \in Radios \cap Boards : dev'[r] = Closed(Stopped(dev[r]))
    BY <2>1
  <2> QED  BY <2>1, <2>2, <2>3, <2>4
<1>5. CASE OffsetRetry \/ OffsetVerify
  BY <1>4, <1>5 DEF OffsetRetry, OffsetVerify, Fine
<1> QED  BY <1>2, <1>3, <1>5 DEF OffsetSteps

\* BEACON_SWEEP.py: the handler is there before the trigger.
LEMMA QuietSweep == ASSUME Placed, Sweep, QuietInv, SweepSteps PROVE QuietInv'
<1> DEFINE Ok(d, r) == Fine(Sweepers, {"free"}, d, r)
<1>1. /\ DOMAIN dev = Radios /\ (\A r \in Radios : Ok(dev[r], r))
      /\ phase \notin {"sweep_run", "over"} => \A r \in Radios : dev[r].count = 0
  BY DEF QuietInv, Shape, ModesIn, Fine, NoCount
<1> SUFFICES /\ tool' = tool /\ phase' # "start" /\ DOMAIN dev' = Radios
             /\ \A r \in Radios : Ok(dev'[r], r)
             /\ phase' \notin {"sweep_run", "over"} => \A r \in Radios : dev'[r].count = 0
             /\ phase' = "over" => \A r \in Radios : dev'[r].mode = "off"
  BY DEF QuietInv, Recv, Driver, Pair, Burst, Array, Offset, Recip, Sounder, Sweep, Siggen,
     Shape, ModesIn, Fine, AllOff, NoCount, Sweepers
<1>2. CASE SweepMain
  BY <1>1, <1>2 DEF SweepMain, QuietInv, AllOff
<1>3. CASE SweepHandled \/ FreeKilled
  <2>1. dev' = dev /\ tool' = tool /\ phase' \notin {"start", "over"}
    BY <1>3 DEF SweepHandled, FreeKilled
  <2>2. phase \notin {"sweep_run", "over"}
    BY <1>3 DEF SweepHandled, FreeKilled
  <2> QED  BY <1>1, <2>1, <2>2
<1>4. CASE SweepOpen
  <2>1. /\ tool' = tool /\ phase' = "sweep_arm" /\ DOMAIN dev' = Radios /\ phase = "sweep_open"
        /\ \A r \in Radios : dev'[r] = IF r \in Sweepers THEN Stopped(dev[r]) ELSE dev[r]
    BY <1>4 DEF SweepOpen
  <2>2. \A r \in Radios : Ok(dev'[r], r) /\ dev'[r].count = 0
    BY <1>1, <2>1, StoppedIs DEF Fine
  <2> QED  BY <2>1, <2>2
<1>5. CASE SweepArm
  <2>1. /\ tool' = tool /\ phase' = "sweep_handler" /\ DOMAIN dev' = Radios /\ phase = "sweep_arm"
        /\ \A r \in Radios : dev'[r] = IF r \in Sweepers
                                       THEN [dev[r] EXCEPT !.mode = "free", !.slots = <<"B", "G">>]
                                       ELSE dev[r]
    BY <1>5 DEF SweepArm
  <2>2. \A r \in Radios \cap Sweepers :
           Shaped(dev'[r]) /\ dev'[r].mode = "free" /\ dev'[r].count = dev[r].count
    BY <1>1, <2>1 DEF Shaped, Fields, Fine
  <2>3. \A r \in Radios \ Sweepers : dev'[r] = dev[r]
    BY <2>1
  <2>4. \A r \in Radios : dev'[r].count = 0
    BY <1>1, <2>1, <2>2, <2>3
  <2> QED  BY <1>1, <2>1, <2>2, <2>3, <2>4 DEF Fine
<1>6. CASE SweepTrigger
  <2>1. /\ tool' = tool /\ phase' = "sweep_run" /\ DOMAIN dev' = Radios
        /\ \A r \in Radios : dev'[r] = IF dev[r].mode = "free" THEN [dev[r] EXCEPT !.count = 1] ELSE dev[r]
    BY <1>6 DEF SweepTrigger, Started
  <2>2. \A r \in Radios : Shaped(dev'[r]) /\ dev'[r].mode = dev[r].mode
    BY <1>1, <2>1 DEF Shaped, Fields, Fine
  <2> QED  BY <1>1, <2>1, <2>2 DEF Fine
<1>7. CASE FreeFrame
  <2>1. PICK heard, lost : dev' = Played(heard, lost)
    BY <1>7 DEF FreeFrame
  <2>2. \A r \in Radios : Keeps(dev[r], dev'[r])
    BY <2>1, PlayedIs DEF QuietInv
  <2>3. DOMAIN dev' = Radios
    BY <2>1, PlayedDomain
  <2>4. tool' = tool /\ phase' = phase /\ phase \in {"sounder_run", "sweep_run"}
    BY <1>7 DEF FreeFrame
  <2>5. phase = "sweep_run"
    BY <2>4, PhaseTells DEF Sweep, Sounder
  <2> QED  BY <1>1, <2>2, <2>3, <2>4, <2>5 DEF Fine, Keeps
<1>8. CASE SweepHandler
  <2>1. /\ tool' = tool /\ phase' = "over" /\ DOMAIN dev' = Radios
        /\ \A r \in Radios : dev'[r] = IF r \in Sweepers THEN Stopped(dev[r]) ELSE dev[r]
    BY <1>8 DEF SweepHandler
  <2>2. \A r \in Radios : Shaped(dev'[r]) /\ dev'[r].mode = "off"
    BY <1>1, <2>1, StoppedIs DEF Fine
  <2> QED  BY <2>1, <2>2 DEF Fine
<1> QED  BY <1>2, <1>3, <1>4, <1>5, <1>6, <1>7, <1>8 DEF SweepSteps

\* SOUNDER_TXRX.py: no radio has a count before the handler is there.
LEMMA QuietSounder == ASSUME Placed, Sounder, QuietInv, SounderSteps PROVE QuietInv'
<1> DEFINE modes == {"free", "beacon", "resync"}
           Ok(d, r) == Fine(Sounders, modes, d, r)
           early(p) == p \notin {"sounder_run", "sounder_stop", "over"}
<1>1. /\ DOMAIN dev = Radios /\ (\A r \in Radios : Ok(dev[r], r))
      /\ early(phase) => \A r \in Radios : dev[r].count = 0
      /\ phase \in {"sounder_stop", "over"} => \A r \in Radios : dev[r].mode = "off"
      /\ 1 \in Radios /\ 2 \in Radios
  <2>1. 1 \in Radios /\ 2 \in Radios
    BY LabAssumption DEF Placed, Sounder
  <2> QED  BY <2>1 DEF QuietInv, Shape, ModesIn, Fine, NoCount, AllOff
<1> SUFFICES /\ tool' = tool /\ phase' # "start" /\ DOMAIN dev' = Radios
             /\ \A r \in Radios : Ok(dev'[r], r)
             /\ early(phase') => \A r \in Radios : dev'[r].count = 0
             /\ phase' \in {"sounder_stop", "over"} => \A r \in Radios : dev'[r].mode = "off"
  BY DEF QuietInv, Recv, Driver, Pair, Burst, Array, Offset, Recip, Sounder, Sweep, Siggen,
     Shape, ModesIn, Fine, AllOff, NoCount, Sounders
<1>2. CASE SounderMain
  BY <1>1, <1>2 DEF SounderMain, QuietInv, AllOff
<1>3. CASE SounderHandled \/ FreeKilled
  <2>1. dev' = dev /\ tool' = tool /\ phase' \notin {"start", "over", "sounder_stop"}
    BY <1>3 DEF SounderHandled, FreeKilled
  <2>2. early(phase)
    BY <1>3 DEF SounderHandled, FreeKilled
  <2> QED  BY <1>1, <2>1, <2>2
<1>4. CASE SounderOpen
  <2>1. /\ tool' = tool /\ phase' = "sounder_arm" /\ DOMAIN dev' = Radios /\ phase = "sounder_open"
        /\ \A r \in Radios : dev'[r] = IF r \in Sounders THEN Stopped(dev[r]) ELSE dev[r]
    BY <1>4 DEF SounderOpen
  <2>2. \A r \in Radios : Ok(dev'[r], r) /\ dev'[r].count = 0
    BY <1>1, <2>1, StoppedIs DEF Fine
  <2> QED  BY <2>1, <2>2
<1>5. CASE SounderArm
  <2>1. phase = "sounder_arm" /\ tool' = tool /\ phase' \in {"stopped", "sounder_handler"}
    BY <1>5 DEF SounderArm
  <2>2. CASE tool.both
    BY <1>1, <1>5, <2>1, <2>2 DEF SounderArm
  <2>3. CASE ~tool.both
    <3>1. /\ DOMAIN dev' = Radios
          /\ \A r \in Radios \ {1, 2} : dev'[r] = dev[r]
          /\ dev'[1] = [dev[1] EXCEPT !.mode = "free", !.slots = Bsched]
          /\ dev'[2] = [dev[2] EXCEPT !.mode = IF tool.trig THEN "free"
                                               ELSE IF tool.wait THEN "beacon" ELSE "resync",
                                      !.slots = Msched,
                                      !.corr = ~tool.trig /\ ~tool.power]
      BY <1>1, <1>5, <2>3 DEF SounderArm
    <3>2. Shaped(dev[1]) /\ Shaped(dev[2]) /\ dev[1].count = 0 /\ dev[2].count = 0
      BY <1>1, <2>1 DEF Fine
    <3>3. Shaped(dev'[1]) /\ dev'[1].mode = "free" /\ dev'[1].count = 0
      BY <3>1, <3>2 DEF Shaped, Fields
    <3>4. Shaped(dev'[2]) /\ dev'[2].mode \in modes /\ dev'[2].count = 0
      BY <3>1, <3>2 DEF Shaped, Fields
    <3>5. Ok(dev'[1], 1) /\ Ok(dev'[2], 2)
      BY <3>3, <3>4 DEF Fine, Sounders
    <3>7. \A r \in Radios \ {1, 2} : Ok(dev'[r], r) /\ dev'[r].count = 0
      BY <1>1, <2>1, <3>1
    <3> HIDE DEF Ok
    <3>6. \A r \in Radios : Ok(dev'[r], r) /\ dev'[r].count = 0
      BY <3>3, <3>4, <3>5, <3>7
    <3> QED  BY <2>1, <3>1, <3>6
  <2> QED  BY <2>2, <2>3
<1>6. CASE SounderTrigger
  <2>1. /\ tool' = tool /\ phase' = "sounder_run" /\ DOMAIN dev' = Radios
        /\ \A r \in Radios : dev'[r] = IF dev[r].mode = "free" THEN [dev[r] EXCEPT !.count = 1] ELSE dev[r]
    BY <1>6 DEF SounderTrigger, Started
  <2>2. \A r \in Radios : Shaped(dev'[r]) /\ dev'[r].mode = dev[r].mode
    BY <1>1, <2>1 DEF Shaped, Fields, Fine
  <2> QED  BY <1>1, <2>1, <2>2 DEF Fine
<1>7. CASE FreeFrame
  <2>1. PICK heard, lost : dev' = Played(heard, lost)
    BY <1>7 DEF FreeFrame
  <2>2. \A r \in Radios : Keeps(dev[r], dev'[r])
    BY <2>1, PlayedIs DEF QuietInv
  <2>3. DOMAIN dev' = Radios
    BY <2>1, PlayedDomain
  <2>4. tool' = tool /\ phase' = phase /\ phase \in {"sounder_run", "sweep_run"}
    BY <1>7 DEF FreeFrame
  <2>5. phase = "sounder_run"
    BY <2>4, PhaseTells DEF Sweep, Sounder
  <2> QED  BY <1>1, <2>2, <2>3, <2>4, <2>5 DEF Fine, Keeps
<1>8. CASE Activate \/ TxThread \/ TxThreadEnds \/ RxThread \/ RxThreadEnds
  <2>1. /\ tool' = tool /\ phase' = phase /\ phase \in {"sounder_run", "sounder_stop"}
    BY <1>8 DEF Activate, TxThread, TxThreadEnds, RxThread, RxThreadEnds, Threads
  <2>2. /\ DOMAIN dev' = Radios
        /\ \A r \in Radios : dev'[r] \in {dev[r], [dev[r] EXCEPT !.active = TRUE],
                                          [dev[r] EXCEPT !.fifo = Beyond(1, @)], Closed(dev[r])}
    <3>1. CASE Activate
      BY <1>1, <3>1 DEF Activate
    <3>2. CASE TxThread \/ TxThreadEnds
      BY <1>1, <3>2 DEF TxThread, TxThreadEnds
    <3>3. CASE RxThread
      BY <1>1, <3>3 DEF RxThread
    <3>4. CASE RxThreadEnds
      BY <1>1, <3>4 DEF RxThreadEnds
    <3> QED  BY <1>8, <3>1, <3>2, <3>3, <3>4
  <2>3. ASSUME NEW d, Shaped(d)
        PROVE  /\ Shaped(Closed(d)) /\ Closed(d).mode = d.mode
               /\ LET e == [d EXCEPT !.active = TRUE] IN Shaped(e) /\ e.mode = d.mode
               /\ LET e == [d EXCEPT !.fifo = Beyond(1, @)] IN Shaped(e) /\ e.mode = d.mode
    <3>1. Shaped(Closed(d)) /\ Closed(d).mode = d.mode
      BY <2>3, ClosedIs
    <3>2. LET e == [d EXCEPT !.active = TRUE] IN Shaped(e) /\ e.mode = d.mode
      BY <2>3 DEF Shaped, Fields
    <3>3. LET e == [d EXCEPT !.fifo = Beyond(1, @)] IN Shaped(e) /\ e.mode = d.mode
      BY <2>3 DEF Shaped, Fields
    <3> QED  BY <3>1, <3>2, <3>3
  <2>4. \A r \in Radios : Shaped(dev'[r]) /\ dev'[r].mode = dev[r].mode
    BY <1>1, <2>2, <2>3 DEF Fine
  <2> QED  BY <1>1, <2>1, <2>2, <2>4 DEF Fine
<1>9. CASE SounderHandler
  <2>1. /\ tool' = tool /\ phase' \in {"sounder_stop", "over"} /\ DOMAIN dev' = Radios
        /\ \A r \in Radios :
              dev'[r] = IF r \in Sounders THEN [Stopped(dev[r]) EXCEPT !.corr = FALSE] ELSE dev[r]
    BY <1>9 DEF SounderHandler
  <2>2. \A r \in Radios : Shaped(Stopped(dev[r])) /\ Stopped(dev[r]).mode = "off"
    BY <1>1, StoppedIs DEF Fine
  <2>3. \A r \in Radios \cap Sounders : Shaped(dev'[r]) /\ dev'[r].mode = "off"
    BY <2>1, <2>2 DEF Shaped, Fields
  <2>4. \A r \in Radios \ Sounders : Shaped(dev'[r]) /\ dev'[r].mode = "off"
    BY <1>1, <2>1 DEF Fine
  <2> QED  BY <2>1, <2>3, <2>4 DEF Fine
<1>10. CASE SounderOver
  BY <1>1, <1>10 DEF SounderOver
<1> QED  BY <1>2, <1>3, <1>4, <1>5, <1>6, <1>7, <1>8, <1>9, <1>10 DEF SounderSteps

\* MIMODriver: schedules give modes to the radios they name only.
ConfiguredAs(r, d, sched, readers) ==
  /\ Shaped(d) /\ d.fifo = dev[r].fifo /\ d.count = dev[r].count
  /\ r \notin DOMAIN sched => d = dev[r]
  /\ r \in DOMAIN sched => /\ d.mode = IF r \in UE THEN "beacon" ELSE "once"
                           /\ d.slots = sched[r] /\ (d.corr <=> r \in UE)
                           /\ d.active <=> dev[r].active \/ r \in readers
\* config_sdr_tdd changes mode, schedule, correlator and stream of the radios of the schedule.
LEMMA ConfiguredIs ==
  ASSUME Shape, NEW sched, NEW readers, NEW r \in Radios
  PROVE  ConfiguredAs(r, Configured(sched, readers)[r], sched, readers)
<1> DEFINE d == Configured(sched, readers)[r]
<1>1. Shaped(dev[r])
  BY DEF Shape
<1>2. d = IF r \notin DOMAIN sched THEN dev[r]
          ELSE [dev[r] EXCEPT !.mode = IF r \in UE THEN "beacon" ELSE "once",
                              !.slots = sched[r], !.corr = r \in UE, !.active = @ \/ r \in readers]
  BY DEF Configured
<1> HIDE DEF d
<1>3. ConfiguredAs(r, d, sched, readers)
  <2>1. CASE r \notin DOMAIN sched
    BY <1>1, <1>2, <2>1 DEF ConfiguredAs
  <2>2. CASE r \in DOMAIN sched
    BY <1>1, <1>2, <2>2 DEF Shaped, Fields, ConfiguredAs
  <2> QED  BY <2>1, <2>2
<1> QED  BY <1>3 DEF d

\* A radio after the call is over.
LEMMA EndedIs ==
  ASSUME NEW d, \A r \in Radios : Shaped(d[r]), NEW r \in Radios
  PROVE  LET e == Ended(d)[r]
         IN  /\ Shaped(e) /\ e.mode = d[r].mode /\ e.slots = d[r].slots /\ e.active = d[r].active
             /\ e.fifo = d[r].fifo /\ e.count = 0
             /\ e.corr = IF r \in UE /\ job.call # "refnode" THEN FALSE ELSE d[r].corr
  BY DEF Ended, Reset, Shaped, Fields

\* A radio after a try.
LEMMA TryIs ==
  ASSUME Shape, NEW t \in Tries, NEW r \in Radios
  PROVE  Shaped(t.dev[r]) /\ t.dev[r].mode = dev[r].mode
<1>1. PICK heard, lost : t.dev = AfterRead(Played(heard, lost))
  BY DEF Tries
<1>2. Keeps(dev[r], Played(heard, lost)[r])
  BY PlayedIs
<1>3. \/ t.dev[r] = Played(heard, lost)[r]
      \/ t.dev[r] = [Played(heard, lost)[r] EXCEPT !.fifo = Beyond(Expected(r), @)]
  BY <1>1 DEF AfterRead
<1> QED  BY <1>2, <1>3 DEF Keeps, Shaped, Fields

\* After a try there are the same radios.
LEMMA TryDomain == \A t \in Tries : DOMAIN t.dev = Radios
  BY DEF Tries, AfterRead

\* The radios a call configures are radios of the driver.
LEMMA SchedulesOf ==
  ASSUME Placed, Driver
  PROVE  /\ DOMAIN Uplink = BS \cup UE /\ DOMAIN Downlink = BS \cup UE /\ DOMAIN GainTest = BS \cup UE
         /\ DOMAIN Sound \subseteq BS \cup UE /\ DOMAIN RefNode = BS \cup Ref
  BY DEF Uplink, Downlink, GainTest, Sound, RefNode

\* What a step of the driver may do to the modes.
LEMMA DriverModes ==
  ASSUME Placed, Driver, Shape, DriverSteps
  PROVE  /\ DOMAIN dev' = Radios
         /\ \A r \in Radios :
              /\ Shaped(dev'[r])
              /\ \/ dev'[r].mode = dev[r].mode \/ dev'[r].mode = "off"
                 \/ r \in BS \cup UE \cup Ref /\ dev'[r].mode \in {"once", "beacon"}
         /\ phase' # "start"
         /\ phase' = "over" => \A r \in Radios : \/ dev'[r].mode = "off"
                                                 \/ /\ r \notin BS \cup UE \cup Ref
                                                    /\ dev'[r].mode = dev[r].mode
<1> DEFINE Moves(d) ==
      /\ DOMAIN d = Radios
      /\ \A r \in Radios : /\ Shaped(d[r])
                           /\ \/ d[r].mode = dev[r].mode \/ d[r].mode = "off"
                              \/ r \in BS \cup UE \cup Ref /\ d[r].mode \in {"once", "beacon"}
<1> SUFFICES Moves(dev') /\ phase' # "start" /\
             (phase' = "over" => \A r \in Radios : \/ dev'[r].mode = "off"
                                                   \/ /\ r \notin BS \cup UE \cup Ref
                                                      /\ dev'[r].mode = dev[r].mode)
  OBVIOUS
<1>1. Moves(dev)
  BY DEF Shape
<1>2. ASSUME NEW sched, NEW readers, DOMAIN sched \subseteq BS \cup UE \cup Ref
      PROVE  Moves(Configured(sched, readers))
  <2>1. DOMAIN Configured(sched, readers) = Radios
    BY DEF Configured
  <2> QED  BY <1>2, <2>1, ConfiguredIs DEF ConfiguredAs
<1>3. ASSUME NEW d, Moves(d) PROVE Moves(Ended(d))
  <2>1. DOMAIN Ended(d) = Radios
    BY DEF Ended
  <2>2. \A r \in Radios : Shaped(Ended(d)[r]) /\ Ended(d)[r].mode = d[r].mode
    BY <1>3, EndedIs
  <2> QED  BY <1>3, <2>1, <2>2
<1>4. ASSUME NEW t \in Tries PROVE Moves(t.dev)
  BY TryIs, TryDomain
<1>5. ASSUME NEW d, Moves(d), FrameDone(d) PROVE Moves(dev') /\ phase' \in {phase, "ready"}
  BY <1>3, <1>5 DEF FrameDone
<1>6. CASE MimoInit
  <2>1. /\ DOMAIN dev' = Radios /\ phase' \in {"stopped", "ready"}
        /\ \A r \in Radios : dev'[r] = IF r \in BS \cup UE \cup Ref THEN Opened(dev[r]) ELSE dev[r]
    BY <1>6 DEF MimoInit
  <2>2. \A r \in Radios : Shaped(dev[r]) /\ Shaped(Opened(dev[r])) /\ Opened(dev[r]).mode = "off"
    BY OpenedIs DEF Shape
  <2> QED  BY <2>1, <2>2
<1>7. CASE Refuse \/ GainsFail
  <2>1. dev' = dev /\ phase' \in {phase, "stopped"} /\ phase \in {"ready", "gains"}
    BY <1>7 DEF Refuse, GainsFail, Enter
  <2> QED  BY <1>1, <2>1
<1>8. CASE TxrxUplink \/ TxrxDownlink \/ TxrxDlSound \/ TxrxRefnode
  <2>1. PICK sched \in {Uplink, Downlink, Sound, RefNode}, readers \in {BS, UE} :
          dev' = Configured(sched, readers)
    BY <1>8 DEF TxrxUplink, TxrxDownlink, TxrxDlSound, TxrxRefnode, Begin
  <2>2. phase' = "call"
    BY <1>8 DEF TxrxUplink, TxrxDownlink, TxrxDlSound, TxrxRefnode, Begin
  <2>3. DOMAIN sched \subseteq BS \cup UE \cup Ref
    BY SchedulesOf
  <2> QED  BY <1>2, <2>1, <2>2, <2>3
<1>9. CASE CallFails
  <2>1. PICK sched \in {Sound, RefNode} : dev' = Configured(sched, {})
    BY <1>9 DEF CallFails, Fail
  <2>2. phase' = "stopped"
    BY <1>9 DEF CallFails, Fail
  <2>3. DOMAIN sched \subseteq BS \cup UE \cup Ref
    BY SchedulesOf
  <2> QED  BY <1>2, <2>1, <2>2, <2>3
<1>10. CASE UplinkTry \/ DownlinkTry \/ SoundTry
  <2>0. PICK fails, old : \E t \in Tries : Outcome(t, fails, old)
    BY <1>10 DEF UplinkTry, DownlinkTry, SoundTry
  <2>1. PICK t \in Tries : Outcome(t, fails, old)
    BY <2>0
  <2>2. phase = "call"
    BY <1>10 DEF UplinkTry, DownlinkTry, SoundTry, Trying
  <2>3. Moves(t.dev)
    BY <1>4
  <2>4. (dev' = t.dev /\ phase' \in {"stopped", phase}) \/ FrameDone(t.dev)
    BY <2>1 DEF Outcome
  <2> QED  BY <1>5, <2>2, <2>3, <2>4
<1>11. CASE RefFrame
  <2>1. PICK t \in Tries : FrameDone(t.dev)
    BY <1>11 DEF RefFrame
  <2>2. phase = "call"
    BY <1>11 DEF RefFrame
  <2> QED  BY <1>4, <1>5, <2>1, <2>2
<1>12. CASE SetOptGains
  <2>1. dev' = Configured(GainTest, UE) /\ phase' = "gains"
    BY <1>12 DEF SetOptGains
  <2>2. DOMAIN GainTest \subseteq BS \cup UE \cup Ref
    BY SchedulesOf
  <2> QED  BY <1>2, <2>1, <2>2
<1>13. CASE Combination
  <2>1. PICK count : dev' = [dev EXCEPT ![tool.bs + 1].count = count]
    BY <1>13 DEF Combination
  <2>2. phase' = phase /\ phase = "gains"
    BY <1>13 DEF Combination
  <2>3. Moves(dev')
    BY <1>1, <2>1 DEF Shaped, Fields
  <2> QED  BY <2>2, <2>3
<1>14. CASE GainsDone
  <2>1. dev' = Ended(dev) /\ phase' = "ready"
    BY <1>14 DEF GainsDone
  <2> QED  BY <1>1, <1>3, <2>1
<1>15. CASE Close
  <2>1. /\ DOMAIN dev' = Radios /\ phase' = "over"
        /\ \A r \in Radios : dev'[r] = IF r \in BS \cup UE \cup Ref THEN IrisClose(dev[r]) ELSE dev[r]
    BY <1>15 DEF Close
  <2>2. \A r \in Radios : Shaped(dev[r]) /\ Shaped(IrisClose(dev[r])) /\ IrisClose(dev[r]).mode = "off"
    BY IrisCloseIs DEF Shape
  <2> QED  BY <2>1, <2>2
<1> QED
  BY <1>6, <1>7, <1>8, <1>9, <1>10, <1>11, <1>12, <1>13, <1>14, <1>15 DEF DriverSteps

\* MIMODriver gives modes to its own radios, and close switches all of them off.
LEMMA QuietDriver == ASSUME Placed, Driver, QuietInv, DriverSteps PROVE QuietInv'
<1>1. Shape /\ ModesIn(BS \cup UE \cup Ref, {"once", "beacon"})
  BY DEF QuietInv
<1>2. tool' = tool
  BY DriverPlaced
<1>3. Shape' /\ phase' # "start"
  BY <1>1, DriverModes DEF Shape
<1>4. ModesIn(BS \cup UE \cup Ref, {"once", "beacon"})'
  BY <1>1, <1>2, DriverModes DEF ModesIn, BS, UE, Ref
<1>5. ASSUME phase' = "over" PROVE AllOff'
  BY <1>1, <1>5, DriverModes DEF ModesIn, AllOff
<1> QED
  BY <1>2, <1>3, <1>4, <1>5 DEF QuietInv, Recv, Driver, Pair, Burst, Array, Offset, Recip, Sounder,
     Sweep, Siggen

\* Every step keeps the radios quiet where they should be.
LEMMA QuietStep == ASSUME Placed, QuietInv, [Next]_toolVars PROVE QuietInv'
<1>1. CASE Next
  BY <1>1, OneTool, QuietDriver, QuietPair, QuietBurst, QuietArray, QuietOffset, QuietRecip,
     QuietSounder, QuietSweep, QuietOfdm, QuietSiggen, QuietRecv DEF StepOfTool
<1>2. CASE UNCHANGED toolVars
  BY <1>2 DEF toolVars, QuietInv, Shape, AllOff, NoCount, ModesIn, Driver, Pair, Burst, Array, Offset,
     Recip, Recv, Sounder, Sweep, Siggen, BS, UE, Ref, Nodes, RefRadio, Boards, Sounders, Sweepers
<1> QED  BY <1>1, <1>2

\* At the start every experiment is in its first phase and every radio off.
LEMMA QuietInit == Init => Placed /\ QuietInv
<1> SUFFICES ASSUME Init PROVE Placed /\ QuietInv
  OBVIOUS
<1>1. Placed
  BY DEF Init, Placed, PhasesOf
<1>2. Shape /\ AllOff /\ NoCount /\ phase = "start"
  BY DEF Init, Shape, Shaped, Idle, Fields, AllOff, NoCount
<1> QED  BY <1>1, <1>2 DEF QuietInv, ModesIn, AllOff

\* The tools leave no radio on the air that nobody stops.
THEOREM QuietAlways == Spec => []QuietWhenOver
<1>1. Init => Placed /\ QuietInv
  BY QuietInit
<1>2. Placed /\ QuietInv /\ [Next]_toolVars => Placed' /\ QuietInv'
  BY PlacedStep, QuietStep
<1>3. Placed /\ QuietInv => QuietWhenOver
  BY QuietEnough
<1> QED  BY <1>1, <1>2, <1>3, PTL DEF Spec

\* SISO_TX.py: what is replayed is what was generated, repeated as a whole.
SiggenInv ==
  Siggen =>
    /\ phase \in {"start", "siggen_open", "siggen_send"} => dev[1].mode # "replay"
    /\ dev[1].mode = "replay" =>
         out = [written  |-> IF KnownAntenna THEN Generated ELSE 0, repeated |-> Repeated]

\* The samples generated are those that are repeated, when a sequence fits them.
LEMMA GeneratedWhole ==
  ASSUME Placed, Siggen, ~(tool.signal \in {"LTS", "STS"} /\ tool.samps % Sequence # 0)
  PROVE  Generated = Repeated
<1>1. tool.samps \in Nat
  BY LabAssumption DEF Placed, Siggen
<1>2. tool.samps % 160 = 0 => (tool.samps \div 160) * 160 = tool.samps
  BY <1>1
<1>3. CASE tool.signal \in {"LTS", "STS"}
  BY <1>2, <1>3 DEF Generated, Repeated, Sequence
<1>4. CASE tool.signal = "SINE"
  BY <1>4 DEF Generated, Repeated, Sequence
<1>5. CASE tool.signal \notin {"LTS", "STS", "SINE"}
  BY <1>5 DEF Generated, Repeated, Sequence
<1> QED  BY <1>3, <1>4, <1>5

\* A step keeps the sender's record right.
LEMMA SiggenStep ==
  ASSUME Placed, QuietInv, SiggenInv, [Next]_toolVars PROVE SiggenInv'
<1>0. tool' = tool
  BY PlacedStep
<1> DEFINE full == [written  |-> IF KnownAntenna THEN Generated ELSE 0, repeated |-> Repeated]
<1>2. full' = full
  BY <1>0 DEF KnownAntenna, Generated, Repeated, Sequence
<1>1. ASSUME Siggen
      PROVE  /\ 1 \in Radios /\ Shaped(dev[1]) /\ DOMAIN dev = Radios
             /\ phase \in {"start", "siggen_open", "siggen_send"} => dev[1].mode # "replay"
             /\ dev[1].mode = "replay" => out = full
  <2>1. 1 \in Radios
    BY <1>1, LabAssumption DEF Placed, Siggen
  <2> QED  BY <1>1, <2>1 DEF SiggenInv, QuietInv, Shape
<1> HIDE DEF full
<1> SUFFICES ASSUME Siggen
             PROVE  /\ phase' \in {"start", "siggen_open", "siggen_send"} => dev'[1].mode # "replay"
                    /\ dev'[1].mode = "replay" => out' = full
  BY <1>0, <1>2 DEF SiggenInv, Siggen, full
<1>3. CASE UNCHANGED toolVars
  BY <1>1, <1>3 DEF toolVars
<1>4. CASE SiggenMain
  BY <1>1, <1>4 DEF SiggenMain
<1>5. CASE SiggenOpen
  BY <1>1, <1>5 DEF SiggenOpen, Shaped, Fields
<1>6. CASE SiggenSend
  <2>1. phase' \in {"stopped", "siggen_signal"}
    BY <1>6 DEF SiggenSend
  <2>2. (dev' = dev /\ out' = out) \/ out' = full
    BY <1>6 DEF SiggenSend, full
  <2> QED  BY <1>1, <2>1, <2>2
<1>7. CASE FreeKilled
  BY <1>1, <1>7 DEF FreeKilled
<1>8. CASE \/ SiggenHandled \/ SiggenThread \/ SiggenPause \/ PrinterEnds \/ SiggenHandler
           \/ SiggenOver
  BY <1>1, <1>8 DEF SiggenHandled, SiggenThread, SiggenPause, PrinterEnds, SiggenHandler, SiggenOver
<1> QED  BY <1>3, <1>4, <1>5, <1>6, <1>7, <1>8, OwnSteps DEF SiggenSteps

\* A payload is decoded if and only if it is whole, and the sender repeats nothing stale.
LEMMA DecodedEnough == ASSUME Placed, OfdmInv, SiggenInv PROVE DecodedWhole
<1>1. ASSUME Ofdm, NEW i \in DOMAIN out
      PROVE  out[i].says = "decoded" <=>
               /\ InSnapshot(out[i].peak - Preamble + 1, out[i].peak + Payload)
               /\ tool.cp = 32
               /\ out[i].peak - Preamble + 1 # 0
  <2>1. out[i].peak \in Int /\ out[i].says = Verdict(out[i].peak)
    <3>1. out \in Seq(Look) /\ out[i].says = Verdict(out[i].peak)
      BY <1>1 DEF OfdmInv
    <3>2. out[i] \in Look
      BY <1>1, <3>1
    <3> QED  BY <3>1, <3>2 DEF Look
  <2> QED  BY <1>1, <2>1, VerdictWhole
<1>2. ASSUME Siggen, dev[1].mode = "replay"
      PROVE  \/ out.repeated = out.written
             \/ ~KnownAntenna
             \/ tool.signal \in {"LTS", "STS"} /\ tool.samps % Sequence # 0
  <2>1. out = [written  |-> IF KnownAntenna THEN Generated ELSE 0, repeated |-> Repeated]
    BY <1>2 DEF SiggenInv
  <2> QED  BY <1>2, <2>1, GeneratedWhole
<1> QED  BY <1>1, <1>2 DEF DecodedWhole

\* A payload is decoded if and only if its preamble and all of it are in the snapshot, but for a
\* preamble that begins with the first sample; and what SISO_TX.py sends over and over is
\* what it has written (SISO_OFDM.py:312, SISO_TX.py:136).
THEOREM DecodedAlways == Spec => []DecodedWhole
<1>1. Init => Placed /\ QuietInv /\ OfdmInv /\ SiggenInv
  <2> SUFFICES ASSUME Init PROVE Placed /\ QuietInv /\ OfdmInv /\ SiggenInv
    OBVIOUS
  <2>1. OfdmInv
    BY DEF Init, OfdmInv
  <2>2. Placed /\ QuietInv /\ AllOff
    BY QuietInit DEF Init, QuietInv
  <2>3. Siggen => dev[1].mode # "replay"
    BY <2>2, LabAssumption DEF AllOff, Placed, Siggen
  <2> QED  BY <2>1, <2>2, <2>3 DEF SiggenInv
<1>2. Placed /\ QuietInv /\ OfdmInv /\ SiggenInv /\ [Next]_toolVars
        => Placed' /\ QuietInv' /\ OfdmInv' /\ SiggenInv'
  BY PlacedStep, QuietStep, OfdmStep, SiggenStep
<1>3. Placed /\ OfdmInv /\ SiggenInv => DecodedWhole
  BY DecodedEnough
<1> QED  BY <1>1, <1>2, <1>3, PTL DEF Spec

-----------------------------------------------------------------------------
(* sample_offset_cal.py: the boards agree at the end *)

Agree == \A b \in Boards : job.delay[b] = job.delay[1]

OffsetInv ==
  Offset =>
    /\ phase # "start" => DOMAIN job = {"retries", "delay"} /\ job.delay \in [Boards -> Int]
    /\ phase = "offset_ver" => (out.sure => Agree)
    /\ phase = "over" => /\ out.sure => Agree
                         /\ (\A b \in Boards : out.error[b] = 0) => (out.failed <=> ~Agree)

\* A board that does not answer with an echo in 80 % of the frames is measured right.
LEMMA RightIndex ==
  ASSUME NEW t \in Tallies, Passes(t), NEW e \in MostCommon(t), 10 * t.echo < 8 * CalTx
  PROVE  e = 0
<1>1. e \in Errors /\ Count(t, e) = Occurrences(t) /\ 10 * Occurrences(t) >= 8 * CalTx
  BY DEF MostCommon, Passes
<1>2. CalTx \in Nat /\ CalTx >= 2 /\ t.right \in Nat /\ t.echo \in Nat
  BY CalAssumption DEF Tallies
<1>3. e = 1 => Count(t, e) = t.echo
  BY DEF Count, NaN
<1>4. ASSUME e = NaN PROVE Count(t, e) \in {0, 1}
  <2>1. e # 0 /\ e # 1
    BY <1>4 DEF NaN
  <2>2. Count(t, e) = IF t.right + t.echo < CalTx THEN 1 ELSE 0
    BY <1>4, <2>1 DEF Count
  <2> QED  BY <2>2
<1>5. e # 1
  BY <1>1, <1>2, <1>3
<1>6. e # NaN
  BY <1>1, <1>2, <1>4
<1> QED  BY <1>1, <1>5, <1>6 DEF Errors

\* A step of sample_offset_cal.py keeps its tallies and its delays right.
LEMMA OffsetStep == ASSUME Placed, OffsetInv, [Next]_toolVars PROVE OffsetInv'
<1>0. tool' = tool
  BY PlacedStep
<1> SUFFICES ASSUME Offset
             PROVE  /\ phase' # "start" => DOMAIN job' = {"retries", "delay"} /\ job'.delay \in [Boards -> Int]
                    /\ phase' = "offset_ver" => (out'.sure => Agree')
                    /\ phase' = "over" => /\ out'.sure => Agree'
                                          /\ (\A b \in Boards : out'.error[b] = 0) => (out'.failed <=> ~Agree')
  BY <1>0 DEF OffsetInv, Offset, Boards
<1>1. tool.boards \in Nat
  BY LabAssumption DEF Placed, Offset
<1>2. /\ phase # "start" => DOMAIN job = {"retries", "delay"} /\ job.delay \in [Boards -> Int]
      /\ phase = "offset_ver" => (out.sure => Agree)
  BY DEF OffsetInv
<1>3. CASE UNCHANGED toolVars
  BY <1>3 DEF toolVars, OffsetInv, Agree, Boards
<1>4. CASE OffsetMain
  BY <1>0, <1>4 DEF OffsetMain, Boards
<1>5. CASE OffsetOpen
  <2>1. PICK d \in [Boards -> 0 .. MaxDelay] : job' = [job EXCEPT !.delay = d]
    BY <1>5 DEF OffsetOpen
  <2>2. phase' = "offset_cal" /\ phase # "start"
    BY <1>5 DEF OffsetOpen
  <2>3. d \in [Boards -> Int]
    OBVIOUS
  <2> QED  BY <1>2, <2>1, <2>2, <2>3
<1>6. CASE OffsetRetry \/ CalKilled
  <2>1. phase' \in {"offset_open", "stopped"} /\ phase # "start" /\ job' \in {job, [job EXCEPT !.retries = @ + 1]}
    BY <1>6 DEF OffsetRetry, CalKilled
  <2> QED  BY <1>2, <2>1
<1>7. CASE OffsetCalibrate
  <2>1. PICK t \in [Boards -> {u \in Tallies : Passes(u)}], error \in [Boards -> Errors] :
          /\ \A b \in Boards : error[b] \in MostCommon(t[b])
          /\ job' = [job EXCEPT !.delay = Moved(error)]
          /\ out' = [sure |-> \A b \in Boards : 10 * t[b].echo < 8 * CalTx]
    BY <1>7 DEF OffsetCalibrate
  <2>2. phase = "offset_cal" /\ phase' = "offset_ver"
    BY <1>7 DEF OffsetCalibrate
  <2>3. job.delay \in [Boards -> Int] /\ DOMAIN job = {"retries", "delay"}
    BY <1>2, <2>2
  <2>4. ASSUME NEW b \in Boards PROVE error[b] \in Int /\ error[1] \in Int /\ job.delay[b] \in Int /\ job.delay[1] \in Int /\ 1 \in Boards
    <3>1. 1 \in Boards
      BY <1>1 DEF Boards
    <3> QED  BY <2>3, <3>1 DEF Errors, NaN
  <2>5. Moved(error) = [b \in Boards |-> IF b = 1 THEN job.delay[1]
                                         ELSE job.delay[b] + (job.delay[1] + error[1]) - (job.delay[b] + error[b])]
    BY DEF Moved
  <2>6. Moved(error) \in [Boards -> Int]
    BY <2>4, <2>5
  <2>7. job'.delay = Moved(error) /\ DOMAIN job' = {"retries", "delay"}
    BY <2>1, <2>3
  <2>8. ASSUME out'.sure, NEW b \in Boards PROVE job'.delay[b] = job'.delay[1]
    <3>1. \A c \in Boards : t[c] \in Tallies /\ Passes(t[c]) /\ 10 * t[c].echo < 8 * CalTx
      BY <2>1, <2>8
    <3>2. error[b] = 0 /\ error[1] = 0
      BY <2>1, <2>4, <3>1, RightIndex
    <3>3. Moved(error)[b] = Moved(error)[1]
      BY <2>4, <2>5, <3>2
    <3> QED  BY <2>7, <3>3
  <2>9. out'.sure => Agree'
    BY <1>0, <2>8 DEF Agree, Boards
  <2> QED  BY <2>2, <2>6, <2>7, <2>9
<1>8. CASE OffsetVerify
  <2>1. PICK error \in [Boards -> Errors] :
          out' = [sure |-> out.sure, error |-> error,
                  failed |-> \/ \E b \in Boards : error[b] = NaN
                             \/ \E b \in Boards : job.delay[b] + error[b] # job.delay[1] + error[1]]
    BY <1>8 DEF OffsetVerify
  <2>2. phase = "offset_ver" /\ phase' = "over" /\ job' = job
    BY <1>8 DEF OffsetVerify
  <2>3. Agree' <=> Agree
    BY <1>0, <2>2 DEF Agree, Boards
  <2>4. ASSUME \A b \in Boards : out'.error[b] = 0
        PROVE  out'.failed <=> ~Agree
    <3>1. out'.error = error
      BY <2>1
    <3>2. \A b \in Boards : 1 \in Boards /\ error[b] = 0 /\ error[1] = 0 /\ job.delay[b] \in Int /\ job.delay[1] \in Int
      BY <1>1, <1>2, <2>2, <2>4, <3>1 DEF Boards
    <3>3. (\E b \in Boards : error[b] = NaN) <=> FALSE
      BY <3>2 DEF NaN
    <3>4. (\E b \in Boards : job.delay[b] + error[b] # job.delay[1] + error[1]) <=> ~Agree
      BY <3>2 DEF Agree
    <3>5. out'.failed <=> \/ \E b \in Boards : error[b] = NaN
                          \/ \E b \in Boards : job.delay[b] + error[b] # job.delay[1] + error[1]
      BY <2>1
    <3> QED  BY <3>3, <3>4, <3>5
  <2>5. out'.sure = out.sure
    BY <2>1
  <2> QED  BY <1>2, <2>2, <2>3, <2>4, <2>5
<1> QED  BY <1>3, <1>4, <1>5, <1>6, <1>7, <1>8, OwnSteps DEF OffsetSteps

-----------------------------------------------------------------------------
(* WB_CAL_DEMO.py: a report averages what was measured since the last one *)

RecipFields == {"running", "handler", "samps", "buffered", "fresh", "take", "prev_take", "first"}

\* The buffer holds the last takes; until the first report all of them are fresh, later
\* all but those up to the take the last report was made in.
RecipCount ==
  /\ DOMAIN job = RecipFields /\ job.first \in BOOLEAN
  /\ job.take \in Nat /\ job.prev_take \in Nat /\ job.fresh \in Nat
  /\ job.buffered = IF job.take <= BufferSamps THEN job.take ELSE BufferSamps
  /\ IF job.first THEN job.fresh = job.take /\ job.prev_take = 0
                  ELSE job.fresh = job.take - job.prev_take - 1

\* What Calibrated says of the last round.
ReportRight ==
  /\ out.reported =>
       out.window = Min({BufferSamps, out.fresh - IF out.first /\ out.fresh > 1 THEN 1 ELSE 0})
  /\ ~tool.both => \A p \in Pairs :
       \/ p \in out.lost
       \/ (out.samps[p] # 0 /\ (\A q \in Pairs \ out.lost : out.samps[p] = out.samps[q]))

RecipInv ==
  Recip => /\ round \in Nat
           /\ phase # "start" => RecipCount
           /\ out # <<>> => ReportRight

\* How many entries are averaged, as numbers.
Averaged(fresh, first) == fresh - IF first /\ fresh > 1 THEN 1 ELSE 0
Lesser(a, b) == IF a <= b THEN a ELSE b

\* The average of a report: the entries since the last one, as far as they are buffered.
LEMMA WindowRight ==
  ASSUME RecipCount,
         NEW n, n = Min({job.buffered + 1, BufferSamps})
  PROVE  /\ n = Lesser(job.take + 1, BufferSamps)
         /\ Window(n) = Min({BufferSamps, Averaged(job.fresh + 1, job.first)})
<1> DEFINE B == BufferSamps
           take == job.take
           prev == job.prev_take
           fresh == job.fresh
           first == job.first
           w == Averaged(fresh + 1, first)
<1>1. /\ take \in Nat /\ prev \in Nat /\ fresh \in Nat /\ B \in Nat /\ first \in BOOLEAN
      /\ job.buffered = Lesser(take, B)
      /\ IF first THEN fresh = take /\ prev = 0 ELSE fresh = take - prev - 1
  BY CalAssumption DEF RecipCount, Lesser
<1>2. n = Min({job.buffered + 1, B}) /\ take_num = take - prev
  BY DEF take_num
<1>3. Window(n) = IF take_num = 0 THEN n ELSE Min({take_num, n})
  BY DEF Window
<1> HIDE DEF B, take, prev, fresh, first
<1>4. /\ Lesser(Lesser(take, B) + 1, B) = Lesser(take + 1, B)
      /\ (IF take - prev = 0 THEN Lesser(take + 1, B) ELSE Lesser(take - prev, Lesser(take + 1, B)))
           = Lesser(B, w)
  <2>1. CASE first
    BY <1>1, <2>1 DEF Lesser, Averaged
  <2>2. CASE ~first
    BY <1>1, <2>2 DEF Lesser, Averaged
  <2> QED  BY <1>1, <2>1, <2>2
<1>5. w \in Int
  BY <1>1 DEF Averaged
<1>6. Lesser(take, B) + 1 \in Int /\ Lesser(take + 1, B) \in Int /\ take_num \in Int
  BY <1>1, <1>2 DEF Lesser
<1> HIDE DEF w
<1>7. n = Lesser(Lesser(take, B) + 1, B)
  BY <1>1, <1>2, <1>6, MinOfTwo DEF Lesser
<1>8. n = Lesser(take + 1, B)
  BY <1>4, <1>7
<1>9. Min({B, w}) = Lesser(B, w)
  BY <1>1, <1>5, MinOfTwo DEF Lesser
<1>10. Min({take_num, n}) = Lesser(take_num, n)
  BY <1>6, <1>8, MinOfTwo DEF Lesser
<1>11. Window(n) = Lesser(B, w)
  BY <1>2, <1>3, <1>4, <1>8, <1>10
<1> QED  BY <1>8, <1>9, <1>11 DEF B, take, fresh, first, w

\* A step of WB_CAL_DEMO.py keeps its takes right.
LEMMA RecipStep == ASSUME Placed, RecipInv, [Next]_toolVars PROVE RecipInv'
<1>0. tool' = tool
  BY PlacedStep
<1> SUFFICES ASSUME Recip PROVE round' \in Nat /\ (phase' # "start" => RecipCount') /\ (out' # <<>> => ReportRight')
  BY <1>0 DEF RecipInv, Recip
<1>1. round \in Nat /\ (phase # "start" => RecipCount) /\ (out # <<>> => ReportRight)
  BY DEF RecipInv
<1>2. CASE UNCHANGED <<job, out, round>> /\ phase # "start"
  BY <1>0, <1>1, <1>2 DEF RecipCount, ReportRight, Pairs, Ants
<1>3. CASE RecipMain
  <2>1. out' = out /\ round' = round /\ RecipCount'
    BY <1>3, CalAssumption DEF RecipMain, RecipCount, RecipFields
  <2> QED  BY <1>0, <1>1, <2>1 DEF ReportRight, Pairs, Ants
<1>4. CASE RecipOpen \/ RecipEnd \/ CalKilled
  BY <1>2, <1>4 DEF RecipOpen, RecipEnd, CalKilled
<1>5. CASE RecipPlot \/ RecipHandler \/ RecipSkip
  <2>1. phase # "start" /\ out' = out /\ round' \in {round, round + 1}
    BY <1>5 DEF RecipPlot, RecipHandler, RecipSkip
  <2>2. PICK v : job' \in {[job EXCEPT !.handler = v], [job EXCEPT !.running = v], [job EXCEPT !.samps = v]}
    BY <1>5 DEF RecipPlot, RecipHandler, RecipSkip
  <2>3. RecipCount'
    BY <1>1, <2>1, <2>2 DEF RecipCount, RecipFields
  <2> QED  BY <1>0, <1>1, <2>1, <2>3 DEF ReportRight, Pairs, Ants
<1>6. CASE RecipTake
  <2>1. PICK lost \in AtMostOne(Pairs), due \in BOOLEAN :
          LET samps == Read(lost)
              n     == Min({job.buffered + 1, BufferSamps})
          IN  /\ job' = [job EXCEPT !.samps = samps, !.buffered = n, !.take = @ + 1,
                                    !.fresh = IF due THEN 0 ELSE @ + 1,
                                    !.prev_take = IF due THEN job.take ELSE @,
                                    !.first = @ /\ ~due]
              /\ out' = [samps |-> samps, lost |-> lost, reported |-> due, first |-> job.first,
                         fresh |-> job.fresh + 1, window |-> Window(n)]
    BY <1>6 DEF RecipTake
  <2> DEFINE n == Min({job.buffered + 1, BufferSamps})
  <2>2. RecipCount /\ phase' = "recip_loop" /\ round' = round + 1
    BY <1>1, <1>6 DEF RecipTake
  <2>3. /\ n = Lesser(job.take + 1, BufferSamps)
        /\ Window(n) = Min({BufferSamps, Averaged(job.fresh + 1, job.first)})
    BY <2>2, WindowRight
  <2> HIDE DEF n
  <2>4. /\ DOMAIN job' = RecipFields /\ job'.take = job.take + 1 /\ job'.buffered = n
        /\ job'.fresh = (IF due THEN 0 ELSE job.fresh + 1)
        /\ job'.prev_take = (IF due THEN job.take ELSE job.prev_take)
        /\ job'.first = (job.first /\ ~due)
    BY <2>1, <2>2 DEF RecipCount, RecipFields, n
  <2>5. RecipCount'
    <3>1. /\ job.first \in BOOLEAN /\ job.take \in Nat /\ job.prev_take \in Nat /\ job.fresh \in Nat
          /\ IF job.first THEN job.fresh = job.take /\ job.prev_take = 0
                          ELSE job.fresh = job.take - job.prev_take - 1
      BY <2>2 DEF RecipCount
    <3>2. job'.buffered = IF job'.take <= BufferSamps THEN job'.take ELSE BufferSamps
      BY <2>3, <2>4 DEF Lesser
    <3>3. CASE due
      <4>1. job'.first = FALSE /\ job'.fresh = 0 /\ job'.prev_take = job.take
        BY <2>4, <3>3
      <4> QED  BY <2>4, <3>1, <3>2, <4>1 DEF RecipCount
    <3>4. CASE ~due
      <4>1. job'.first = job.first /\ job'.fresh = job.fresh + 1 /\ job'.prev_take = job.prev_take
        BY <2>4, <3>1, <3>4
      <4> QED  BY <2>4, <3>1, <3>2, <4>1 DEF RecipCount
    <3> QED  BY <3>3, <3>4
  <2>6. /\ out'.reported = due /\ out'.window = Window(n) /\ out'.first = job.first
        /\ out'.fresh = job.fresh + 1 /\ out'.lost = lost /\ out'.samps = Read(lost)
    BY <2>1 DEF n
  <2>7. ASSUME ~tool.both, NEW p \in Pairs, p \notin lost PROVE Read(lost)[p] = round + 1
    <3>1. tool.sdrs \in Nat
      BY LabAssumption DEF Placed, Recip
    <3>2. Ants = 1 .. tool.sdrs
      BY <2>7, <3>1 DEF Ants
    <3>3. p[1] <= tool.sdrs /\ p[2] <= tool.sdrs
      BY <3>1, <3>2 DEF Pairs
    <3> QED  BY <2>7, <3>3 DEF Read
  <2>8. round + 1 # 0
    BY <1>1
  <2>9. ReportRight'
    <3>1. Pairs' = Pairs
      BY <1>0 DEF Pairs, Ants
    <3>2. out'.window = Min({BufferSamps, Averaged(out'.fresh, out'.first)})
      BY <2>3, <2>6
    <3>3. ~tool.both => \A p \in Pairs :
            p \in out'.lost \/ (out'.samps[p] # 0 /\ (\A q \in Pairs \ out'.lost : out'.samps[p] = out'.samps[q]))
      <4>1. SUFFICES ASSUME ~tool.both, NEW p \in Pairs, p \notin lost
                     PROVE  /\ Read(lost)[p] # 0
                            /\ \A q \in Pairs \ lost : Read(lost)[p] = Read(lost)[q]
        BY <2>6
      <4>2. \A q \in Pairs \ lost : Read(lost)[q] = round + 1
        BY <2>7, <4>1
      <4> QED  BY <2>8, <4>1, <4>2
    <3> QED  BY <1>0, <3>1, <3>2, <3>3 DEF ReportRight, Averaged
  <2> QED  BY <1>1, <2>2, <2>5, <2>9
<1>7. CASE UNCHANGED toolVars /\ phase = "start"
  BY <1>1, <1>7 DEF toolVars, ReportRight, Pairs, Ants
<1> QED  BY <1>2, <1>3, <1>4, <1>5, <1>6, <1>7, OwnSteps DEF RecipSteps, toolVars

\* Reports of the calibrations are of the rounds they name, and boards that pass are aligned
\* (sample_offset_cal.py:147, WB_CAL_DEMO.py:264).
THEOREM CalibratedAlways == Spec => []Calibrated
<1>1. Init => Placed /\ OffsetInv /\ RecipInv
  <2> SUFFICES ASSUME Init PROVE Placed /\ OffsetInv /\ RecipInv
    OBVIOUS
  <2>1. Placed
    BY QuietInit
  <2> QED  BY <2>1 DEF Init, OffsetInv, RecipInv
<1>2. Placed /\ OffsetInv /\ RecipInv /\ [Next]_toolVars => Placed' /\ OffsetInv' /\ RecipInv'
  BY PlacedStep, OffsetStep, RecipStep
<1>3. Placed /\ OffsetInv /\ RecipInv => Calibrated
  BY DEF Calibrated, OffsetInv, RecipInv, Agree, ReportRight
<1> QED  BY <1>1, <1>2, <1>3, PTL DEF Spec

-----------------------------------------------------------------------------
(* SISO_RX.py: the ring of the receiver holds its last frames *)

\* Entry k of a ring of N entries after n frames: the ring has wrapped up to p, the next entry.
RingEntry(n, p, N, k) ==
  IF k < p THEN n - p + k + 1 ELSE IF n = p THEN 0 ELSE n - p - N + k + 1
RingAfter(ring, n, p, N) ==
  /\ n = p \/ n >= p + N
  /\ DOMAIN ring = 0 .. N - 1
  /\ \A k \in 0 .. N - 1 : ring[k] = RingEntry(n, p, N, k)
RingRight == RingAfter(out.ring, round, round % AvgLen, AvgLen)

RecvInv ==
  Recv => /\ round \in Nat
          /\ phase \in {"start", "rx_replay", "rx_open"} => round = 0 /\ out = <<>>
          /\ phase = "rx_show" => RingRight
          /\ out # <<>> => RingRight

\* The place after the last one is the first.
LEMMA NextPlace ==
  ASSUME NEW r \in Nat, NEW N \in Nat \ {0}
  PROVE  /\ r % N \in 0 .. N - 1 /\ 0 % N = 0
         /\ (r + 1) % N = IF r % N = N - 1 THEN 0 ELSE (r % N) + 1
<1> DEFINE p == r % N
           q == r \div N
           x == q * N
<1>1. p \in 0 .. N - 1 /\ q \in Int /\ r = x + p /\ x \in Int /\ 0 % N = 0
  OBVIOUS
<1>2. (q + 1) * N = x + N
  BY <1>1
<1>3. \A z \in Int, y \in 0 .. N - 1 : ((z * N) + y) % N = y
  OBVIOUS
<1>4. CASE p = N - 1
  <2>1. r + 1 = ((q + 1) * N) + 0 /\ q + 1 \in Int /\ 0 \in 0 .. N - 1
    BY <1>1, <1>2, <1>4
  <2>2. (r + 1) % N = 0
    <3> DEFINE z == q + 1
    <3>1. r + 1 = (z * N) + 0 /\ z \in Int
      BY <2>1
    <3> HIDE DEF z
    <3> QED  BY <1>3, <2>1, <3>1
  <2> QED  BY <1>1, <1>4, <2>2
<1>5. CASE p # N - 1
  <2>1. r + 1 = (q * N) + (p + 1) /\ p + 1 \in 0 .. N - 1
    BY <1>1, <1>5
  <2>2. (r + 1) % N = p + 1
    BY <1>1, <1>3, <2>1
  <2> QED  BY <1>1, <1>5, <2>2
<1> QED  BY <1>4, <1>5

\* The ring after one more frame.
LEMMA RingNext ==
  ASSUME NEW n \in Nat, NEW N \in Nat \ {0}, NEW p \in 0 .. N - 1, NEW q,
         q = (IF p = N - 1 THEN 0 ELSE p + 1), NEW ring, RingAfter(ring, n, p, N)
  PROVE  RingAfter([ring EXCEPT ![p] = n + 1], n + 1, q, N)
<1>0. n = p \/ n >= p + N
  BY DEF RingAfter
<1>1. n + 1 = q \/ n + 1 >= q + N
  BY <1>0
<1>2. ASSUME NEW k \in 0 .. N - 1
      PROVE  (IF k = p THEN n + 1 ELSE RingEntry(n, p, N, k)) = RingEntry(n + 1, q, N, k)
  <2>1. CASE p = N - 1
    BY <1>0, <2>1 DEF RingEntry
  <2>2. CASE p # N - 1
    BY <1>0, <2>2 DEF RingEntry
  <2> QED  BY <2>1, <2>2
<1> QED  BY <1>1, <1>2 DEF RingAfter

\* A step of SISO_RX.py keeps the average of the newest levels.
LEMMA RecvStep == ASSUME Placed, RecvInv, [Next]_toolVars PROVE RecvInv'
<1>0. tool' = tool
  BY PlacedStep
<1> SUFFICES ASSUME Recv
             PROVE  /\ round' \in Nat
                    /\ phase' \in {"start", "rx_replay", "rx_open"} => round' = 0 /\ out' = <<>>
                    /\ phase' = "rx_show" => RingRight'
                    /\ out' # <<>> => RingRight'
  BY <1>0 DEF RecvInv, Recv
<1>1. /\ round \in Nat
      /\ phase \in {"start", "rx_replay", "rx_open"} => round = 0 /\ out = <<>>
      /\ phase = "rx_show" => RingRight
      /\ out # <<>> => RingRight
  BY DEF RecvInv
<1>2. CASE RxOpen
  <2>1. /\ round' = 0 /\ round = 0 /\ phase' \in {"stopped", "rx_show"}
        /\ out' = [file |-> 0, ring |-> [k \in 0 .. AvgLen - 1 |-> 0]]
    BY <1>1, <1>2 DEF RxOpen
  <2>2. 0 % AvgLen = 0
    BY NextPlace, FreeAssumption
  <2>3. \A k \in 0 .. AvgLen - 1 : RingEntry(0, 0, AvgLen, k) = 0
    BY FreeAssumption DEF RingEntry
  <2>5. DOMAIN out'.ring = 0 .. AvgLen - 1 /\ \A k \in 0 .. AvgLen - 1 : out'.ring[k] = 0
    BY <2>1
  <2>4. RingRight'
    BY <2>1, <2>2, <2>3, <2>5 DEF RingRight, RingAfter
  <2> QED  BY <2>1, <2>4
<1>3. CASE RxAnimate
  <2>1. PICK wave : /\ out' = [file |-> wave, ring |-> [out.ring EXCEPT ![round % AvgLen] = round + 1]]
                    /\ round' = round + 1 /\ phase = "rx_show" /\ phase' = "rx_show"
    BY <1>3 DEF RxAnimate
  <2> DEFINE p == round % AvgLen
             q == (round + 1) % AvgLen
  <2>2. p \in 0 .. AvgLen - 1 /\ q = (IF p = AvgLen - 1 THEN 0 ELSE p + 1)
    BY <1>1, NextPlace, FreeAssumption
  <2>3. RingAfter(out.ring, round, p, AvgLen)
    BY <1>1, <2>1 DEF RingRight
  <2>4. out'.ring = [out.ring EXCEPT ![p] = round + 1]
    BY <2>1
  <2>5. AvgLen \in Nat \ {0}
    BY FreeAssumption
  <2> HIDE DEF p, q
  <2>6. RingAfter([out.ring EXCEPT ![p] = round + 1], round + 1, q, AvgLen)
    BY <1>1, <2>2, <2>3, <2>5, RingNext
  <2>7. RingRight'
    BY <2>1, <2>4, <2>6 DEF RingRight, q
  <2> QED  BY <1>1, <2>1, <2>7
<1>4. CASE RxMain \/ RxReplay \/ RxOver \/ FreeKilled
  <2>1. out' = out /\ round' = round /\ phase' \in {"over", "stopped", "rx_replay", "rx_open"}
        /\ (phase' \in {"rx_replay", "rx_open"} => phase = "start")
    BY <1>4 DEF RxMain, RxReplay, RxOver, FreeKilled
  <2>2. RingRight' <=> RingRight
    BY <2>1 DEF RingRight
  <2> QED  BY <1>1, <2>1, <2>2
<1>5. CASE UNCHANGED toolVars
  <2>1. RingRight' <=> RingRight
    BY <1>5 DEF RingRight, toolVars
  <2> QED  BY <1>1, <1>5, <2>1 DEF toolVars
<1> QED  BY <1>2, <1>3, <1>4, <1>5, OwnSteps DEF RecvSteps

\* What InStep says of the receiver.
LEMMA RecvEnough ==
  ASSUME RecvInv, Recv, out # <<>>, round >= AvgLen
  PROVE  {out.ring[k] : k \in DOMAIN out.ring} = round - AvgLen + 1 .. round
<1> DEFINE N == AvgLen
           n == round
           p == round % AvgLen
           ring == out.ring
<1>1. n \in Nat /\ N \in Nat \ {0} /\ n >= N
  BY FreeAssumption DEF RecvInv
<1>2. p \in 0 .. N - 1
  BY <1>1, NextPlace
<1>3. /\ n = p \/ n >= p + N
      /\ DOMAIN ring = 0 .. N - 1 /\ \A k \in 0 .. N - 1 : ring[k] = RingEntry(n, p, N, k)
  BY DEF RecvInv, RingRight, RingAfter
<1> HIDE DEF N, n, p, ring
<1>4. n # p /\ n >= p + N
  BY <1>1, <1>2, <1>3
<1>5. DOMAIN ring = 0 .. N - 1
  BY <1>3
<1>6. ASSUME NEW k \in 0 .. N - 1 PROVE ring[k] \in n - N + 1 .. n
  BY <1>1, <1>2, <1>3, <1>4, <1>6 DEF RingEntry
<1>7. ASSUME NEW x \in n - N + 1 .. n PROVE \E k \in 0 .. N - 1 : ring[k] = x
  <2>1. CASE x > n - p
    <3>1. x - n + p - 1 \in 0 .. N - 1 /\ x - n + p - 1 < p
      BY <1>1, <1>2, <1>4, <2>1
    <3>2. RingEntry(n, p, N, x - n + p - 1) = x
      BY <1>1, <1>2, <3>1 DEF RingEntry
    <3> QED  BY <1>3, <3>1, <3>2
  <2>2. CASE ~(x > n - p)
    <3>1. x - n + p + N - 1 \in 0 .. N - 1 /\ ~(x - n + p + N - 1 < p)
      BY <1>1, <1>2, <1>4, <2>2
    <3>2. RingEntry(n, p, N, x - n + p + N - 1) = x
      BY <1>1, <1>2, <1>4, <3>1 DEF RingEntry
    <3> QED  BY <1>3, <3>1, <3>2
  <2> QED  BY <2>1, <2>2
<1>8. {ring[k] : k \in DOMAIN ring} = n - N + 1 .. n
  BY <1>5, <1>6, <1>7
<1> QED  BY <1>8 DEF N, n, ring

-----------------------------------------------------------------------------
(* Symbols on the air *)

\* A list of numbers that rise is the list of the set of them.
LEMMA Enumerated ==
  ASSUME NEW m \in Nat, NEW f \in [1 .. m -> Int],
         \A i, j \in 1 .. m : i < j => f[i] < f[j],
         NEW S, S = {f[i] : i \in 1 .. m}
  PROVE  Cardinality(S) = m /\ InOrder(S) = f
<1>0. \A i, j \in 1 .. m : f[j] <= f[i] <=> j <= i
  OBVIOUS
<1>1. ASSUME NEW i \in 0 .. m
      PROVE  Cardinality({f[j] : j \in 1 .. i}) = i
  <2> DEFINE T == {f[j] : j \in 1 .. i}
             g == [j \in 1 .. i |-> f[j]]
  <2>1. g \in Bijection(1 .. i, T)
    <3>1. g \in [1 .. i -> T] /\ (\A t \in T : \E j \in 1 .. i : g[j] = t)
      OBVIOUS
    <3>2. \A a, b \in 1 .. i : g[a] = g[b] => a = b
      <4>1. ASSUME NEW a \in 1 .. i, NEW b \in 1 .. i, f[a] = f[b] PROVE a = b
        <5>1. a \in 1 .. m /\ b \in 1 .. m /\ f[a] \in Int /\ f[b] \in Int
          OBVIOUS
        <5>2. ~(a < b) /\ ~(b < a)
          BY <4>1, <5>1
        <5> QED  BY <5>2
      <4> QED  BY <4>1
    <3> HIDE DEF T, g
    <3> QED  BY <3>1, <3>2 DEF Bijection, Injection, Surjection, IsInjective
  <2>2. ExistsBijection(1 .. i, T)
    BY <2>1 DEF ExistsBijection
  <2> HIDE DEF T, g
  <2>3. Cardinality(T) = i
    BY <2>2, FS_CountingElements
  <2> QED  BY <2>3 DEF T
<1>2. m \in 0 .. m /\ Cardinality(S) = m
  BY <1>1
<1>3. ASSUME NEW i \in 1 .. m PROVE Cardinality({x \in S : x <= f[i]}) = i
  <2>1. {x \in S : x <= f[i]} = {f[j] : j \in 1 .. i}
    <3>1. ASSUME NEW x \in S, x <= f[i] PROVE x \in {f[j] : j \in 1 .. i}
      <4>1. PICK j \in 1 .. m : x = f[j]
        OBVIOUS
      <4>2. j <= i
        BY <1>0, <3>1, <4>1
      <4> QED  BY <4>1, <4>2
    <3>2. ASSUME NEW j \in 1 .. i PROVE f[j] \in S /\ f[j] <= f[i]
      BY <1>0
    <3> QED  BY <3>1, <3>2
  <2>2. i \in 0 .. m
    OBVIOUS
  <2> QED  BY <1>1, <2>1, <2>2
<1>4. ASSUME NEW i \in 1 .. m PROVE Nth(S, i) = f[i]
  <2>1. f[i] \in S /\ Cardinality({x \in S : x <= f[i]}) = i
    BY <1>3
  <2>2. ASSUME NEW k \in S, Cardinality({x \in S : x <= k}) = i PROVE k = f[i]
    <3>1. PICK j \in 1 .. m : k = f[j]
      OBVIOUS
    <3>2. Cardinality({x \in S : x <= k}) = j
      BY <1>3, <3>1
    <3> QED  BY <2>2, <3>1, <3>2
  <2> QED  BY <2>1, <2>2 DEF Nth
<1>5. InOrder(S) = [i \in 1 .. m |-> Nth(S, i)]
  BY <1>2 DEF InOrder
<1> QED  BY <1>2, <1>4, <1>5

\* The list of one number, and of none.
LEMMA OneInOrder ==
  ASSUME NEW k \in Int
  PROVE  /\ Cardinality({k}) = 1 /\ InOrder({k}) = <<k>>
         /\ Cardinality({}) = 0 /\ InOrder({}) = <<>>
<1>1. <<k>> \in [1 .. 1 -> Int] /\ <<k>>[1] = k /\ {<<k>>[i] : i \in 1 .. 1} = {k}
  OBVIOUS
<1>2. \A i, j \in 1 .. 1 : ~(i < j)
  OBVIOUS
<1> DEFINE f == <<k>>
<1>3. f \in [1 .. 1 -> Int] /\ {k} = {f[i] : i \in 1 .. 1}
  BY <1>1
<1> HIDE DEF f
<1>4. Cardinality({k}) = 1 /\ InOrder({k}) = f
  BY <1>2, <1>3, Enumerated
<1>5. Cardinality({}) = 0
  BY FS_EmptySet
<1>6. InOrder({}) = <<>>
  BY <1>5 DEF InOrder
<1> QED  BY <1>4, <1>5, <1>6 DEF f

\* The symbols that reach radio r, and who sends.
Players(heard) == heard \cup {r \in Radios : dev[r].mode = "once"}
Reaches(r, lost) == {k \in Places(dev[r].slots) : <<r, k>> \notin lost}
Symbols(r, heard, lost) ==
  [i \in 1 .. Cardinality(Reaches(r, lost)) |->
     Symbol(Nth(Reaches(r, lost), i), {q \in Players(heard) \ {r} : Sends(q, Nth(Reaches(r, lost), i))})]

\* A radio that plays and whose stream is active gets its symbols.
LEMMA PlayedFifo ==
  ASSUME Shape, NEW heard, NEW lost, NEW r \in Radios
  PROVE  Played(heard, lost)[r].fifo =
           IF r \in Players(heard) /\ dev[r].active THEN dev[r].fifo \o Symbols(r, heard, lost)
           ELSE dev[r].fifo
<1> DEFINE ks == InOrder(Reaches(r, lost))
           syms == [i \in DOMAIN ks |-> Symbol(ks[i], {q \in Players(heard) \ {r} : Sends(q, ks[i])})]
<1>1. Shaped(dev[r])
  BY DEF Shape
<1>2. syms = Symbols(r, heard, lost)
  BY DEF InOrder, Symbols
<1>3. Played(heard, lost)[r] =
        IF r \notin Players(heard) THEN dev[r]
        ELSE [dev[r] EXCEPT !.count = @ + 1, !.fifo = IF dev[r].active THEN @ \o syms ELSE @]
  BY DEF Played, Players, Reaches
<1> HIDE DEF syms
<1>4. CASE r \notin Players(heard)
  BY <1>3, <1>4
<1>5. CASE r \in Players(heard)
  BY <1>1, <1>2, <1>3, <1>5 DEF Shaped, Fields
<1> QED  BY <1>4, <1>5

\* Nothing was left from the last frame, so the queue is what this frame brought.
LEMMA SymbolsAre ==
  ASSUME NEW heard, NEW lost, NEW r, Cardinality(Reaches(r, lost)) \in Nat
  PROVE  /\ Len(Symbols(r, heard, lost)) = Cardinality(Reaches(r, lost))
         /\ DOMAIN Symbols(r, heard, lost) = 1 .. Cardinality(Reaches(r, lost))
         /\ \E X : Symbols(r, heard, lost) \in Seq(X)
         /\ <<>> \o Symbols(r, heard, lost) = Symbols(r, heard, lost)
<1> DEFINE s == Symbols(r, heard, lost)
           n == Cardinality(Reaches(r, lost))
           X == {s[i] : i \in 1 .. n}
<1>1. DOMAIN s = 1 .. n /\ s = [i \in 1 .. n |-> s[i]] /\ n \in Nat
  BY DEF Symbols
<1> HIDE DEF s, n
<1>2. s \in Seq(X) /\ Len(s) = n
  BY <1>1
<1>3. <<>> \o s = s
  BY <1>2, ConcatEmptySeq
<1> QED  BY <1>1, <1>2, <1>3 DEF s, n

\* The parts of a schedule, put together.
Marks == {"B", "G", "P", "R", "T"}
\* A schedule put together from two parts has the slots of the one, then those of the other.
LEMMA TwoParts ==
  ASSUME NEW a \in Seq(Marks), NEW b \in Seq(Marks)
  PROVE  /\ a \o b \in Seq(Marks) /\ Len(a \o b) = Len(a) + Len(b)
         /\ \A i \in 1 .. Len(a) : (a \o b)[i] = a[i]
         /\ \A i \in 1 .. Len(b) : (a \o b)[Len(a) + i] = b[i]
<1>1. Len(a) \in Nat /\ Len(b) \in Nat
  OBVIOUS
<1>2. ASSUME NEW i \in 1 .. Len(b) PROVE (a \o b)[Len(a) + i] = b[i]
  <2>1. Len(a) + i \in 1 .. Len(a) + Len(b) /\ ~(Len(a) + i <= Len(a)) /\ (Len(a) + i) - Len(a) = i
    BY <1>1
  <2> QED  BY <2>1, ConcatProperties
<1> QED  BY <1>1, <1>2, ConcatProperties

\* A radio with one slot to receive in hears the radios that send in it.
LEMMA SingleSymbol ==
  ASSUME NEW heard, NEW lost, NEW r, NEW k \in Int,
         Places(dev[r].slots) = {k}, <<r, k>> \notin lost
  PROVE  /\ <<>> \o Symbols(r, heard, lost) = Symbols(r, heard, lost)
         /\ Symbols(r, heard, lost) # <<>>
         /\ Symbols(r, heard, lost)[1] = Symbol(k, {q \in Players(heard) \ {r} : Sends(q, k)})
<1>1. Reaches(r, lost) = {k}
  BY DEF Reaches
<1>2. Cardinality({k}) = 1 /\ Nth({k}, 1) = k
  <2>1. Cardinality({k}) = 1 /\ InOrder({k}) = <<k>>
    BY OneInOrder
  <2>2. InOrder({k})[1] = Nth({k}, 1)
    BY <2>1 DEF InOrder
  <2> QED  BY <2>1, <2>2
<1>3. /\ DOMAIN Symbols(r, heard, lost) = 1 .. 1
      /\ <<>> \o Symbols(r, heard, lost) = Symbols(r, heard, lost)
  <2>1. Cardinality(Reaches(r, lost)) = 1 /\ Cardinality(Reaches(r, lost)) \in Nat
    BY <1>1, <1>2
  <2> QED  BY <2>1, SymbolsAre
<1>4. Symbols(r, heard, lost)[1] = Symbol(k, {q \in Players(heard) \ {r} : Sends(q, k)})
  BY <1>1, <1>2 DEF Symbols
<1>5. DOMAIN <<>> = {} /\ 1 \in 1 .. 1
  OBVIOUS
<1>6. Symbols(r, heard, lost) # <<>>
  BY <1>3, <1>5
<1> QED  BY <1>3, <1>4, <1>6

-----------------------------------------------------------------------------
(* SISO_TXRX_TDD.py: what is shown is of the one frame there is *)

BurstReady ==
  \A r \in 1 .. 2 : /\ dev[r].mode = "once" /\ dev[r].active /\ dev[r].fifo = <<>>
                    /\ dev[r].slots = BurstSchedule[r]
BurstSlot(r) == IF r = 1 THEN 3 ELSE 1
BurstRight ==
  \A r \in 1 .. 2 : <<r, BurstSlot(r)>> \notin out.lost => Fresh(out.wave[r], BurstSlot(r), 3 - r)
BurstInv ==
  Burst => /\ phase \in {"start", "burst_open"} => \A r \in Radios : dev[r].fifo = <<>>
           /\ phase = "burst_armed" => BurstReady
           /\ out # <<>> => BurstRight

\* A frame of the two radios.
LEMMA BurstShown ==
  ASSUME Placed, Burst, QuietInv, BurstReady, NEW lost, NEW r \in 1 .. 2, NEW old,
         <<r, BurstSlot(r)>> \notin lost
  PROVE  FirstRead(Played({}, lost)[r].fifo, old) =
           [round |-> round + 1, slot |-> BurstSlot(r), from |-> {3 - r}]
<1> DEFINE k == BurstSlot(r)
<1>0. {1, 2} \subseteq Radios
  BY LabAssumption DEF Placed, Burst
<1>1. /\ dev[1].slots = <<"P", "G", "R", "G">> /\ dev[2].slots = <<"R", "G", "P", "G">>
      /\ dev[1].mode = "once" /\ dev[2].mode = "once"
  BY DEF BurstReady, BurstSchedule
<1>2. Players({}) = {1, 2}
  BY <1>0, <1>1 DEF Players, QuietInv, ModesIn
<1>3. Places(dev[r].slots) = {k} /\ k \in Int
  <2>1. CASE r = 1
    BY <1>1, <2>1 DEF Places, BurstSlot
  <2>2. CASE r = 2
    BY <1>1, <2>2 DEF Places, BurstSlot
  <2> QED  BY <2>1, <2>2
<1>4. {q \in Players({}) \ {r} : Sends(q, k)} = {3 - r}
  <2>1. CASE r = 1
    BY <1>1, <1>2, <2>1 DEF Sends, BurstSlot
  <2>2. CASE r = 2
    BY <1>1, <1>2, <2>2 DEF Sends, BurstSlot
  <2> QED  BY <2>1, <2>2
<1>5. Played({}, lost)[r].fifo = <<>> \o Symbols(r, {}, lost)
  <2>1. Shape
    BY DEF QuietInv
  <2>2. r \in Radios /\ r \in Players({}) /\ dev[r].active /\ dev[r].fifo = <<>>
    BY <1>0, <1>2 DEF BurstReady
  <2> QED  BY <2>1, <2>2, PlayedFifo
<1>6. <<r, k>> \notin lost
  OBVIOUS
<1> HIDE DEF k
<1>7. /\ <<>> \o Symbols(r, {}, lost) = Symbols(r, {}, lost) /\ Symbols(r, {}, lost) # <<>>
      /\ Symbols(r, {}, lost)[1] = Symbol(k, {q \in Players({}) \ {r} : Sends(q, k)})
  BY <1>3, <1>6, SingleSymbol
<1>8. FirstRead(Played({}, lost)[r].fifo, old) = Symbols(r, {}, lost)[1]
  BY <1>5, <1>7 DEF FirstRead
<1>9. Symbol(k, {3 - r}) = [round |-> round + 1, slot |-> k, from |-> {3 - r}]
  BY DEF Symbol
<1> QED  BY <1>4, <1>7, <1>8, <1>9 DEF k

\* A step of SISO_TXRX_TDD.py keeps what is shown of the one frame there is.
LEMMA BurstStep ==
  ASSUME Placed, QuietInv, BurstInv, [Next]_toolVars PROVE BurstInv'
<1>0. tool' = tool
  BY PlacedStep
<1> SUFFICES ASSUME Burst
             PROVE  /\ phase' \in {"start", "burst_open"} => \A r \in Radios : dev'[r].fifo = <<>>
                    /\ phase' = "burst_armed" => BurstReady'
                    /\ out' # <<>> => BurstRight'
  BY <1>0 DEF BurstInv, Burst
<1>1. /\ phase \in {"start", "burst_open"} => \A r \in Radios : dev[r].fifo = <<>>
      /\ phase = "burst_armed" => BurstReady
      /\ out # <<>> => BurstRight
  BY DEF BurstInv
<1>2. ASSUME out' = out, round' = round PROVE out' # <<>> => BurstRight'
  BY <1>1, <1>2 DEF BurstRight, Fresh
<1>3. CASE BurstMain \/ BurstEnd \/ PilotKilled
  <2>1. /\ out' = out /\ round' = round
        /\ phase' = "burst_open" => phase = "start" /\ dev' = dev
        /\ phase' \notin {"start", "burst_armed"}
    BY <1>3 DEF BurstMain, BurstEnd, PilotKilled
  <2> QED  BY <1>1, <1>2, <2>1
<1>4. CASE BurstArm
  <2>1. /\ phase = "burst_open" /\ phase' = "burst_armed" /\ out' = out /\ round' = round
        /\ \A r \in Radios : dev'[r] = IF r \in 1 .. 2
                                       THEN [Set(BurstSchedule)[r] EXCEPT !.active = TRUE] ELSE dev[r]
    BY <1>4 DEF BurstArm
  <2>2. {1, 2} \subseteq Radios
    BY LabAssumption DEF Placed, Burst
  <2>3. ASSUME NEW r \in 1 .. 2
        PROVE  /\ dev'[r].mode = "once" /\ dev'[r].active /\ dev'[r].fifo = <<>>
               /\ dev'[r].slots = BurstSchedule[r]
    <3>1. r \in Radios /\ r \in DOMAIN BurstSchedule /\ Shaped(dev[r]) /\ dev[r].fifo = <<>>
      BY <1>1, <2>1, <2>2 DEF QuietInv, Shape, BurstSchedule
    <3>2. Set(BurstSchedule)[r] = [dev[r] EXCEPT !.mode = "once", !.slots = BurstSchedule[r]]
      BY <3>1 DEF Set
    <3>3. dev'[r] = [Set(BurstSchedule)[r] EXCEPT !.active = TRUE]
      BY <2>1, <3>1
    <3> HIDE DEF BurstSchedule
    <3> QED  BY <3>1, <3>2, <3>3 DEF Shaped, Fields
  <2>4. BurstReady'
    BY <2>3 DEF BurstReady, BurstSchedule
  <2> QED  BY <1>2, <2>1, <2>4
<1>5. CASE BurstFrame
  <2>1. PICK lost \in Losses :
           out' = [wave |-> [r \in 1 .. 2 |-> FirstRead(Played({}, lost)[r].fifo, job.wave[r])], lost |-> lost]
    BY <1>5 DEF BurstFrame
  <2>2. phase = "burst_armed" /\ phase' = "burst_read" /\ round' = round + 1
    BY <1>5 DEF BurstFrame
  <2>3. \A r \in 1 .. 2 : out'.wave[r] = FirstRead(Played({}, lost)[r].fifo, job.wave[r])
    BY <2>1
  <2>4. out'.lost = lost
    BY <2>1
  <2>5. BurstReady
    BY <1>1, <2>2
  <2>6. ASSUME NEW r \in 1 .. 2, <<r, BurstSlot(r)>> \notin lost
        PROVE  out'.wave[r] = [round |-> round + 1, slot |-> BurstSlot(r), from |-> {3 - r}]
    BY <2>3, <2>5, <2>6, BurstShown
  <2>7. BurstRight'
    BY <2>2, <2>4, <2>6 DEF BurstRight, Fresh
  <2> QED  BY <2>2, <2>7
<1>6. CASE UNCHANGED toolVars
  <2>1. dev' = dev /\ phase' = phase /\ out' = out /\ round' = round
    BY <1>6 DEF toolVars
  <2>2. BurstReady' <=> BurstReady
    BY <2>1 DEF BurstReady, BurstSchedule
  <2> QED  BY <1>1, <1>2, <2>1, <2>2
<1> QED  BY <1>3, <1>4, <1>5, <1>6, OwnSteps DEF BurstSteps

(* NB_CAL_DEMO.py: a loss spoils nothing but what comes later in its round *)

\* The slots from 3 on, but for at most one of them: those before it keep their places.
LEMMA RestInOrder ==
  ASSUME NEW n \in Nat, NEW k \in 3 .. n + 3
  PROVE  /\ Cardinality((3 .. n + 2) \ {k}) \in 0 .. n
         /\ \A i \in 1 .. n : i + 2 < k => /\ i <= Cardinality((3 .. n + 2) \ {k})
                                          /\ Nth((3 .. n + 2) \ {k}, i) = i + 2
<1> DEFINE S == (3 .. n + 2) \ {k}
           m == IF k = n + 3 THEN n ELSE n - 1
           f == [j \in 1 .. m |-> IF j + 2 < k THEN j + 2 ELSE j + 3]
<1>1. m \in Nat /\ m \in 0 .. n
  OBVIOUS
<1>2. f \in [1 .. m -> Int] /\ (\A i, j \in 1 .. m : i < j => f[i] < f[j])
  BY <1>1
<1>3. S = {f[j] : j \in 1 .. m}
  <2>1. ASSUME NEW x \in S PROVE \E j \in 1 .. m : f[j] = x
    <3>1. CASE x < k
      <4>1. x - 2 \in 1 .. m /\ (x - 2) + 2 < k
        BY <3>1
      <4>2. f[x - 2] = x
        BY <4>1
      <4> QED  BY <4>1, <4>2
    <3>2. CASE x > k
      <4>1. x - 3 \in 1 .. m /\ ~((x - 3) + 2 < k)
        BY <3>2
      <4>2. f[x - 3] = x
        BY <4>1
      <4> QED  BY <4>1, <4>2
    <3>3. x < k \/ x > k
      OBVIOUS
    <3> HIDE DEF f, m
    <3> QED  BY <3>1, <3>2, <3>3
  <2>2. ASSUME NEW j \in 1 .. m PROVE f[j] \in S
    <3>1. CASE j + 2 < k
      BY <3>1
    <3>2. CASE ~(j + 2 < k)
      BY <3>2
    <3> QED  BY <3>1, <3>2
  <2> HIDE DEF f
  <2> QED  BY <2>1, <2>2
<1>4. ASSUME NEW i \in 1 .. n, i + 2 < k PROVE i \in 1 .. m /\ f[i] = i + 2
  BY <1>4
<1> HIDE DEF m, f, S
<1>5. Cardinality(S) = m /\ InOrder(S) = f
  BY <1>1, <1>2, <1>3, Enumerated
<1>6. ASSUME NEW i \in 1 .. n, i + 2 < k PROVE i <= Cardinality(S) /\ Nth(S, i) = i + 2
  <2>1. i \in 1 .. m /\ f[i] = i + 2
    BY <1>4, <1>6
  <2>2. InOrder(S)[i] = Nth(S, i)
    BY <1>5, <2>1 DEF InOrder
  <2> QED  BY <1>1, <1>5, <2>1, <2>2
<1> QED  BY <1>1, <1>5, <1>6 DEF S

\* The schedules of the array.
LEMMA ArraySlots ==
  ASSUME Placed, Array
  PROVE  /\ tool.nodes \in Nat /\ Nodes \cup {RefRadio} \subseteq Radios
         /\ DOMAIN ArraySchedule = Nodes \cup {RefRadio}
         /\ Places(ArraySchedule[RefRadio]) = 3 .. tool.nodes + 2
         /\ 1 \in DOMAIN ArraySchedule[RefRadio] /\ ArraySchedule[RefRadio][1] = "P"
         /\ \A r \in Nodes : /\ Places(ArraySchedule[r]) = {1}
                             /\ ArraySchedule[r][1] = "R"
                             /\ \A i \in Nodes : /\ i + 2 \in DOMAIN ArraySchedule[r]
                                                 /\ ArraySchedule[r][i + 2] = IF i = r THEN "P" ELSE "G"
<1> DEFINE n == tool.nodes
<1>1. n \in Nat /\ 1 .. n + 1 \subseteq Radios
  BY LabAssumption DEF Placed, Array
<1>2. Nodes = 1 .. n /\ RefRadio = n + 1 /\ RefRadio \notin Nodes /\ Nodes \cup {RefRadio} = 1 .. n + 1
  BY <1>1 DEF Nodes, RefRadio
<1>3. DOMAIN ArraySchedule = Nodes \cup {RefRadio}
  BY DEF ArraySchedule
<1> HIDE DEF n
<1> DEFINE a == <<"P", "G">>
           b == [k \in 1 .. n |-> "R"]
           c == <<"G">>
           ref == (a \o b) \o c
<1>4. a \in Seq(Marks) /\ Len(a) = 2 /\ a[1] = "P" /\ a[2] = "G"
  BY DEF Marks
<1>5. b \in Seq(Marks) /\ Len(b) = n /\ \A k \in 1 .. n : b[k] = "R"
  BY <1>1 DEF Marks
<1>6. c \in Seq(Marks) /\ Len(c) = 1 /\ c[1] = "G"
  BY DEF Marks
<1>7. ArraySchedule[RefRadio] = ref
  BY <1>2 DEF ArraySchedule
<1> HIDE DEF a, b, c
<1>8. /\ a \o b \in Seq(Marks) /\ Len(a \o b) = n + 2
      /\ (a \o b)[1] = "P" /\ (a \o b)[2] = "G" /\ \A k \in 1 .. n : (a \o b)[2 + k] = "R"
  <2>1. /\ a \o b \in Seq(Marks) /\ Len(a \o b) = Len(a) + Len(b)
        /\ \A i \in 1 .. Len(a) : (a \o b)[i] = a[i]
        /\ \A i \in 1 .. Len(b) : (a \o b)[Len(a) + i] = b[i]
    BY <1>4, <1>5, TwoParts
  <2> QED  BY <1>1, <1>4, <1>5, <2>1
<1>9. /\ ref \in Seq(Marks) /\ Len(ref) = n + 3
      /\ \A i \in 1 .. n + 2 : ref[i] = (a \o b)[i]
      /\ ref[n + 3] = "G"
  <2> DEFINE ab == a \o b
  <2> HIDE DEF ab
  <2>1. ab \in Seq(Marks) /\ Len(ab) = n + 2
    BY <1>8 DEF ab
  <2>2. /\ ab \o c \in Seq(Marks) /\ Len(ab \o c) = Len(ab) + Len(c)
        /\ \A i \in 1 .. Len(ab) : (ab \o c)[i] = ab[i]
        /\ \A i \in 1 .. Len(c) : (ab \o c)[Len(ab) + i] = c[i]
    BY <1>6, <2>1, TwoParts
  <2>3. Len(ab \o c) = n + 3 /\ (ab \o c)[n + 3] = "G"
    BY <1>1, <1>6, <2>1, <2>2
  <2> QED  BY <2>1, <2>2, <2>3 DEF ab
<1>10. ref[1] = "P" /\ ref[2] = "G" /\ ref[n + 3] = "G" /\ \A k \in 1 .. n : ref[2 + k] = "R"
  <2>1. 1 \in 1 .. n + 2 /\ 2 \in 1 .. n + 2 /\ \A k \in 1 .. n : 2 + k \in 1 .. n + 2
    BY <1>1
  <2> HIDE DEF ref
  <2>2. ref[1] = (a \o b)[1] /\ ref[2] = (a \o b)[2] /\ \A k \in 1 .. n : ref[2 + k] = (a \o b)[2 + k]
    BY <1>9, <2>1
  <2> QED  BY <1>8, <1>9, <2>2
<1>11. DOMAIN ref = 1 .. n + 3
  BY <1>9
<1> HIDE DEF ref
<1>12. Places(ref) = 3 .. n + 2
  <2>1. ASSUME NEW k \in 1 .. n + 3 PROVE ref[k] = "R" <=> k \in 3 .. n + 2
    <3>1. CASE k \in 3 .. n + 2
      <4>1. k - 2 \in 1 .. n /\ 2 + (k - 2) = k
        BY <1>1, <3>1
      <4> QED  BY <1>10, <3>1, <4>1
    <3>2. CASE k \notin 3 .. n + 2
      <4>1. k = 1 \/ k = 2 \/ k = n + 3
        BY <1>1, <3>2
      <4> QED  BY <1>10, <3>2, <4>1
    <3> QED  BY <3>1, <3>2
  <2>2. \A k \in 3 .. n + 2 : k \in 1 .. n + 3
    BY <1>1
  <2> QED  BY <1>11, <2>1, <2>2 DEF Places
<1>13. ASSUME NEW r \in Nodes
       PROVE  /\ Places(ArraySchedule[r]) = {1} /\ ArraySchedule[r][1] = "R"
              /\ \A i \in Nodes : /\ i + 2 \in DOMAIN ArraySchedule[r]
                                  /\ ArraySchedule[r][i + 2] = IF i = r THEN "P" ELSE "G"
  <2> DEFINE h == <<"R", "G">>
             t == [k \in 1 .. n + 1 |-> IF k = r THEN "P" ELSE "G"]
             s == h \o t
  <2>1. h \in Seq(Marks) /\ Len(h) = 2 /\ h[1] = "R" /\ h[2] = "G"
    BY DEF Marks
  <2>2. t \in Seq(Marks) /\ Len(t) = n + 1 /\ \A k \in 1 .. n + 1 : t[k] = IF k = r THEN "P" ELSE "G"
    BY <1>1 DEF Marks
  <2>3. ArraySchedule[r] = s
    BY <1>2 DEF ArraySchedule, n
  <2> HIDE DEF h, t
  <2>4. /\ s \in Seq(Marks) /\ Len(s) = Len(h) + Len(t)
        /\ \A i \in 1 .. Len(h) : s[i] = h[i]
        /\ \A i \in 1 .. Len(t) : s[Len(h) + i] = t[i]
    BY <2>1, <2>2, TwoParts
  <2> HIDE DEF s
  <2>5. /\ DOMAIN s = 1 .. n + 3 /\ s[1] = "R" /\ s[2] = "G"
        /\ \A k \in 1 .. n + 1 : s[2 + k] = IF k = r THEN "P" ELSE "G"
    BY <1>1, <2>1, <2>2, <2>4
  <2>6. Places(s) = {1}
    <3>1. ASSUME NEW k \in 1 .. n + 3, k # 1 PROVE s[k] # "R"
      <4>1. CASE k = 2
        BY <2>5, <4>1
      <4>2. CASE k # 2
        <5>1. k - 2 \in 1 .. n + 1 /\ 2 + (k - 2) = k
          BY <1>1, <3>1, <4>2
        <5>2. s[k] = IF k - 2 = r THEN "P" ELSE "G"
          BY <2>5, <5>1
        <5> QED  BY <5>2
      <4> QED  BY <4>1, <4>2
    <3>2. 1 \in 1 .. n + 3
      BY <1>1
    <3> QED  BY <2>5, <3>1, <3>2 DEF Places
  <2>7. ASSUME NEW i \in Nodes
        PROVE  i + 2 \in DOMAIN s /\ s[i + 2] = IF i = r THEN "P" ELSE "G"
    <3>1. i \in 1 .. n + 1 /\ i + 2 \in 1 .. n + 3 /\ i + 2 = 2 + i
      BY <1>1, <1>2
    <3> QED  BY <2>5, <3>1
  <2> QED  BY <2>3, <2>5, <2>6, <2>7
<1>14. 1 \in 1 .. n + 3
  BY <1>1
<1> QED  BY <1>1, <1>2, <1>3, <1>7, <1>10, <1>11, <1>12, <1>13, <1>14 DEF n

ArrayReady ==
  \A r \in Nodes \cup {RefRadio} :
    /\ dev[r].mode = "once" /\ dev[r].active /\ dev[r].fifo = <<>>
    /\ dev[r].slots = ArraySchedule[r]
ArrayRight ==
  \A i \in Nodes :
    /\ <<i, 1>> \notin out.lost => Fresh(out.calib[i].H2, 1, RefRadio)
    /\ (\A k \in 1 .. i : <<RefRadio, k + 2>> \notin out.lost) => Fresh(out.calib[i].H1, i + 2, i)
ArrayInv ==
  Array => /\ phase = "array_arm" => \A r \in Nodes \cup {RefRadio} : dev[r].fifo = <<>>
           /\ phase \in {"array_plot", "array_loop"} => ArrayReady
           /\ out # <<>> => ArrayRight

\* What a round of the array brings.
LEMMA ArrayFrame ==
  ASSUME Placed, Array, QuietInv, ArrayReady, NEW lost \in Losses
  PROVE  /\ \A r \in Nodes \cup {RefRadio} :
              /\ Played({}, lost)[r].fifo = Symbols(r, {}, lost)
              /\ Cardinality(Reaches(r, lost)) \in 0 .. (IF r = RefRadio THEN tool.nodes ELSE 1)
              /\ DOMAIN Symbols(r, {}, lost) = 1 .. Cardinality(Reaches(r, lost))
              /\ \E X : Symbols(r, {}, lost) \in Seq(X)
              /\ Len(Symbols(r, {}, lost)) = Cardinality(Reaches(r, lost))
         /\ \A i \in Nodes : <<i, 1>> \notin lost =>
              Symbols(i, {}, lost) # <<>> /\ Symbols(i, {}, lost)[1] = Symbol(1, {RefRadio})
         /\ \A i \in Nodes : (\A k \in 1 .. i : <<RefRadio, k + 2>> \notin lost) =>
              i \in DOMAIN Symbols(RefRadio, {}, lost) /\ Symbols(RefRadio, {}, lost)[i] = Symbol(i + 2, {i})
<1> DEFINE n == tool.nodes
           All == Nodes \cup {RefRadio}
<1>1. /\ n \in Nat /\ All \subseteq Radios
      /\ Places(ArraySchedule[RefRadio]) = 3 .. n + 2
      /\ 1 \in DOMAIN ArraySchedule[RefRadio] /\ ArraySchedule[RefRadio][1] = "P"
      /\ \A r \in Nodes : /\ Places(ArraySchedule[r]) = {1} /\ ArraySchedule[r][1] = "R"
                          /\ \A i \in Nodes : /\ i + 2 \in DOMAIN ArraySchedule[r]
                                              /\ ArraySchedule[r][i + 2] = IF i = r THEN "P" ELSE "G"
  BY ArraySlots
<1>2. Nodes = 1 .. n /\ RefRadio = n + 1 /\ RefRadio \notin Nodes
  BY <1>1 DEF Nodes, RefRadio
<1>3. \A r \in All : /\ dev[r].mode = "once" /\ dev[r].active /\ dev[r].fifo = <<>>
                     /\ dev[r].slots = ArraySchedule[r]
  BY DEF ArrayReady
<1> HIDE DEF n
<1>12. ASSUME NEW r \in Nodes
       PROVE  /\ Places(dev[r].slots) = {1} /\ ~Sends(r, 1)
              /\ \A i \in Nodes : Sends(r, i + 2) <=> r = i
  <2>1. dev[r].slots = ArraySchedule[r]
    BY <1>3
  <2>2. /\ Places(ArraySchedule[r]) = {1} /\ ArraySchedule[r][1] = "R"
        /\ \A i \in Nodes : /\ i + 2 \in DOMAIN ArraySchedule[r]
                            /\ ArraySchedule[r][i + 2] = IF i = r THEN "P" ELSE "G"
    BY <1>1
  <2> QED  BY <2>1, <2>2 DEF Sends
<1>13. Places(dev[RefRadio].slots) = 3 .. n + 2 /\ Sends(RefRadio, 1)
  <2>1. dev[RefRadio].slots = ArraySchedule[RefRadio]
    BY <1>3
  <2> QED  BY <1>1, <2>1 DEF Sends
<1>4. Players({}) = All
  <2>1. \A r \in Radios : dev[r].mode = "once" => r \in All
    BY DEF QuietInv, ModesIn
  <2> QED  BY <1>1, <1>3, <2>1 DEF Players
<1>5. Shape
  BY DEF QuietInv
<1>6. PICK k0 \in 3 .. n + 3 : Reaches(RefRadio, lost) = (3 .. n + 2) \ {k0}
                               /\ (k0 # n + 3 => <<RefRadio, k0>> \in lost)
  <2>1. Reaches(RefRadio, lost) = {k \in 3 .. n + 2 : <<RefRadio, k>> \notin lost}
    BY <1>13 DEF Reaches
  <2>2. lost = {} \/ \E q, k : lost = {<<q, k>>}
    BY DEF Losses
  <2>3. CASE \E k \in 3 .. n + 2 : <<RefRadio, k>> \in lost
    <3>1. PICK k \in 3 .. n + 2 : <<RefRadio, k>> \in lost
      BY <2>3
    <3>2. \A x : <<RefRadio, x>> \in lost => x = k
      BY <2>2, <3>1
    <3>3. k \in 3 .. n + 3 /\ Reaches(RefRadio, lost) = (3 .. n + 2) \ {k}
      BY <1>1, <2>1, <3>1, <3>2
    <3> QED  BY <3>1, <3>3
  <2>4. CASE ~ \E k \in 3 .. n + 2 : <<RefRadio, k>> \in lost
    <3>1. n + 3 \in 3 .. n + 3 /\ n + 3 \notin 3 .. n + 2
      BY <1>1
    <3>2. Reaches(RefRadio, lost) = (3 .. n + 2) \ {n + 3}
      BY <2>1, <2>4, <3>1
    <3> QED  BY <3>1, <3>2
  <2> QED  BY <2>3, <2>4
<1>7. /\ Cardinality(Reaches(RefRadio, lost)) \in 0 .. n
      /\ \A i \in 1 .. n : i + 2 < k0 =>
           i <= Cardinality(Reaches(RefRadio, lost)) /\ Nth(Reaches(RefRadio, lost), i) = i + 2
  <2>1. n \in Nat
    BY <1>1
  <2>2. /\ Cardinality((3 .. n + 2) \ {k0}) \in 0 .. n
        /\ \A i \in 1 .. n : i + 2 < k0 => /\ i <= Cardinality((3 .. n + 2) \ {k0})
                                          /\ Nth((3 .. n + 2) \ {k0}, i) = i + 2
    BY <2>1, RestInOrder
  <2>3. Reaches(RefRadio, lost) = (3 .. n + 2) \ {k0}
    BY <1>6
  <2> DEFINE S == (3 .. n + 2) \ {k0}
  <2>4. /\ Cardinality(S) \in 0 .. n /\ Reaches(RefRadio, lost) = S
        /\ \A i \in 1 .. n : i + 2 < k0 => i <= Cardinality(S) /\ Nth(S, i) = i + 2
    BY <2>2, <2>3
  <2> HIDE DEF S
  <2> QED  BY <2>4
<1>8. ASSUME NEW r \in Nodes PROVE Cardinality(Reaches(r, lost)) \in 0 .. 1
  <2>1. Reaches(r, lost) = {} \/ Reaches(r, lost) = {1}
    BY <1>12 DEF Reaches
  <2>2. Cardinality({1}) = 1 /\ Cardinality({}) = 0
    BY OneInOrder
  <2> QED  BY <2>1, <2>2
<1>9. ASSUME NEW r \in All
      PROVE  /\ Played({}, lost)[r].fifo = Symbols(r, {}, lost)
             /\ Cardinality(Reaches(r, lost)) \in 0 .. (IF r = RefRadio THEN n ELSE 1)
             /\ DOMAIN Symbols(r, {}, lost) = 1 .. Cardinality(Reaches(r, lost))
             /\ \E X : Symbols(r, {}, lost) \in Seq(X)
             /\ Len(Symbols(r, {}, lost)) = Cardinality(Reaches(r, lost))
  <2>1. Cardinality(Reaches(r, lost)) \in 0 .. (IF r = RefRadio THEN n ELSE 1)
    BY <1>7, <1>8
  <2>2. Cardinality(Reaches(r, lost)) \in Nat
    BY <1>1, <2>1
  <2>3. /\ DOMAIN Symbols(r, {}, lost) = 1 .. Cardinality(Reaches(r, lost))
        /\ \E X : Symbols(r, {}, lost) \in Seq(X)
        /\ Len(Symbols(r, {}, lost)) = Cardinality(Reaches(r, lost))
        /\ <<>> \o Symbols(r, {}, lost) = Symbols(r, {}, lost)
    BY <2>2, SymbolsAre
  <2>4. r \in Radios /\ r \in Players({}) /\ dev[r].active /\ dev[r].fifo = <<>>
    BY <1>1, <1>3, <1>4
  <2>5. Played({}, lost)[r].fifo = <<>> \o Symbols(r, {}, lost)
    BY <1>5, <2>4, PlayedFifo
  <2> QED  BY <2>1, <2>3, <2>5
<1>10. ASSUME NEW i \in Nodes, <<i, 1>> \notin lost
       PROVE  Symbols(i, {}, lost) # <<>> /\ Symbols(i, {}, lost)[1] = Symbol(1, {RefRadio})
  <2>1. Places(dev[i].slots) = {1} /\ 1 \in Int
    BY <1>12
  <2>2. {q \in Players({}) \ {i} : Sends(q, 1)} = {RefRadio}
    BY <1>2, <1>4, <1>12, <1>13
  <2>3. /\ Symbols(i, {}, lost) # <<>>
        /\ Symbols(i, {}, lost)[1] = Symbol(1, {q \in Players({}) \ {i} : Sends(q, 1)})
    <3> DEFINE k == 1
    <3>1. Places(dev[i].slots) = {k} /\ k \in Int /\ <<i, k>> \notin lost
      BY <1>10, <2>1
    <3> HIDE DEF k
    <3>2. /\ Symbols(i, {}, lost) # <<>>
          /\ Symbols(i, {}, lost)[1] = Symbol(k, {q \in Players({}) \ {i} : Sends(q, k)})
      BY <3>1, SingleSymbol
    <3> QED  BY <3>2 DEF k
  <2> QED  BY <2>2, <2>3
<1>11. ASSUME NEW i \in Nodes, \A k \in 1 .. i : <<RefRadio, k + 2>> \notin lost
       PROVE  /\ i \in DOMAIN Symbols(RefRadio, {}, lost)
              /\ Symbols(RefRadio, {}, lost)[i] = Symbol(i + 2, {i})
  <2>1. i + 2 < k0
    <3>1. SUFFICES ASSUME ~(i + 2 < k0) PROVE FALSE
      OBVIOUS
    <3>2. i \in 1 .. n /\ k0 - 2 \in 1 .. i /\ (k0 - 2) + 2 = k0 /\ k0 # n + 3
      BY <1>1, <1>2, <3>1
    <3>3. <<RefRadio, k0>> \in lost
      BY <1>6, <3>2
    <3> QED  BY <1>11, <3>2, <3>3
  <2>2. i \in 1 .. n /\ i <= Cardinality(Reaches(RefRadio, lost)) /\ Nth(Reaches(RefRadio, lost), i) = i + 2
    BY <1>2, <1>7, <2>1
  <2>3. i \in 1 .. Cardinality(Reaches(RefRadio, lost))
    BY <1>1, <1>7, <2>2
  <2>4. {q \in Players({}) \ {RefRadio} : Sends(q, i + 2)} = {i}
    <3>1. ASSUME NEW q \in Nodes PROVE Sends(q, i + 2) <=> q = i
      BY <1>12
    <3> QED  BY <1>2, <1>4, <3>1
  <2> QED  BY <2>2, <2>3, <2>4 DEF Symbols
<1> QED  BY <1>9, <1>10, <1>11 DEF n

\* What is read is gone, and there is no more than is read.
LEMMA BeyondEmpty ==
  ASSUME NEW n \in Nat, NEW s, \E X : s \in Seq(X), Len(s) <= n
  PROVE  Beyond(n, s) = <<>>
<1>1. PICK X : s \in Seq(X)
  OBVIOUS
<1>2. Len(s) \in Nat /\ Len(s) < n + 1
  BY <1>1
<1>3. SubSeq(s, n + 1, Len(s)) = <<>>
  BY <1>1, <1>2, SubSeqEmpty
<1> QED  BY <1>3 DEF Beyond

\* A step of NB_CAL_DEMO.py keeps the queues empty between rounds, and each report of its round.
LEMMA ArrayStep ==
  ASSUME Placed, QuietInv, ArrayInv, [Next]_toolVars PROVE ArrayInv'
<1>0. tool' = tool
  BY PlacedStep
<1> DEFINE All == Nodes \cup {RefRadio}
<1> SUFFICES ASSUME Array
             PROVE  /\ phase' = "array_arm" => \A r \in All : dev'[r].fifo = <<>>
                    /\ phase' \in {"array_plot", "array_loop"} => ArrayReady'
                    /\ out' # <<>> => ArrayRight'
  BY <1>0 DEF ArrayInv, Array, Nodes, RefRadio
<1>1. /\ phase = "array_arm" => \A r \in All : dev[r].fifo = <<>>
      /\ phase \in {"array_plot", "array_loop"} => ArrayReady
      /\ out # <<>> => ArrayRight
  BY DEF ArrayInv
<1>2. ASSUME out' = out, round' = round PROVE out' # <<>> => ArrayRight'
  BY <1>0, <1>1, <1>2 DEF ArrayRight, Fresh, Nodes, RefRadio
<1>3. ASSUME NEW d, \A r \in All : /\ d[r].mode = "once" /\ d[r].active /\ d[r].fifo = <<>>
                                   /\ d[r].slots = ArraySchedule[r],
             dev' = d
      PROVE  ArrayReady'
  BY <1>0, <1>3 DEF ArrayReady, ArraySchedule, Nodes, RefRadio
<1>4. /\ All \subseteq Radios /\ tool.nodes \in Nat /\ DOMAIN ArraySchedule = All
      /\ Nodes = 1 .. tool.nodes /\ RefRadio \notin Nodes
  BY ArraySlots DEF Nodes, RefRadio
<1>5. Shape
  BY DEF QuietInv
<1> HIDE DEF All
<1>6. CASE ArrayMain \/ ArrayEnd \/ PilotKilled
  <2>1. /\ out' = out /\ round' = round
        /\ phase' \notin {"array_arm", "array_plot", "array_loop"}
    BY <1>6 DEF ArrayMain, ArrayEnd, PilotKilled
  <2> QED  BY <1>2, <2>1
<1>7. CASE ArrayOpen
  <2>1. /\ out' = out /\ round' = round /\ phase' = "array_arm"
        /\ \A r \in Radios : dev'[r] = IF r \in All THEN Stopped(dev[r]) ELSE dev[r]
    BY <1>7 DEF ArrayOpen, All
  <2>2. ASSUME NEW r \in All PROVE dev'[r].fifo = <<>>
    <3>1. Shaped(dev[r]) /\ dev'[r] = Stopped(dev[r])
      BY <1>4, <1>5, <2>1 DEF Shape
    <3> QED  BY <3>1, StoppedIs
  <2> QED  BY <1>2, <2>1, <2>2
<1>8. CASE ArrayArm
  <2>1. /\ phase = "array_arm" /\ phase' = "array_plot" /\ out' = out /\ round' = round
        /\ \A r \in Radios : dev'[r] = IF r \in All
                                       THEN [Set(ArraySchedule)[r] EXCEPT !.active = TRUE] ELSE dev[r]
    BY <1>8 DEF ArrayArm, All
  <2>3. ASSUME NEW r \in All
        PROVE  /\ dev'[r].mode = "once" /\ dev'[r].active /\ dev'[r].fifo = <<>>
               /\ dev'[r].slots = ArraySchedule[r]
    <3>1. r \in Radios /\ r \in DOMAIN ArraySchedule /\ Shaped(dev[r]) /\ dev[r].fifo = <<>>
      BY <1>1, <1>4, <1>5, <2>1 DEF Shape
    <3>2. Set(ArraySchedule)[r] = [dev[r] EXCEPT !.mode = "once", !.slots = ArraySchedule[r]]
      BY <3>1 DEF Set
    <3>3. dev'[r] = [Set(ArraySchedule)[r] EXCEPT !.active = TRUE]
      BY <2>1, <3>1
    <3> QED  BY <3>1, <3>2, <3>3 DEF Shaped, Fields
  <2>4. ArrayReady'
    BY <1>3, <2>3
  <2> QED  BY <1>2, <2>1, <2>4
<1>9. CASE ArrayPlot \/ ArrayHandler
  <2>1. /\ out' = out /\ round' = round /\ dev' = dev /\ phase \in {"array_plot", "array_loop"}
        /\ phase' # "array_arm"
    BY <1>9 DEF ArrayPlot, ArrayHandler
  <2>2. ArrayReady
    BY <1>1, <2>1
  <2>3. ArrayReady'
    BY <1>3, <2>1, <2>2 DEF ArrayReady, All
  <2> QED  BY <1>2, <2>1, <2>3
<1>10. CASE ArrayRound
  <2>1. PICK lost \in Losses :
          LET air == Played({}, lost)
              up  == [i \in Nodes |-> FirstRead(air[i].fifo, job.Up[i])]
              dn  == [i \in Nodes |-> IF i <= RefReads /\ i \in DOMAIN air[RefRadio].fifo
                                      THEN air[RefRadio].fifo[i] ELSE job.Dn[i]]
          IN  /\ dev' = [r \in Radios |->
                           CASE r \in Nodes    -> [air[r] EXCEPT !.fifo = Beyond(1, @)]
                             [] r = RefRadio   -> [air[r] EXCEPT !.fifo = Beyond(RefReads, @)]
                             [] OTHER          -> air[r]]
              /\ out' = [calib |-> [i \in Nodes |-> [H1 |-> dn[i], H2 |-> up[i]]], lost |-> lost]
    BY <1>10 DEF ArrayRound
  <2> DEFINE air == Played({}, lost)
             n   == tool.nodes
  <2>2. phase = "array_loop" /\ phase' = phase /\ round' = round + 1
    BY <1>10 DEF ArrayRound
  <2>3. ArrayReady
    BY <1>1, <2>2
  <2>4. /\ \A r \in All :
             /\ air[r].fifo = Symbols(r, {}, lost)
             /\ Cardinality(Reaches(r, lost)) \in 0 .. (IF r = RefRadio THEN n ELSE 1)
             /\ DOMAIN Symbols(r, {}, lost) = 1 .. Cardinality(Reaches(r, lost))
             /\ \E X : Symbols(r, {}, lost) \in Seq(X)
             /\ Len(Symbols(r, {}, lost)) = Cardinality(Reaches(r, lost))
        /\ \A i \in Nodes : <<i, 1>> \notin lost =>
             Symbols(i, {}, lost) # <<>> /\ Symbols(i, {}, lost)[1] = Symbol(1, {RefRadio})
        /\ \A i \in Nodes : (\A k \in 1 .. i : <<RefRadio, k + 2>> \notin lost) =>
             i \in DOMAIN Symbols(RefRadio, {}, lost) /\ Symbols(RefRadio, {}, lost)[i] = Symbol(i + 2, {i})
    BY <2>3, ArrayFrame DEF All
  <2>5. /\ \A r \in Nodes : dev'[r] = [air[r] EXCEPT !.fifo = Beyond(1, @)]
        /\ dev'[RefRadio] = [air[RefRadio] EXCEPT !.fifo = Beyond(n, @)]
    BY <1>4, <2>1 DEF All, RefReads
  <2>6. /\ out'.lost = lost
        /\ \A i \in Nodes :
             /\ out'.calib[i].H2 = FirstRead(air[i].fifo, job.Up[i])
             /\ out'.calib[i].H1 = IF i <= n /\ i \in DOMAIN air[RefRadio].fifo
                                   THEN air[RefRadio].fifo[i] ELSE job.Dn[i]
    BY <2>1 DEF RefReads
  <2>7. \A r \in All : Keeps(dev[r], air[r])
    BY <1>4, <1>5, PlayedIs
  <2> HIDE DEF air, n
  <2>8. ASSUME NEW r \in All, NEW m \in Nat, dev'[r] = [air[r] EXCEPT !.fifo = Beyond(m, @)],
               m = IF r = RefRadio THEN n ELSE 1
        PROVE  /\ dev'[r].mode = "once" /\ dev'[r].active /\ dev'[r].fifo = <<>>
               /\ dev'[r].slots = ArraySchedule[r]
    <3>1. Shaped(air[r]) /\ air[r].mode = "once" /\ air[r].active /\ air[r].slots = ArraySchedule[r]
      BY <2>3, <2>7 DEF Keeps, ArrayReady, All
    <3>2. (\E X : air[r].fifo \in Seq(X)) /\ Len(air[r].fifo) <= m
      BY <2>4, <2>8
    <3>3. Beyond(m, air[r].fifo) = <<>>
      BY <3>2, BeyondEmpty
    <3> QED  BY <2>8, <3>1, <3>3 DEF Shaped, Fields
  <2>9. ASSUME NEW r \in All
        PROVE  /\ dev'[r].mode = "once" /\ dev'[r].active /\ dev'[r].fifo = <<>>
               /\ dev'[r].slots = ArraySchedule[r]
    <3>1. CASE r = RefRadio
      <4>1. n \in Nat /\ n = IF r = RefRadio THEN n ELSE 1
        BY <1>4, <3>1 DEF n
      <4> QED  BY <2>5, <2>8, <3>1, <4>1
    <3>2. CASE r # RefRadio
      <4>1. r \in Nodes /\ 1 \in Nat /\ 1 = IF r = RefRadio THEN n ELSE 1
        BY <3>2 DEF All
      <4> QED  BY <2>5, <2>8, <4>1
    <3> QED  BY <3>1, <3>2
  <2>10. ArrayReady'
    BY <1>3, <2>9
  <2>11. ASSUME NEW i \in Nodes, <<i, 1>> \notin lost
         PROVE  out'.calib[i].H2 = [round |-> round + 1, slot |-> 1, from |-> {RefRadio}]
    <3>1. i \in All
      BY DEF All
    <3>2. air[i].fifo # <<>> /\ air[i].fifo[1] = Symbol(1, {RefRadio})
      BY <2>4, <2>11, <3>1
    <3> QED  BY <2>6, <3>2 DEF FirstRead, Symbol
  <2>12. ASSUME NEW i \in Nodes, \A k \in 1 .. i : <<RefRadio, k + 2>> \notin lost
         PROVE  out'.calib[i].H1 = [round |-> round + 1, slot |-> i + 2, from |-> {i}]
    <3>1. RefRadio \in All /\ i <= n
      BY <1>4 DEF All, n
    <3>2. i \in DOMAIN air[RefRadio].fifo /\ air[RefRadio].fifo[i] = Symbol(i + 2, {i})
      BY <2>4, <2>12, <3>1
    <3> QED  BY <2>6, <3>1, <3>2 DEF Symbol
  <2>13. ArrayRight'
    BY <1>0, <2>2, <2>6, <2>11, <2>12 DEF ArrayRight, Fresh, Nodes, RefRadio
  <2> QED  BY <2>2, <2>10, <2>13
<1>11. CASE UNCHANGED toolVars
  <2>1. dev' = dev /\ phase' = phase /\ out' = out /\ round' = round
    BY <1>11 DEF toolVars
  <2>2. ArrayReady => ArrayReady'
    BY <1>3, <2>1 DEF ArrayReady, All
  <2> QED  BY <1>1, <1>2, <2>1, <2>2
<1> QED  BY <1>6, <1>7, <1>8, <1>9, <1>10, <1>11, OwnSteps DEF ArraySteps

\* What the pilot demos keep of a frame without losses is of that frame and in its place
\* (SISO_TXRX_TDD.py:181, NB_CAL_DEMO.py:190).
THEOREM KeptAlways == Spec => []KeptInPlace
<1>1. Init => Placed /\ QuietInv /\ BurstInv /\ ArrayInv
  <2> SUFFICES ASSUME Init PROVE Placed /\ QuietInv /\ BurstInv /\ ArrayInv
    OBVIOUS
  <2>1. Placed /\ QuietInv
    BY QuietInit
  <2>2. \A r \in Radios : dev[r].fifo = <<>>
    BY DEF Init, Idle
  <2>3. phase = "start" /\ out = <<>>
    BY DEF Init
  <2> QED  BY <2>1, <2>2, <2>3 DEF BurstInv, ArrayInv
<1>2. Placed /\ QuietInv /\ BurstInv /\ ArrayInv /\ [Next]_toolVars
        => Placed' /\ QuietInv' /\ BurstInv' /\ ArrayInv'
  BY PlacedStep, QuietStep, BurstStep, ArrayStep
<1>3. BurstInv /\ ArrayInv => KeptInPlace
  BY DEF KeptInPlace, BurstInv, ArrayInv, BurstRight, ArrayRight, BurstSlot
<1> QED  BY <1>1, <1>2, <1>3, PTL DEF Spec

-----------------------------------------------------------------------------
(* mimo_driver.py: the schedules of the calls *)

\* What the driver's radios are.
LEMMA DriverRadios ==
  ASSUME Placed, Driver
  PROVE  /\ tool.bs \in Nat /\ tool.ue \in Nat /\ tool.ref \in Nat /\ n_users \in Nat
         /\ tool.bsChan \in {1, 2} /\ tool.ueChan \in {1, 2}
         /\ tool.ueChan = 1 => n_users = tool.ue
         /\ BS \subseteq Radios /\ UE \subseteq Radios /\ Ref \subseteq Radios
         /\ BS \cap UE = {} /\ BS \cap Ref = {} /\ UE \cap Ref = {}
<1>1. /\ tool.bs \in Nat /\ tool.ue \in Nat /\ tool.ref \in Nat
      /\ tool.bsChan \in {1, 2} /\ tool.ueChan \in {1, 2}
      /\ 1 .. tool.bs + tool.ue + tool.ref \subseteq Radios
  BY LabAssumption DEF Placed, Driver
<1>2. n_users \in Nat /\ (tool.ueChan = 1 => n_users = tool.ue)
  <2>1. CASE tool.ueChan = 1
    BY <1>1, <2>1 DEF n_users
  <2>2. CASE tool.ueChan = 2
    BY <1>1, <2>2 DEF n_users
  <2> QED  BY <1>1, <2>1, <2>2
<1>3. ASSUME NEW r \in Int, 1 <= r, r <= tool.bs + tool.ue + tool.ref PROVE r \in Radios
  BY <1>1, <1>3
<1> DEFINE b == tool.bs  u == tool.ue  f == tool.ref
<1>4. b \in Nat /\ u \in Nat /\ f \in Nat
  BY <1>1
<1>5. /\ \A r \in 1 .. b : r \in Int /\ 1 <= r /\ r <= b + u + f
      /\ \A r \in b + 1 .. b + u : r \in Int /\ 1 <= r /\ r <= b + u + f
      /\ \A r \in b + u + 1 .. b + u + f : r \in Int /\ 1 <= r /\ r <= b + u + f
      /\ \A r \in 1 .. b : r \notin b + 1 .. b + u /\ r \notin b + u + 1 .. b + u + f
      /\ \A r \in b + 1 .. b + u : r \notin b + u + 1 .. b + u + f
  <2> HIDE DEF b, u, f
  <2> QED  BY <1>4
<1>6. BS = 1 .. b /\ UE = b + 1 .. b + u /\ Ref = b + u + 1 .. b + u + f
  BY DEF BS, UE, Ref
<1> HIDE DEF b, u, f
<1>7. /\ \A r \in BS \cup UE \cup Ref : r \in Int /\ 1 <= r /\ r <= b + u + f
      /\ BS \cap UE = {} /\ BS \cap Ref = {} /\ UE \cap Ref = {}
  BY <1>5, <1>6
<1>8. BS \cup UE \cup Ref \subseteq Radios
  BY <1>3, <1>7 DEF b, u, f
<1> QED  BY <1>1, <1>2, <1>7, <1>8

\* Sequences put together.
LEMMA Joined ==
  ASSUME NEW X, NEW a \in Seq(X), NEW b \in Seq(X) PROVE a \o b \in Seq(X)
  OBVIOUS

\* A pair of slots, over and over.
LEMMA TimesForm ==
  ASSUME NEW a, NEW b, NEW n \in Nat
  PROVE  /\ Times(n, <<a, b>>) = [k \in 1 .. 2 * n |-> <<a, b>>[1 + ((k - 1) % 2)]]
         /\ <<a, b>>[1] = a /\ <<a, b>>[2] = b
<1>1. n * Len(<<a, b>>) = 2 * n /\ Len(<<a, b>>) = 2
  OBVIOUS
<1> QED  BY <1>1 DEF Times

\* The first of the pair is at the odd places, the second at the even ones.
LEMMA TimesAt ==
  ASSUME NEW a, NEW b, NEW n \in Nat, NEW j \in 1 .. n
  PROVE  Times(n, <<a, b>>)[2 * j - 1] = a /\ Times(n, <<a, b>>)[2 * j] = b
<1> DEFINE s == <<a, b>>
<1>1. Times(n, s) = [k \in 1 .. 2 * n |-> s[1 + ((k - 1) % 2)]] /\ s[1] = a /\ s[2] = b
  BY TimesForm
<1> HIDE DEF s
<1>2. /\ 2 * j - 1 \in 1 .. 2 * n /\ 2 * j \in 1 .. 2 * n
      /\ ((2 * j - 1) - 1) % 2 = 0 /\ (2 * j - 1) % 2 = 1
  OBVIOUS
<1>3. Times(n, s)[2 * j - 1] = a /\ Times(n, s)[2 * j] = b
  BY <1>1, <1>2
<1> QED  BY <1>3 DEF s

\* What is in the pair is in the list.
LEMMA TimesIn ==
  ASSUME NEW X, NEW a \in X, NEW b \in X, NEW n \in Nat
  PROVE  Times(n, <<a, b>>) \in Seq(X) /\ Len(Times(n, <<a, b>>)) = 2 * n
<1> DEFINE s == <<a, b>>
           t == Times(n, s)
<1>1. t = [k \in 1 .. 2 * n |-> s[1 + ((k - 1) % 2)]] /\ s[1] = a /\ s[2] = b
  BY TimesForm
<1> HIDE DEF s, t
<1>2. \A k \in Int : 1 + ((k - 1) % 2) \in {1, 2}
  OBVIOUS
<1>3. \A k \in 1 .. 2 * n : s[1 + ((k - 1) % 2)] \in X
  <2>1. \A x \in {1, 2} : s[x] \in X
    BY <1>1
  <2> QED  BY <1>2, <2>1
<1>4. t \in Seq(X) /\ Len(t) = 2 * n
  BY <1>1, <1>3
<1> QED  BY <1>4 DEF s, t

\* The first two slots of a schedule.
LEMMA FirstIs ==
  ASSUME NEW X, "B" \in X, "G" \in X, NEW r
  PROVE  First(r) \in Seq(X) /\ Len(First(r)) = 2 /\ First(r)[1] # "R" /\ First(r)[2] # "R"
<1>1. CASE r = 1
  BY <1>1 DEF First
<1>2. CASE r # 1
  BY <1>2 DEF First
<1> QED  BY <1>1, <1>2

\* The marks in the schedules: who reads has nothing to send, who sends nothing to read.
Reading == {"B", "G", "R"}
Sending == {"B", "G", "P"}
\* In an uplink frame the base station only listens, a client only sends.
LEMMA UplinkIs ==
  ASSUME Placed, Driver
  PROVE  /\ \A r \in BS : Uplink[r] \in Seq(Reading)
         /\ \A r \in UE : Uplink[r] \in Seq(Sending)
<1> DEFINE n == n_users
<1>1. n \in Nat /\ tool.bs \in Nat /\ tool.ue \in Nat /\ BS \cap UE = {}
  BY DriverRadios
<1> HIDE DEF n
<1>2. ASSUME NEW r \in BS PROVE UplinkBs(r) \in Seq(Reading)
  <2>1. First(r) \in Seq(Reading)
    BY FirstIs DEF Reading
  <2>2. n + (IF n > 1 THEN 1 ELSE 0) \in Nat /\ "R" \in Reading /\ "G" \in Reading
    BY <1>1 DEF Reading
  <2>3. Times(n + (IF n > 1 THEN 1 ELSE 0), <<"R", "G">>) \in Seq(Reading)
    BY <2>2, TimesIn
  <2> QED  BY <2>1, <2>3, Joined DEF UplinkBs, n
<1>3. ASSUME NEW u \in Int PROVE UplinkUe(u) \in Seq(Sending)
  <2>1. <<"G", "G">> \in Seq(Sending)
    BY DEF Sending
  <2>2. [k \in 1 .. 2 * n |-> IF k = 2 * u - 1 THEN "P" ELSE "G"] \in Seq(Sending)
    <3>1. \A k \in 1 .. 2 * n : (IF k = 2 * u - 1 THEN "P" ELSE "G") \in Sending
      BY DEF Sending
    <3>2. 2 * n \in Nat
      BY <1>1
    <3> QED  BY <3>1, <3>2
  <2>3. (IF n > 1 THEN <<"P", "G">> ELSE <<>>) \in Seq(Sending)
    <3>1. <<"P", "G">> \in Seq(Sending) /\ <<>> \in Seq(Sending)
      BY DEF Sending
    <3> QED  BY <3>1
  <2> QED  BY <2>1, <2>2, <2>3, Joined DEF UplinkUe, n
<1>4. \A r \in UE : r - tool.bs \in Int /\ r \notin BS
  BY <1>1 DEF UE
<1>5. /\ \A r \in BS : Uplink[r] = UplinkBs(r)
      /\ \A r \in UE : Uplink[r] = UplinkUe(r - tool.bs)
  BY <1>4 DEF Uplink
<1> QED  BY <1>2, <1>3, <1>4, <1>5

\* In a downlink frame it is the other way round.
LEMMA DownlinkIs ==
  ASSUME Placed, Driver
  PROVE  /\ \A r \in BS : Downlink[r] \in Seq(Sending)
         /\ \A r \in UE : Downlink[r] \in Seq(Reading)
<1>1. BS \cap UE = {}
  BY DriverRadios
<1>2. /\ \A r \in BS : Downlink[r] = First(r) \o <<"P", "G">>
      /\ \A r \in UE : Downlink[r] = <<"G", "G", "R", "G">>
  BY <1>1 DEF Downlink
<1>3. \A r \in BS : First(r) \in Seq(Sending)
  BY FirstIs DEF Sending
<1>5. <<"P", "G">> \in Seq(Sending)
  BY DEF Sending
<1>4. <<"G", "G", "R", "G">> \in Seq(Reading)
  BY DEF Reading
<1> QED  BY <1>2, <1>3, <1>4, <1>5, Joined

\* In a sounding frame only the first client has a schedule, and it listens.
LEMMA SoundIs ==
  ASSUME Placed, Driver
  PROVE  /\ DOMAIN Sound = BS \cup {u \in UE : u = tool.bs + 1}
         /\ \A r \in BS : Sound[r] \in Seq(Sending)
         /\ \A r \in {u \in UE : u = tool.bs + 1} : Sound[r] \in Seq(Reading)
<1>1. BS \cap UE = {} /\ tool.bs \in Nat
  BY DriverRadios
<1>2. /\ DOMAIN Sound = BS \cup {u \in UE : u = tool.bs + 1}
      /\ \A r \in BS : Sound[r] = SoundBs(r)
      /\ \A r \in {u \in UE : u = tool.bs + 1} : Sound[r] = SoundUe
  BY <1>1 DEF Sound
<1>3. ASSUME NEW r \in BS PROVE SoundBs(r) \in Seq(Sending)
  <2>1. First(r) \in Seq(Sending)
    BY FirstIs DEF Sending
  <2>2. [k \in 1 .. 2 * tool.bs |->
           IF k = 2 * r - 1 \/ (k = 2 * r /\ tool.bsChan = 2) THEN "P" ELSE "G"] \in Seq(Sending)
    <3>1. \A k \in 1 .. 2 * tool.bs :
             (IF k = 2 * r - 1 \/ (k = 2 * r /\ tool.bsChan = 2) THEN "P" ELSE "G") \in Sending
      BY DEF Sending
    <3>2. 2 * tool.bs \in Nat
      BY <1>1
    <3> QED  BY <3>1, <3>2
  <2> QED  BY <2>1, <2>2, Joined DEF SoundBs
<1>4. SoundUe \in Seq(Reading)
  <2> DEFINE b == IF tool.bsChan = 2 THEN "R" ELSE "G"
  <2>1. <<"G", "G">> \in Seq(Reading) /\ "R" \in Reading /\ b \in Reading
    BY DEF Reading
  <2>2. SoundUe = <<"G", "G">> \o Times(tool.bs, <<"R", b>>)
    BY DEF SoundUe
  <2> HIDE DEF b
  <2>3. Times(tool.bs, <<"R", b>>) \in Seq(Reading)
    BY <1>1, <2>1, TimesIn
  <2> QED  BY <2>1, <2>2, <2>3, Joined
<1> QED  BY <1>2, <1>3, <1>4

\* The marks of the other two schedules.
LEMMA OthersAre ==
  ASSUME Placed, Driver
  PROVE  /\ \A r \in BS : RefNode[r] \in Seq(Marks)
         /\ \A r \in Ref : RefNode[r] \in Seq(Marks) /\ Len(RefNode[r]) <= 4
         /\ \A r \in BS \cup UE : GainTest[r] \in Seq(Marks)
<1>1. BS \cap Ref = {}
  BY DriverRadios
<1>2. /\ \A r \in BS : RefNode[r] = <<"G", "G", "R", "G">>
      /\ \A r \in Ref : RefNode[r] = <<"G", "G", "P", "G">>
      /\ \A r \in BS \cup UE : GainTest[r] = First(r) \o <<"G", "G">>
  BY <1>1 DEF RefNode, GainTest
<1>3. <<"G", "G", "R", "G">> \in Seq(Marks) /\ <<"G", "G", "P", "G">> \in Seq(Marks)
      /\ Len(<<"G", "G", "P", "G">>) <= 4 /\ <<"G", "G">> \in Seq(Marks)
  BY DEF Marks
<1>4. \A r \in BS \cup UE : First(r) \in Seq(Marks)
  BY FirstIs DEF Marks
<1> QED  BY <1>2, <1>3, <1>4, Joined

\* Every schedule is a list of marks, and that of a reference radio is a short one.
Schedules == {Uplink, Downlink, Sound, RefNode, GainTest}
\* Every schedule is of the driver's own radios.
LEMMA ScheduleMarks ==
  ASSUME Placed, Driver, NEW sched \in Schedules, NEW r \in DOMAIN sched
  PROVE  /\ r \in BS \cup UE \cup Ref /\ sched[r] \in Seq(Marks)
         /\ r \in Ref => Len(sched[r]) <= 4
<1>1. Seq(Reading) \subseteq Seq(Marks) /\ Seq(Sending) \subseteq Seq(Marks)
  <2>1. Reading \subseteq Marks /\ Sending \subseteq Marks
    BY DEF Reading, Sending, Marks
  <2> QED  BY <2>1
<1>2. (BS \cup UE) \cap Ref = {}
  BY DriverRadios
<1>3. CASE sched = Uplink
  BY <1>1, <1>2, <1>3, UplinkIs, SchedulesOf
<1>4. CASE sched = Downlink
  BY <1>1, <1>2, <1>4, DownlinkIs, SchedulesOf
<1>5. CASE sched = Sound
  BY <1>1, <1>2, <1>5, SoundIs
<1>6. CASE sched = RefNode
  BY <1>6, OthersAre, SchedulesOf
<1>7. CASE sched = GainTest
  BY <1>2, <1>7, OthersAre, SchedulesOf
<1> QED  BY <1>3, <1>4, <1>5, <1>6, <1>7 DEF Schedules

-----------------------------------------------------------------------------
(* mimo_driver.py: who sends when in an uplink frame *)

\* Where the base station's radios receive: slot 2 * j + 1 for every user j, and one
\* more slot when there are several.
Shares == n_users + (IF n_users > 1 THEN 1 ELSE 0)
\* The slots in which a base station's radio listens in an uplink frame.
LEMMA UplinkPlaces ==
  ASSUME Placed, Driver, NEW r \in BS
  PROVE  /\ Shares \in Nat
         /\ Places(Uplink[r]) = {2 * j + 1 : j \in 1 .. Shares}
         /\ Cardinality(Places(Uplink[r])) = Shares
         /\ \A j \in 1 .. Shares : Nth(Places(Uplink[r]), j) = 2 * j + 1
<1> DEFINE N == Shares
           t == Times(N, <<"R", "G">>)
           a == First(r)
           s == a \o t
           f == [j \in 1 .. N |-> 2 * j + 1]
<1>1. N \in Nat
  BY DriverRadios DEF Shares
<1>2. Uplink[r] = s
  <2>1. r \in BS \cup UE
    OBVIOUS
  <2> QED  BY <2>1 DEF Uplink, UplinkBs, Shares
<1> HIDE DEF N
<1>3. a \in Seq(Marks) /\ Len(a) = 2 /\ a[1] # "R" /\ a[2] # "R"
  BY FirstIs DEF Marks
<1>4. /\ t \in Seq(Marks) /\ Len(t) = 2 * N
      /\ \A j \in 1 .. N : t[2 * j - 1] = "R" /\ t[2 * j] = "G"
  <2>1. "R" \in Marks /\ "G" \in Marks
    BY DEF Marks
  <2>2. Times(N, <<"R", "G">>) \in Seq(Marks) /\ Len(Times(N, <<"R", "G">>)) = 2 * N
    BY <1>1, <2>1, TimesIn
  <2>3. ASSUME NEW j \in 1 .. N
        PROVE  Times(N, <<"R", "G">>)[2 * j - 1] = "R" /\ Times(N, <<"R", "G">>)[2 * j] = "G"
    BY <1>1, TimesAt
  <2> QED  BY <2>2, <2>3
<1> HIDE DEF a, t
<1>5. /\ Len(s) = 2 + 2 * N /\ s \in Seq(Marks)
      /\ \A i \in 1 .. 2 : s[i] = a[i]
      /\ \A i \in 1 .. 2 * N : s[2 + i] = t[i]
  <2>1. /\ s \in Seq(Marks) /\ Len(s) = Len(a) + Len(t)
        /\ \A i \in 1 .. Len(a) : s[i] = a[i]
        /\ \A i \in 1 .. Len(t) : s[Len(a) + i] = t[i]
    BY <1>3, <1>4, TwoParts
  <2> HIDE DEF s
  <2> QED  BY <1>3, <1>4, <2>1
<1> HIDE DEF s
<1>6. ASSUME NEW j \in 1 .. N PROVE 2 * j + 1 \in 1 .. 2 + 2 * N /\ s[2 * j + 1] = "R"
  <2>1. 2 * j - 1 \in 1 .. 2 * N /\ 2 + (2 * j - 1) = 2 * j + 1
    BY <1>1
  <2>2. s[2 * j + 1] = t[2 * j - 1]
    BY <1>5, <2>1
  <2> QED  BY <1>1, <1>4, <2>2
<1>7. ASSUME NEW k \in 1 .. 2 + 2 * N, s[k] = "R" PROVE \E j \in 1 .. N : k = 2 * j + 1
  <2>1. CASE k <= 2
    <3>1. k = 1 \/ k = 2
      BY <2>1
    <3>2. s[1] = a[1] /\ s[2] = a[2]
      BY <1>5
    <3> QED  BY <1>3, <1>7, <3>1, <3>2
  <2>2. CASE k > 2
    <3>1. PICK h \in Int : k = 2 * h + 1 \/ k = 2 * h + 2
      <4>1. k \in Int
        BY <1>1
      <4>2. k = 2 * ((k - 1) \div 2) + 1 \/ k = 2 * ((k - 1) \div 2) + 2
        BY <4>1
      <4> QED  BY <4>1, <4>2
    <3>2. h \in 1 .. N
      BY <1>1, <2>2, <3>1
    <3>3. CASE k = 2 * h + 1
      BY <3>2, <3>3
    <3>4. CASE k = 2 * h + 2
      <4>1. 2 * h \in 1 .. 2 * N /\ 2 + 2 * h = k
        BY <1>1, <3>2, <3>4
      <4>2. s[k] = t[2 * h]
        BY <1>5, <4>1
      <4> QED  BY <1>4, <1>7, <3>2, <4>2
    <3> QED  BY <3>1, <3>3, <3>4
  <2> QED  BY <1>1, <2>1, <2>2
<1>8. Places(s) = {2 * j + 1 : j \in 1 .. N}
  <2>1. DOMAIN s = 1 .. 2 + 2 * N
    BY <1>1, <1>5
  <2> QED  BY <1>6, <1>7, <2>1 DEF Places
<1>9. /\ f \in [1 .. N -> Int] /\ (\A i, j \in 1 .. N : i < j => f[i] < f[j])
      /\ Places(s) = {f[i] : i \in 1 .. N}
  BY <1>1, <1>8
<1>10. Cardinality(Places(s)) = N /\ InOrder(Places(s)) = f
  <2> HIDE DEF f
  <2> QED  BY <1>1, <1>9, Enumerated
<1>11. ASSUME NEW j \in 1 .. N PROVE Nth(Places(s), j) = 2 * j + 1
  <2>1. InOrder(Places(s))[j] = Nth(Places(s), j)
    BY <1>1, <1>10 DEF InOrder
  <2> QED  BY <1>10, <2>1
<1> QED  BY <1>1, <1>2, <1>8, <1>10, <1>11 DEF N

\* In the slot of user u its own radio sends, and no other user's.
LEMMA OwnSlot ==
  ASSUME Placed, Driver, NEW u \in 1 .. n_users, NEW v \in 1 .. n_users
  PROVE  /\ 2 * u + 1 \in DOMAIN UplinkUe(v)
         /\ UplinkUe(v)[2 * u + 1] = "P" <=> u = v
<1> DEFINE n == n_users
           a == <<"G", "G">>
           b == [k \in 1 .. 2 * n |-> IF k = 2 * v - 1 THEN "P" ELSE "G"]
           c == IF n > 1 THEN <<"P", "G">> ELSE <<>>
           s == a \o b
<1>1. n \in Nat
  BY DriverRadios
<1> HIDE DEF n
<1>2. a \in Seq(Marks) /\ Len(a) = 2
  BY DEF Marks
<1>3. c \in Seq(Marks)
  <2>1. <<"P", "G">> \in Seq(Marks) /\ <<>> \in Seq(Marks)
    BY DEF Marks
  <2> QED  BY <2>1
<1>4. /\ b \in Seq(Marks) /\ Len(b) = 2 * n
      /\ \A k \in 1 .. 2 * n : b[k] = IF k = 2 * v - 1 THEN "P" ELSE "G"
  <2>1. \A k \in 1 .. 2 * n : (IF k = 2 * v - 1 THEN "P" ELSE "G") \in Marks
    BY DEF Marks
  <2>2. 2 * n \in Nat
    BY <1>1
  <2> QED  BY <2>1, <2>2
<1>5. UplinkUe(v) = s \o c
  BY DEF UplinkUe, n
<1> HIDE DEF a, b, c
<1>6. /\ s \in Seq(Marks) /\ Len(s) = 2 + 2 * n
      /\ \A i \in 1 .. 2 * n : s[2 + i] = b[i]
  <2>1. /\ s \in Seq(Marks) /\ Len(s) = Len(a) + Len(b)
        /\ \A i \in 1 .. Len(b) : s[Len(a) + i] = b[i]
    BY <1>2, <1>4, TwoParts
  <2> HIDE DEF s
  <2> QED  BY <1>2, <1>4, <2>1
<1> HIDE DEF s
<1>7. /\ Len(s \o c) = 2 + 2 * n + Len(c) /\ s \o c \in Seq(Marks)
      /\ \A i \in 1 .. 2 + 2 * n : (s \o c)[i] = s[i]
  <2> DEFINE w == s \o c
  <2>1. /\ w \in Seq(Marks) /\ Len(w) = Len(s) + Len(c)
        /\ \A i \in 1 .. Len(s) : w[i] = s[i]
    BY <1>3, <1>6, TwoParts
  <2> HIDE DEF w
  <2>2. /\ Len(w) = 2 + 2 * n + Len(c) /\ w \in Seq(Marks)
        /\ \A i \in 1 .. 2 + 2 * n : w[i] = s[i]
    BY <1>6, <2>1
  <2> QED  BY <2>2 DEF w
<1>8. u \in 1 .. n /\ v \in 1 .. n
  BY DEF n
<1>9. 2 * u - 1 \in 1 .. 2 * n /\ 2 + (2 * u - 1) = 2 * u + 1 /\ 2 * u + 1 \in 1 .. 2 + 2 * n
  BY <1>1, <1>8
<1>10. (s \o c)[2 * u + 1] = b[2 * u - 1]
  BY <1>6, <1>7, <1>9
<1>11. 2 * u - 1 = 2 * v - 1 <=> u = v
  BY <1>8
<1>12. 2 * u + 1 \in DOMAIN (s \o c)
  <2>1. Len(c) \in Nat
    BY <1>3
  <2> QED  BY <1>1, <1>7, <1>9, <2>1
<1> QED  BY <1>4, <1>5, <1>9, <1>10, <1>11, <1>12

-----------------------------------------------------------------------------
(* mimo_driver.py: what a try brings *)

\* Between tries the queues are empty; users wait for the beacon, and reference radios
\* never read.
Calm(r, d) ==
  /\ d.fifo = <<>> /\ d.count \in Int /\ d.slots \in Seq(Marks)
  /\ r \in UE => d.mode # "once"
  /\ r \in Ref => ~d.active /\ Len(d.slots) <= 4
Settled == \A r \in Radios : Calm(r, dev[r])
Deaf == \A u \in UE : ~dev[u].corr

\* The radios have the schedule of the call at hand.
Planned(call) ==
  \A r \in DOMAIN Schedule(call) : /\ dev[r].slots = Schedule(call)[r]
                                   /\ r \in BS => dev[r].mode = "once"
CallFields == {"call", "calls", "left", "try", "old"}
CallInv ==
  /\ job.call \in {"uplink", "downlink", "sound", "refnode"} /\ DOMAIN job = CallFields
  /\ job.call = "sound" => tool.ue = 1
  /\ IF job.call = "refnode" THEN Deaf ELSE Planned(job.call)

\* A frame that is kept, entry by entry.
SymbolRight(e, r, k, got) ==
  /\ got.round = e.round /\ got.slot = k
  /\ got.from \subseteq Turn(e, r, k)
  /\ e.loud \/ e.still # {} \/ got.from = Turn(e, r, k)
FrameRight(e) ==
  e.call \in {"uplink", "downlink", "sound"} =>
    \A r \in DOMAIN e.data :
      /\ DOMAIN e.data[r] = 1 .. Cardinality(Places(Schedule(e.call)[r]))
      /\ \A i \in 1 .. Cardinality(Places(Schedule(e.call)[r])) :
           SymbolRight(e, r, Nth(Places(Schedule(e.call)[r]), i), e.data[r][i])

\* The places of a list are some of finitely many numbers.
LEMMA PlacesFinite ==
  ASSUME NEW s \in Seq(Marks), NEW S \in SUBSET Places(s)
  PROVE  /\ IsFiniteSet(S) /\ Cardinality(S) \in Nat /\ Cardinality(Places(s)) \in Nat
         /\ Cardinality(S) <= Cardinality(Places(s))
         /\ Cardinality(S) >= Cardinality(Places(s)) => S = Places(s)
<1>1. Places(s) \subseteq 1 .. Len(s) /\ Len(s) \in Nat
  BY DEF Places
<1>2. IsFiniteSet(1 .. Len(s))
  BY <1>1, FS_Interval
<1>3. IsFiniteSet(Places(s))
  BY <1>1, <1>2, FS_Subset
<1>4. IsFiniteSet(S) /\ Cardinality(S) <= Cardinality(Places(s))
      /\ (Cardinality(S) = Cardinality(Places(s)) => S = Places(s))
  BY <1>3, FS_Subset
<1>5. Cardinality(S) \in Nat /\ Cardinality(Places(s)) \in Nat
  BY <1>3, <1>4, FS_CardinalityType
<1> QED  BY <1>4, <1>5

\* What is in the queue of a radio when a frame has been played.
LEMMA QueueIs ==
  ASSUME Shape, Settled, NEW heard, NEW lost, NEW r \in Radios
  PROVE  /\ Expected(r) \in Nat
         /\ Cardinality(Reaches(r, lost)) \in Nat /\ Cardinality(Reaches(r, lost)) <= Expected(r)
         /\ Cardinality(Reaches(r, lost)) >= Expected(r) => Reaches(r, lost) = Places(dev[r].slots)
         /\ \/ Played(heard, lost)[r].fifo = <<>>
            \/ /\ r \in Players(heard) /\ dev[r].active
               /\ Played(heard, lost)[r].fifo = Symbols(r, heard, lost)
<1>1. dev[r].slots \in Seq(Marks) /\ dev[r].fifo = <<>>
  BY DEF Settled, Calm
<1>2. Reaches(r, lost) \in SUBSET Places(dev[r].slots)
  BY DEF Reaches
<1>3. /\ Expected(r) \in Nat /\ Cardinality(Reaches(r, lost)) \in Nat
      /\ Cardinality(Reaches(r, lost)) <= Expected(r)
      /\ Cardinality(Reaches(r, lost)) >= Expected(r) => Reaches(r, lost) = Places(dev[r].slots)
  BY <1>1, <1>2, PlacesFinite DEF Expected
<1>4. <<>> \o Symbols(r, heard, lost) = Symbols(r, heard, lost)
  BY <1>3, SymbolsAre
<1> QED  BY <1>1, <1>3, <1>4, PlayedFifo

\* The first n of n or more symbols.
LEMMA UptoIs ==
  ASSUME NEW n \in Nat, NEW X, NEW s \in Seq(X)
  PROVE  /\ Len(Upto(n, s)) = IF n <= Len(s) THEN n ELSE Len(s)
         /\ DOMAIN Upto(n, s) = 1 .. Len(Upto(n, s))
         /\ \A i \in DOMAIN Upto(n, s) : Upto(n, s)[i] = s[i]
<1> DEFINE m == IF n <= Len(s) THEN n ELSE Len(s)
<1>1. Len(s) \in Nat
  OBVIOUS
<1>2. Min({n, Len(s)}) = m
  BY <1>1, MinOfTwo
<1>3. m \in Nat /\ m <= Len(s)
  BY <1>1
<1>4. Upto(n, s) = SubSeq(s, 1, m)
  BY <1>2 DEF Upto
<1> HIDE DEF m
<1>5. /\ Len(SubSeq(s, 1, m)) = m /\ SubSeq(s, 1, m) \in Seq(X)
      /\ \A i \in 1 .. m : SubSeq(s, 1, m)[i] = s[i]
  <2>1. \A i \in 1 .. m : i \in 1 .. Len(s)
    BY <1>1, <1>3
  <2> QED  BY <1>1, <1>3, <2>1
<1>6. DOMAIN SubSeq(s, 1, m) = 1 .. m
  BY <1>3, <1>5
<1> QED  BY <1>4, <1>5, <1>6 DEF m

\* A radio all of whose symbols came has heard the frame, and each is in its place.
LEMMA GoodRead ==
  ASSUME Shape, Settled, NEW heard, NEW lost, NEW r \in Radios, NEW loud,
         ~Low(Got(Played(heard, lost), r), Expected(r), loud),
         NEW i \in 1 .. Expected(r)
  PROVE  LET k   == Nth(Places(dev[r].slots), i)
             got == recv_stream_tdd(Played(heard, lost), r)[i]
         IN  /\ got = Symbol(k, {q \in Players(heard) \ {r} : Sends(q, k)})
             /\ got.from # {} \/ loud
             /\ r \in Players(heard)
<1> DEFINE air  == Played(heard, lost)
           fifo == air[r].fifo
           n    == Expected(r)
           syms == Symbols(r, heard, lost)
           c    == Cardinality(Reaches(r, lost))
           from(k) == {q \in Players(heard) \ {r} : Sends(q, k)}
<1>1. /\ n \in Nat /\ c \in Nat /\ (c >= n => Reaches(r, lost) = Places(dev[r].slots))
      /\ fifo = <<>> \/ (r \in Players(heard) /\ fifo = syms)
  BY QueueIs
<1>2. Len(syms) = c /\ \E X : syms \in Seq(X)
  BY <1>1, SymbolsAre
<1>3. \E X : fifo \in Seq(X)
  <2>1. <<>> \in Seq({})
    OBVIOUS
  <2> QED  BY <1>1, <1>2, <2>1
<1>4. PICK X : fifo \in Seq(X)
  BY <1>3
<1>5. Got(air, r) = Upto(n, fifo)
  BY DEF Got
<1>6. Len(Got(air, r)) >= n /\ \A j \in DOMAIN Got(air, r) : Got(air, r)[j].from = {} => loud
  <2>1. Len(Got(air, r)) \in Nat
    BY <1>1, <1>4, <1>5, UptoIs
  <2> QED  BY <1>1, <2>1 DEF Low
<1>10. Symbols(r, heard, lost) = [j \in 1 .. c |-> Symbol(Nth(Reaches(r, lost), j), from(Nth(Reaches(r, lost), j)))]
  BY DEF Symbols
<1>11. recv_stream_tdd(air, r)[i] = IF i \in DOMAIN Got(air, r) THEN Got(air, r)[i] ELSE Zeros
  BY DEF recv_stream_tdd
<1> HIDE DEF fifo, air, n, syms, c, from
<1>7. n <= Len(fifo) /\ DOMAIN Got(air, r) = 1 .. n /\ Len(fifo) \in Nat
  <2>1. Len(fifo) \in Nat
    BY <1>4
  <2>2. /\ Len(Upto(n, fifo)) = IF n <= Len(fifo) THEN n ELSE Len(fifo)
        /\ DOMAIN Upto(n, fifo) = 1 .. Len(Upto(n, fifo))
    BY <1>1, <1>4, UptoIs
  <2> QED  BY <1>1, <1>5, <1>6, <2>1, <2>2
<1>8. i \in 1 .. n
  BY DEF n
<1>9. Got(air, r)[i] = fifo[i] /\ i \in DOMAIN Got(air, r)
  BY <1>1, <1>4, <1>5, <1>7, <1>8, UptoIs
<1>12. r \in Players(heard) /\ fifo = syms
  <2>1. Len(<<>>) = 0
    OBVIOUS
  <2> QED  BY <1>1, <1>7, <1>8, <2>1
<1>13. Reaches(r, lost) = Places(dev[r].slots) /\ i \in 1 .. c
  BY <1>1, <1>2, <1>7, <1>8, <1>12
<1>14. syms[i] = Symbol(Nth(Places(dev[r].slots), i), from(Nth(Places(dev[r].slots), i)))
  BY <1>10, <1>13 DEF syms
<1>15. recv_stream_tdd(air, r)[i] = syms[i] /\ (syms[i].from # {} \/ loud)
  BY <1>6, <1>9, <1>11, <1>12
<1> QED  BY <1>12, <1>14, <1>15 DEF air, from

-----------------------------------------------------------------------------
(* mimo_driver.py: a try that is good is a frame that is right *)

\* In a call some radios read and the others send.
LEMMA CallSchedule ==
  ASSUME Placed, Driver, CallInv, job.call # "refnode"
  PROVE  /\ job.call \in {"uplink", "downlink", "sound"}
         /\ DOMAIN Schedule(job.call) = BS \cup UE
         /\ job.call = "uplink" => Readers = BS /\ Schedule(job.call) = Uplink
         /\ job.call # "uplink" => Readers = UE
         /\ Readers \subseteq BS \cup UE
         /\ \A r \in Readers : Schedule(job.call)[r] \in Seq(Reading)
         /\ \A r \in (BS \cup UE) \ Readers : Schedule(job.call)[r] \in Seq(Sending)
<1>1. job.call \in {"uplink", "downlink", "sound"}
  BY DEF CallInv
<1>2. BS \cap UE = {} /\ tool.bs \in Nat
  BY DriverRadios
<1>3. CASE job.call = "uplink"
  <2>1. Schedule(job.call) = Uplink /\ Readers = BS
    BY <1>3 DEF Schedule, Readers
  <2>2. (BS \cup UE) \ BS = UE
    BY <1>2
  <2> QED  BY <1>1, <1>3, <2>1, <2>2, UplinkIs, SchedulesOf
<1>4. CASE job.call = "downlink"
  <2>1. Schedule(job.call) = Downlink /\ Readers = UE
    BY <1>4 DEF Schedule, Readers
  <2>2. (BS \cup UE) \ UE = BS
    BY <1>2
  <2> QED  BY <1>1, <1>4, <2>1, <2>2, DownlinkIs, SchedulesOf
<1>5. CASE job.call = "sound"
  <2>1. Schedule(job.call) = Sound /\ Readers = UE
    BY <1>5 DEF Schedule, Readers
  <2>2. (BS \cup UE) \ UE = BS
    BY <1>2
  <2>3. {u \in UE : u = tool.bs + 1} = UE
    <3>1. UE = tool.bs + 1 .. tool.bs + 1
      BY <1>5 DEF CallInv, UE
    <3> QED  BY <1>2, <3>1
  <2> QED  BY <1>1, <1>5, <2>1, <2>2, <2>3, SoundIs
<1> QED  BY <1>1, <1>3, <1>4, <1>5

\* What a try keeps, for the outcome (heard, lost, loud).
TryEntry(heard, lost, loud) ==
  [call |-> job.call, round |-> round + 1,
   data |-> [r \in Readers |-> recv_stream_tdd(Played(heard, lost), r)], loud |-> loud,
   still |-> {p \in Ref \X (1 .. 4) : Sends(p[1], p[2])}]

\* Who sends in a slot is one whose turn it is.
LEMMA SendersTurn ==
  ASSUME Placed, Driver, QuietInv, Settled, CallInv, job.call # "refnode",
         NEW heard \in SUBSET Listening, NEW lost, NEW loud, NEW r, NEW k,
         NEW q \in Players(heard) \ {r}, Sends(q, k)
  PROVE  q \in Turn(TryEntry(heard, lost, loud), r, k)
<1> DEFINE e == TryEntry(heard, lost, loud)
<1>1. /\ e.call = job.call
      /\ \A x, y : x \in Ref /\ y \in 1 .. 4 /\ Sends(x, y) => <<x, y>> \in e.still
  BY DEF TryEntry
<1> SUFFICES q \in Turn(e, r, k)
  OBVIOUS
<1> HIDE DEF e
<1>2. q \in Radios /\ dev[q].mode \in {"once", "beacon"}
  BY DEF Players, Listening
<1>3. q \in BS \cup UE \cup Ref
  BY <1>2 DEF QuietInv, ModesIn
<1>4. k \in DOMAIN dev[q].slots /\ dev[q].slots[k] \in {"P", "T"}
  BY DEF Sends
<1>5. CASE q \in Ref
  <2>1. dev[q].slots \in Seq(Marks) /\ Len(dev[q].slots) <= 4
    BY <1>2, <1>5 DEF Settled, Calm
  <2>2. k \in 1 .. 4
    BY <1>4, <2>1
  <2> QED  BY <1>1, <1>5, <2>2 DEF Turn
<1>6. CASE q \in BS \cup UE
  <2> DEFINE S == Schedule(job.call)
  <2>1. DOMAIN S = BS \cup UE /\ (S[q] \in Seq(Reading) \/ S[q] \in Seq(Sending))
    BY <1>6, CallSchedule
  <2>2. dev[q].slots = S[q]
    BY <1>6, <2>1 DEF CallInv, Planned
  <2> HIDE DEF S
  <2>3. S[q][k] \in Reading \cup Sending
    BY <1>4, <2>1, <2>2
  <2>4. S[q][k] = "P" /\ k \in DOMAIN S[q]
    BY <1>4, <2>2, <2>3 DEF Reading, Sending
  <2>5. q \in DOMAIN S \ {r}
    BY <1>6, <2>1
  <2> QED  BY <1>1, <2>4, <2>5 DEF Turn, S
<1> QED  BY <1>3, <1>5, <1>6

\* Unless noise or a reference radio passes for a user, everyone who is to send has heard
\* the trigger.
LEMMA AllPlay ==
  ASSUME Placed, Driver, QuietInv, Settled, CallInv, job.call # "refnode", ~TooManyUsers,
         NEW heard \in SUBSET Listening, NEW lost,
         \A r \in Readers : ~Low(Got(Played(heard, lost), r), Expected(r), FALSE),
         TryEntry(heard, lost, FALSE).still = {},
         NEW r \in Readers, NEW q \in (BS \cup UE) \ Readers
  PROVE  q \in Players(heard)
<1>1. /\ BS \subseteq Radios /\ UE \subseteq Radios /\ BS \cap UE = {} /\ tool.bs \in Nat
      /\ tool.ue \in Nat
      /\ n_users = tool.ue
  BY DriverRadios DEF TooManyUsers
<1>2. CASE job.call # "uplink"
  <2>1. q \in BS
    BY <1>2, CallSchedule
  <2>2. q \in DOMAIN Schedule(job.call)
    BY CallSchedule
  <2>3. dev[q].mode = "once"
    BY <2>1, <2>2 DEF CallInv, Planned
  <2> QED  BY <1>1, <2>1, <2>3 DEF Players
<1>3. CASE job.call = "uplink"
  <2>1. r \in BS /\ q \in UE /\ Schedule(job.call) = Uplink /\ DOMAIN Uplink = BS \cup UE
    BY <1>1, <1>3, CallSchedule
  <2>2. dev[r].slots = Uplink[r]
    BY <2>1 DEF CallInv, Planned
  <2> DEFINE u == q - tool.bs
             k == 2 * u + 1
             got == recv_stream_tdd(Played(heard, lost), r)[u]
  <2>3. u \in 1 .. n_users
    BY <1>1, <2>1 DEF UE
  <2>4. u \in 1 .. Shares /\ Expected(r) = Shares /\ Nth(Places(dev[r].slots), u) = k
    <3>1. n_users \in Nat /\ Shares = n_users + (IF n_users > 1 THEN 1 ELSE 0)
      BY <1>1 DEF Shares
    <3>2. u \in 1 .. Shares
      BY <2>3, <3>1
    <3> QED  BY <2>1, <2>2, <3>2, UplinkPlaces DEF Expected
  <2>5. Shape
    BY DEF QuietInv
  <2>6. ~Low(Got(Played(heard, lost), r), Expected(r), FALSE)
    OBVIOUS
  <2>7. r \in Radios /\ u \in 1 .. Expected(r)
    BY <1>1, <2>1, <2>4
  <2>8. {p \in Players(heard) \ {r} : Sends(p, k)} # {}
    <3> DEFINE l == FALSE
               h == Nth(Places(dev[r].slots), u)
    <3>1. ~Low(Got(Played(heard, lost), r), Expected(r), l) /\ l = FALSE
      BY <2>6
    <3> HIDE DEF u, k, l
    <3>2. /\ got = Symbol(h, {p \in Players(heard) \ {r} : Sends(p, h)})
          /\ got.from # {} \/ l
      BY <2>5, <2>7, <3>1, GoodRead
    <3>3. h = k
      BY <2>4
    <3> HIDE DEF got, h
    <3> QED  BY <3>1, <3>2, <3>3 DEF Symbol
  <2>9. PICK p \in Players(heard) \ {r} : Sends(p, k)
    BY <2>8
  <2>10. p \in Turn(TryEntry(heard, lost, FALSE), r, k)
    BY <2>9, SendersTurn
  <2>11. p \in BS \cup UE /\ k \in DOMAIN Uplink[p] /\ Uplink[p][k] = "P"
    <3>1. TryEntry(heard, lost, FALSE).call = job.call
      BY DEF TryEntry
    <3> QED  BY <2>1, <2>10, <3>1 DEF Turn
  <2>12. p \in UE
    <3>1. p \in BS => Uplink[p] \in Seq(Reading)
      BY UplinkIs
    <3>2. p \in BS => Uplink[p][k] \in Reading
      BY <2>11, <3>1
    <3> QED  BY <2>11, <3>2 DEF Reading
  <2> DEFINE v == p - tool.bs
  <2>13. v \in 1 .. n_users /\ (u = v => p = q)
    BY <1>1, <2>1, <2>12 DEF UE
  <2>14. Uplink[p] = UplinkUe(v)
    BY <1>1, <2>12 DEF Uplink
  <2>15. u = v
    <3> HIDE DEF u, v
    <3> QED  BY <2>3, <2>11, <2>13, <2>14, OwnSlot
  <2> QED  BY <2>9, <2>13, <2>15
<1> QED  BY <1>2, <1>3

\* A try that is good is kept as a frame that is right.
LEMMA TryRight ==
  ASSUME Placed, Driver, QuietInv, Settled, CallInv, job.call # "refnode", ~TooManyUsers,
         NEW heard \in SUBSET Listening, NEW lost, NEW loud \in BOOLEAN,
         \A r \in Readers : ~Low(Got(Played(heard, lost), r), Expected(r), loud)
  PROVE  FrameRight(TryEntry(heard, lost, loud))
<1> DEFINE e == TryEntry(heard, lost, loud)
           S == Schedule(job.call)
<1>1. /\ e.call = job.call /\ e.round = round + 1 /\ e.loud = loud /\ DOMAIN e.data = Readers
      /\ \A r \in Readers : e.data[r] = recv_stream_tdd(Played(heard, lost), r)
  BY DEF TryEntry
<1>2. /\ Readers \subseteq BS \cup UE /\ DOMAIN S = BS \cup UE
      /\ \A r \in Readers : S[r] \in Seq(Reading)
  BY CallSchedule
<1>3. Shape
  BY DEF QuietInv
<1>4. BS \cup UE \subseteq Radios
  BY DriverRadios
<1>5. \A r \in BS \cup UE : dev[r].slots = S[r]
  BY <1>2 DEF CallInv, Planned
<1> SUFFICES ASSUME NEW r \in Readers
             PROVE  /\ DOMAIN e.data[r] = 1 .. Cardinality(Places(S[r]))
                    /\ \A i \in 1 .. Cardinality(Places(S[r])) :
                         SymbolRight(e, r, Nth(Places(S[r]), i), e.data[r][i])
  BY <1>1 DEF FrameRight
<1>6. r \in Radios /\ r \in BS \cup UE /\ Expected(r) = Cardinality(Places(S[r]))
  BY <1>2, <1>4, <1>5 DEF Expected
<1>7. DOMAIN e.data[r] = 1 .. Cardinality(Places(S[r]))
  BY <1>1, <1>6 DEF recv_stream_tdd
<1> SUFFICES ASSUME NEW i \in 1 .. Expected(r)
             PROVE  SymbolRight(e, r, Nth(Places(S[r]), i), e.data[r][i])
  BY <1>6, <1>7
<1> DEFINE k == Nth(Places(S[r]), i)
           from == {q \in Players(heard) \ {r} : Sends(q, k)}
<1>8. e.data[r][i] = Symbol(k, from) /\ r \in Players(heard)
  <2>1. ~Low(Got(Played(heard, lost), r), Expected(r), loud) /\ dev[r].slots = S[r]
    BY <1>5, <1>6
  <2> QED  BY <1>1, <1>3, <1>6, <2>1, GoodRead
<1>9. from \subseteq Turn(e, r, k)
  BY SendersTurn
<1> HIDE DEF k, e, S
<1>10. ASSUME ~loud, e.still = {}, NEW q \in Turn(e, r, k) PROVE q \in from
  <2>1. q \in DOMAIN S \ {r} /\ k \in DOMAIN S[q] /\ S[q][k] = "P"
    BY <1>1, <1>10 DEF Turn, S
  <2>2. q \in (BS \cup UE) \ Readers
    <3>1. q \in Readers => S[q][k] \in Reading
      BY <1>2, <2>1
    <3> QED  BY <1>2, <2>1, <3>1 DEF Reading
  <2>3. loud = FALSE
    BY <1>10
  <2>4. q \in Players(heard)
    <3>1. /\ \A x \in Readers : ~Low(Got(Played(heard, lost), x), Expected(x), FALSE)
          /\ TryEntry(heard, lost, FALSE).still = {}
      BY <1>10, <2>3 DEF e
    <3> QED  BY <2>2, <3>1, AllPlay
  <2>5. Sends(q, k)
    BY <1>5, <2>1, <2>2 DEF Sends
  <2> QED  BY <2>1, <2>4, <2>5
<1>11. /\ e.data[r][i].round = e.round /\ e.data[r][i].slot = k /\ e.data[r][i].from = from
  <2> HIDE DEF from
  <2> QED  BY <1>1, <1>8 DEF Symbol
<1> HIDE DEF from
<1>12. e.loud \/ e.still # {} \/ from = Turn(e, r, k)
  BY <1>1, <1>9, <1>10
<1> QED  BY <1>9, <1>11, <1>12 DEF SymbolRight, k

-----------------------------------------------------------------------------
(* mimo_driver.py: nothing is left in a queue for the next frame *)

\* The options do not change, and so neither do the schedules.
LEMMA SchedulesSame ==
  ASSUME tool' = tool, NEW c
  PROVE  /\ BS' = BS /\ UE' = UE /\ Ref' = Ref
         /\ c \in {"uplink", "downlink", "sound"} => Schedule(c)' = Schedule(c)
<1>1. BS' = BS /\ UE' = UE /\ Ref' = Ref /\ n_users' = n_users
  BY DEF BS, UE, Ref, n_users
<1>2. Uplink' = Uplink
  BY DEF Uplink, UplinkBs, UplinkUe, BS, UE, n_users
<1>3. Downlink' = Downlink
  BY DEF Downlink, BS, UE
<1>4. Sound' = Sound
  BY DEF Sound, SoundBs, SoundUe, BS, UE
<1> QED  BY <1>1, <1>2, <1>3, <1>4 DEF Schedule

\* A frame that is right stays right.
LEMMA RightSame ==
  ASSUME tool' = tool, NEW e, FrameRight(e) PROVE FrameRight(e)'
<1> SUFFICES ASSUME e.call \in {"uplink", "downlink", "sound"} PROVE FrameRight(e)'
  BY DEF FrameRight
<1> DEFINE S == Schedule(e.call)
<1>1. Schedule(e.call)' = S /\ Ref' = Ref
  BY SchedulesSame
<1>2. \A r, k : Turn(e, r, k)' = Turn(e, r, k)
  BY <1>1 DEF Turn
<1>3. \A r, k, got : SymbolRight(e, r, k, got)' <=> SymbolRight(e, r, k, got)
  BY <1>2 DEF SymbolRight
<1>4. \A r \in DOMAIN e.data :
        /\ DOMAIN e.data[r] = 1 .. Cardinality(Places(S[r]))
        /\ \A i \in 1 .. Cardinality(Places(S[r])) :
             SymbolRight(e, r, Nth(Places(S[r]), i), e.data[r][i])
  BY DEF FrameRight
<1> HIDE DEF S
<1> QED  BY <1>1, <1>3, <1>4 DEF FrameRight

\* What the driver has kept.
GainsRight(e) ==
  e.call = "gains" /\ e.best # <<>> =>
    \E i \in DOMAIN e.seen :
      /\ e.seen[i] = [gains |-> e.best, new |-> e.current_max]
      /\ \A j \in DOMAIN e.seen : e.seen[j].new <= e.current_max
      /\ \A j \in i + 1 .. Len(e.seen) : e.seen[j].new < e.current_max
OutInv == /\ \E X : out \in Seq(X)
          /\ \A i \in DOMAIN out : FrameRight(out[i]) /\ GainsRight(out[i])

\* Nothing is kept, or one more entry that is right.
LEMMA OutKept ==
  ASSUME tool' = tool, OutInv,
         \/ out' = out \/ out' = <<>>
         \/ \E e : FrameRight(e) /\ GainsRight(e) /\ out' = Append(out, e)
  PROVE  OutInv'
<1>1. \A e : FrameRight(e) => FrameRight(e)'
  BY RightSame
<1>2. PICK X : out \in Seq(X)
  BY DEF OutInv
<1>3. \A i \in DOMAIN out : FrameRight(out[i]) /\ GainsRight(out[i])
  BY DEF OutInv
<1>4. SUFFICES (\E Y : out' \in Seq(Y)) /\ \A i \in DOMAIN out' : FrameRight(out'[i]) /\ GainsRight(out'[i])
  BY <1>1 DEF OutInv, GainsRight
<1>5. CASE out' = out
  BY <1>2, <1>3, <1>5
<1>6. CASE out' = <<>>
  <2>1. <<>> \in Seq({}) /\ DOMAIN <<>> = {}
    OBVIOUS
  <2> QED  BY <1>6, <2>1
<1>7. ASSUME NEW e, FrameRight(e), GainsRight(e), out' = Append(out, e)
      PROVE  (\E Y : out' \in Seq(Y)) /\ \A i \in DOMAIN out' : FrameRight(out'[i]) /\ GainsRight(out'[i])
  <2>1. out \in Seq(X \cup {e}) /\ e \in X \cup {e}
    BY <1>2
  <2>2. /\ out' \in Seq(X \cup {e}) /\ DOMAIN out = 1 .. Len(out) /\ DOMAIN out' = 1 .. Len(out) + 1
        /\ Len(out) \in Nat
        /\ \A i \in 1 .. Len(out) : out'[i] = out[i]
        /\ out'[Len(out) + 1] = e
    BY <1>7, <2>1
  <2>3. ASSUME NEW i \in DOMAIN out' PROVE FrameRight(out'[i]) /\ GainsRight(out'[i])
    <3>1. CASE i \in DOMAIN out
      <4>1. out'[i] = out[i]
        BY <2>2, <3>1
      <4> QED  BY <1>3, <3>1, <4>1
    <3>2. CASE i = Len(out) + 1
      <4>1. out'[i] = e
        BY <2>2, <3>2
      <4> QED  BY <1>7, <4>1
    <3>3. i \in DOMAIN out \/ i = Len(out) + 1
      BY <2>2
    <3> QED  BY <3>1, <3>2, <3>3
  <2> QED  BY <2>2, <2>3
<1> QED  BY <1>5, <1>6, <1>7

\* Radios that are as they were but for counts, with empty queues.
AsBefore(r, d) == /\ Shaped(d) /\ Calm(r, d)
                  /\ d.mode = dev[r].mode /\ d.slots = dev[r].slots /\ d.corr = dev[r].corr
Kept(d) == DOMAIN d = Radios /\ \A r \in Radios : AsBefore(r, d[r])

\* Only who is to read has got anything.
LEMMA NothingElse ==
  ASSUME Placed, Driver, QuietInv, Settled, CallInv, NEW heard \in SUBSET Listening, NEW lost,
         NEW r \in Radios, r \notin Readers
  PROVE  Played(heard, lost)[r].fifo = <<>>
<1> SUFFICES ASSUME r \in Players(heard), dev[r].active,
                    Played(heard, lost)[r].fifo = Symbols(r, heard, lost)
             PROVE  Played(heard, lost)[r].fifo = <<>>
  BY QueueIs DEF QuietInv
<1>1. dev[r].mode # "off"
  BY DEF Players, Listening
<1>2. r \in BS \cup UE \cup Ref
  BY <1>1 DEF QuietInv, ModesIn
<1>3. r \notin Ref
  BY DEF Settled, Calm
<1>4. CASE job.call # "refnode"
  <2>1. /\ DOMAIN Schedule(job.call) = BS \cup UE
        /\ r \in (BS \cup UE) \ Readers
        /\ Schedule(job.call)[r] \in Seq(Sending)
    BY <1>2, <1>3, <1>4, CallSchedule
  <2>2. dev[r].slots = Schedule(job.call)[r]
    BY <1>4, <2>1 DEF CallInv, Planned
  <2>3. dev[r].slots \in Seq(Sending)
    BY <2>1, <2>2
  <2>4. \A k \in DOMAIN dev[r].slots : dev[r].slots[k] \in Sending
    BY <2>3
  <2>5. Places(dev[r].slots) = {}
    BY <2>4 DEF Places, Sending
  <2>6. Reaches(r, lost) = {}
    BY <2>5 DEF Reaches
  <2>7. Cardinality(Reaches(r, lost)) = 0
    BY <2>6, FS_EmptySet
  <2>8. Symbols(r, heard, lost) = <<>>
    BY <2>7 DEF Symbols
  <2> QED  BY <2>8
<1>5. CASE job.call = "refnode"
  <2>1. r \in UE
    BY <1>2, <1>3, <1>5 DEF Readers
  <2>2. r \in Listening
    BY <2>1 DEF Players, Settled, Calm
  <2> QED  BY <1>5, <2>1, <2>2 DEF CallInv, Deaf, Listening
<1> QED  BY <1>4, <1>5

\* A try leaves every queue empty.
LEMMA TryKept ==
  ASSUME Placed, Driver, QuietInv, Settled, CallInv, NEW heard \in SUBSET Listening, NEW lost
  PROVE  Kept(AfterRead(Played(heard, lost)))
<1> DEFINE air == Played(heard, lost)
           d   == AfterRead(air)
<1>1. DOMAIN d = Radios
  BY DEF AfterRead
<1>2. ASSUME NEW r \in Radios PROVE AsBefore(r, d[r])
  <2>1. Keeps(dev[r], air[r]) /\ Calm(r, dev[r])
    BY PlayedIs DEF QuietInv, Settled
  <2>2. d[r] = IF r \in Readers THEN [air[r] EXCEPT !.fifo = Beyond(Expected(r), @)] ELSE air[r]
    BY DEF AfterRead
  <2>3. /\ Expected(r) \in Nat
        /\ air[r].fifo = <<>> \/ (air[r].fifo = Symbols(r, heard, lost))
        /\ Cardinality(Reaches(r, lost)) \in Nat /\ Cardinality(Reaches(r, lost)) <= Expected(r)
    BY QueueIs DEF QuietInv
  <2>4. (\E X : air[r].fifo \in Seq(X)) /\ Len(air[r].fifo) <= Expected(r)
    <3>1. /\ Len(Symbols(r, heard, lost)) = Cardinality(Reaches(r, lost))
          /\ \E X : Symbols(r, heard, lost) \in Seq(X)
      BY <2>3, SymbolsAre
    <3>2. <<>> \in Seq({}) /\ Len(<<>>) = 0
      OBVIOUS
    <3>3. CASE air[r].fifo = <<>>
      BY <2>3, <3>2, <3>3
    <3>4. CASE air[r].fifo = Symbols(r, heard, lost)
      BY <2>3, <3>1, <3>4
    <3> QED  BY <2>3, <3>3, <3>4
  <2>5. Beyond(Expected(r), air[r].fifo) = <<>>
    BY <2>3, <2>4, BeyondEmpty
  <2>6. r \notin Readers => air[r].fifo = <<>>
    BY NothingElse
  <2> HIDE DEF air, d
  <2>7. Shaped(d[r]) /\ d[r].fifo = <<>> /\ d[r].mode = air[r].mode /\ d[r].slots = air[r].slots
        /\ d[r].active = air[r].active /\ d[r].corr = air[r].corr /\ d[r].count = air[r].count
    <3>1. Shaped(air[r])
      BY <2>1 DEF Keeps
    <3>2. CASE r \in Readers
      BY <2>2, <2>5, <3>1, <3>2 DEF Shaped, Fields
    <3>3. CASE r \notin Readers
      BY <2>2, <2>6, <3>1, <3>3
    <3> QED  BY <3>2, <3>3
  <2>8. air[r].count \in Int
    BY <2>1 DEF Keeps, Calm
  <2> QED  BY <2>1, <2>7, <2>8 DEF Keeps, Calm, AsBefore
<1> QED  BY <1>1, <1>2 DEF Kept

\* The call goes on, with the radios as they were.
LEMMA CallGoesOn ==
  ASSUME Placed, Driver, tool' = tool, CallInv, DOMAIN job' = CallFields, job'.call = job.call,
         Kept(dev')
  PROVE  Settled' /\ CallInv'
<1>1. BS' = BS /\ UE' = UE /\ Ref' = Ref /\ UE \subseteq Radios /\ BS \cup UE \subseteq Radios
  BY SchedulesSame, DriverRadios
<1>2. Settled'
  BY <1>1 DEF Kept, AsBefore, Settled, Calm
<1>3. job'.call \in {"uplink", "downlink", "sound", "refnode"} /\ (job'.call = "sound" => tool'.ue = 1)
  BY DEF CallInv
<1>4. \A r \in Radios : /\ dev'[r].mode = dev[r].mode /\ dev'[r].slots = dev[r].slots
                        /\ dev'[r].corr = dev[r].corr
  BY DEF Kept, AsBefore
<1>5. CASE job.call = "refnode"
  <2>1. Deaf
    BY <1>5 DEF CallInv
  <2>2. Deaf'
    BY <1>1, <1>4, <2>1 DEF Deaf
  <2> QED  BY <1>2, <1>3, <1>5, <2>2 DEF CallInv
<1>6. CASE job.call # "refnode"
  <2> DEFINE c == job.call
  <2>1. Schedule(c)' = Schedule(c) /\ c \in {"uplink", "downlink", "sound"}
    BY <1>3, <1>6, SchedulesSame
  <2>2. Planned(c)
    BY <1>6 DEF CallInv
  <2>3. DOMAIN Schedule(c) \subseteq Radios
    BY <1>1, <1>6, CallSchedule
  <2> HIDE DEF c
  <2>4. Planned(c)'
    BY <1>1, <1>4, <2>1, <2>2, <2>3 DEF Planned
  <2>5. Planned(job.call)'
    BY <1>6, <2>4 DEF c
  <2> QED  BY <1>2, <1>3, <1>6, <2>5 DEF CallInv
<1> QED  BY <1>5, <1>6

-----------------------------------------------------------------------------
(* mimo_driver.py: calls begin and end with quiet radios *)

\* The call returns, and no user waits for the beacon any more.
LEMMA CallOver ==
  ASSUME Placed, Driver, tool' = tool, CallInv, NEW d, Kept(d), dev' = Ended(d)
  PROVE  Settled' /\ Deaf'
<1>1. BS' = BS /\ UE' = UE /\ Ref' = Ref /\ UE \subseteq Radios
  BY SchedulesSame, DriverRadios
<1>2. \A r \in Radios : Shaped(d[r]) /\ Calm(r, d[r]) /\ d[r].corr = dev[r].corr
  BY DEF Kept, AsBefore
<1>3. ASSUME NEW r \in Radios
      PROVE  /\ dev'[r].mode = d[r].mode /\ dev'[r].slots = d[r].slots
             /\ dev'[r].active = d[r].active /\ dev'[r].fifo = d[r].fifo /\ dev'[r].count = 0
             /\ dev'[r].corr = IF r \in UE /\ job.call # "refnode" THEN FALSE ELSE d[r].corr
  <2>1. \A s \in Radios : Shaped(d[s])
    BY <1>2
  <2> DEFINE e == Ended(d)[r]
  <2>2. /\ e.mode = d[r].mode /\ e.slots = d[r].slots /\ e.active = d[r].active
        /\ e.fifo = d[r].fifo /\ e.count = 0
        /\ e.corr = IF r \in UE /\ job.call # "refnode" THEN FALSE ELSE d[r].corr
    BY <2>1, EndedIs
  <2>3. dev'[r] = e
    OBVIOUS
  <2> HIDE DEF e
  <2> QED  BY <2>2, <2>3
<1>4. Settled'
  <2>1. ASSUME NEW r \in Radios PROVE Calm(r, dev[r])'
    <3>1. /\ d[r].fifo = <<>> /\ d[r].slots \in Seq(Marks)
          /\ r \in UE => d[r].mode # "once"
          /\ r \in Ref => ~d[r].active /\ Len(d[r].slots) <= 4
      BY <1>2 DEF Calm
    <3>2. /\ dev'[r].mode = d[r].mode /\ dev'[r].slots = d[r].slots
          /\ dev'[r].active = d[r].active /\ dev'[r].fifo = d[r].fifo /\ dev'[r].count = 0
      BY <1>3
    <3>3. dev'[r].fifo = <<>> /\ dev'[r].count \in Int /\ dev'[r].slots \in Seq(Marks)
      BY <3>1, <3>2
    <3>4. r \in UE' => dev'[r].mode # "once"
      BY <1>1, <3>1, <3>2
    <3>5. r \in Ref' => ~dev'[r].active /\ Len(dev'[r].slots) <= 4
      BY <1>1, <3>1, <3>2
    <3> QED  BY <3>3, <3>4, <3>5 DEF Calm
  <2> QED  BY <2>1 DEF Settled
<1>5. ASSUME NEW u \in UE PROVE ~dev'[u].corr
  <2>1. u \in Radios
    BY <1>1
  <2>2. CASE job.call = "refnode"
    <3>1. ~dev[u].corr
      BY <2>2 DEF CallInv, Deaf
    <3> QED  BY <1>2, <1>3, <2>1, <2>2, <3>1
  <2>3. CASE job.call # "refnode"
    BY <1>3, <2>1, <2>3
  <2> QED  BY <2>2, <2>3
<1>6. Deaf'
  BY <1>1, <1>5 DEF Deaf
<1> QED  BY <1>4, <1>6

\* A frame is done: the call goes on or returns.
LEMMA FrameOver ==
  ASSUME Placed, Driver, tool' = tool, CallInv, phase = "call", NEW d, Kept(d), FrameDone(d)
  PROVE  Settled' /\ \/ phase' = "call" /\ CallInv'
                     \/ phase' = "ready" /\ Deaf'
<1>1. CASE job.left > 1
  <2>1. /\ job' = [job EXCEPT !.left = @ - 1, !.try = 1, !.old = [u \in UE |-> 0]]
        /\ dev' = d /\ phase' = phase
    BY <1>1 DEF FrameDone
  <2>2. DOMAIN job' = CallFields /\ job'.call = job.call
    BY <2>1 DEF CallInv, CallFields
  <2>3. Kept(dev')
    BY <2>1 DEF Kept, AsBefore
  <2> QED  BY <2>1, <2>2, <2>3, CallGoesOn
<1>2. CASE ~(job.left > 1)
  <2>1. dev' = Ended(d) /\ phase' = "ready"
    BY <1>2 DEF FrameDone
  <2> QED  BY <2>1, CallOver
<1> QED  BY <1>1, <1>2

\* Radios that have been given a schedule are calm.
LEMMA ConfiguredCalm ==
  ASSUME Placed, Driver, Shape, Settled, NEW sched \in Schedules, NEW readers \in {BS, UE, {}},
         NEW r \in Radios
  PROVE  Calm(r, Configured(sched, readers)[r])
<1> DEFINE d == Configured(sched, readers)[r]
<1>1. ConfiguredAs(r, d, sched, readers)
  BY ConfiguredIs
<1> HIDE DEF d
<1>2. Calm(r, dev[r])
  BY DEF Settled
<1>3. CASE r \notin DOMAIN sched
  <2>1. d = dev[r]
    BY <1>1, <1>3 DEF ConfiguredAs
  <2> QED  BY <1>2, <2>1 DEF d
<1>4. CASE r \in DOMAIN sched
  <2>1. sched[r] \in Seq(Marks) /\ (r \in Ref => Len(sched[r]) <= 4)
    BY <1>4, ScheduleMarks
  <2>2. /\ d.fifo = <<>> /\ d.count \in Int /\ d.slots \in Seq(Marks)
        /\ r \in UE => d.mode = "beacon"
        /\ r \in Ref => Len(d.slots) <= 4
        /\ d.active <=> dev[r].active \/ r \in readers
    BY <1>1, <1>2, <1>4, <2>1 DEF ConfiguredAs, Calm
  <2>3. r \in Ref => ~dev[r].active /\ r \notin readers
    <3>1. BS \cap Ref = {} /\ UE \cap Ref = {}
      BY DriverRadios
    <3> QED  BY <1>2, <3>1 DEF Calm
  <2>4. Calm(r, d)
    BY <2>2, <2>3 DEF Calm
  <2> QED  BY <2>4 DEF d
<1> QED  BY <1>3, <1>4

\* A call that begins gives the radios its schedule.
LEMMA CallBegins ==
  ASSUME Placed, Driver, Shape, Settled, Deaf, tool' = tool,
         TxrxUplink \/ TxrxDownlink \/ TxrxDlSound \/ TxrxRefnode
  PROVE  Settled' /\ CallInv' /\ phase' = "call" /\ out' = <<>>
<1>1. /\ BS' = BS /\ UE' = UE /\ Ref' = Ref /\ BS \cup UE \subseteq Radios
      /\ BS \cap UE = {} /\ UE \cap Ref = {}
  BY SchedulesSame, DriverRadios
<1>2. PICK c \in {"uplink", "downlink", "sound", "refnode"}, readers \in {BS, UE} :
        /\ Begin(c, IF c = "refnode" THEN RefNode ELSE Schedule(c), readers)
        /\ c = "sound" => tool.ue = 1
  BY DEF TxrxUplink, TxrxDownlink, TxrxDlSound, TxrxRefnode, Schedule
<1> DEFINE sched == IF c = "refnode" THEN RefNode ELSE Schedule(c)
<1>3. sched \in Schedules
  BY DEF Schedules, Schedule
<1>4. /\ phase' = "call" /\ out' = <<>> /\ dev' = Configured(sched, readers)
      /\ DOMAIN job' = CallFields /\ job'.call = c
  BY <1>2 DEF Begin, CallFields
<1>12. c = "refnode" => sched = RefNode
  OBVIOUS
<1>13. c # "refnode" => sched = Schedule(c)
  OBVIOUS
<1> HIDE DEF sched
<1>5. \A r \in Radios : Calm(r, dev'[r]) /\ ConfiguredAs(r, dev'[r], sched, readers)
  BY <1>3, <1>4, ConfiguredCalm, ConfiguredIs
<1>6. Settled'
  BY <1>1, <1>5 DEF Settled, Calm
<1>7. CASE c = "refnode"
  <2>1. UE \cap DOMAIN sched = {}
    BY <1>1, <1>7, <1>12, SchedulesOf
  <2>2. \A u \in UE : dev'[u] = dev[u]
    BY <1>1, <1>5, <2>1 DEF ConfiguredAs
  <2>3. Deaf'
    BY <1>1, <2>2 DEF Deaf
  <2>4. CallInv'
    BY <1>4, <1>7, <2>3 DEF CallInv
  <2> QED  BY <1>4, <1>6, <2>4
<1>8. CASE c # "refnode"
  <2>1. sched = Schedule(c) /\ Schedule(c)' = Schedule(c)
    BY <1>8, <1>13, SchedulesSame
  <2>2. DOMAIN sched \subseteq BS \cup UE
    BY <1>8, <2>1, SchedulesOf DEF Schedule
  <2>3. ASSUME NEW r \in DOMAIN sched
        PROVE  dev'[r].slots = sched[r] /\ (r \in BS => dev'[r].mode = "once")
    BY <1>1, <1>5, <2>2 DEF ConfiguredAs
  <2>4. Planned(c)'
    BY <1>1, <2>1, <2>3 DEF Planned
  <2>5. CallInv'
    <3>1. Planned(job.call)'
      BY <1>4, <2>4
    <3>2. (job.call = "sound" => tool.ue = 1)'
      BY <1>2, <1>4
    <3> QED  BY <1>4, <1>8, <3>1, <3>2 DEF CallInv
  <2> QED  BY <1>4, <1>6, <2>5
<1> QED  BY <1>7, <1>8

-----------------------------------------------------------------------------
(* mimo_driver.py: the gains returned are the last of the best *)

\* The best so far is the last of those with the most triggers.
LastBest(seen, best, max) ==
  /\ \A j \in DOMAIN seen : seen[j].new \in Int /\ seen[j].new <= max
  /\ best # <<>> =>
       max > 0 /\ \E i \in DOMAIN seen : /\ seen[i] = [gains |-> best, new |-> max]
                                         /\ \A j \in i + 1 .. Len(seen) : seen[j].new < max
GainFields == {"call", "calls", "frames", "rest", "old", "owed", "best", "current_max", "seen"}
GainsInv ==
  /\ DOMAIN job = GainFields /\ job.call = "gains"
  /\ job.frames \in Int /\ job.old \in Int /\ job.owed \in Int /\ job.current_max \in Nat
  /\ \E X : job.seen \in Seq(X)
  /\ LastBest(job.seen, job.best, job.current_max)

\* One more combination.
LEMMA BestSoFar ==
  ASSUME NEW X, NEW seen \in Seq(X), NEW best, NEW max \in Nat, LastBest(seen, best, max),
         NEW gains, NEW new \in Int, NEW better, better <=> new # 0 /\ new >= max
  PROVE  LET now == IF better THEN new ELSE max
         IN  now \in Nat /\ LastBest(Append(seen, [gains |-> gains, new |-> new]),
                                     IF better THEN gains ELSE best, now)
<1> DEFINE e   == [gains |-> gains, new |-> new]
           all == Append(seen, e)
           now == IF better THEN new ELSE max
           top == IF better THEN gains ELSE best
<1>1. e.new = new /\ e = [gains |-> gains, new |-> new]
  OBVIOUS
<1>2. now \in Nat /\ now >= max /\ new <= now /\ (better => now = new /\ now > 0 /\ top = gains)
      /\ (~better => now = max /\ top = best)
  OBVIOUS
<1> HIDE DEF e
<1>3. seen \in Seq(X \cup {e}) /\ e \in X \cup {e} /\ Len(seen) \in Nat
  OBVIOUS
<1>4. /\ DOMAIN all = 1 .. Len(seen) + 1 /\ Len(all) = Len(seen) + 1
      /\ DOMAIN seen = 1 .. Len(seen)
      /\ \A j \in 1 .. Len(seen) : all[j] = seen[j]
      /\ all[Len(seen) + 1] = e
  BY <1>3
<1> HIDE DEF all, now, top
<1>5. ASSUME NEW j \in DOMAIN all PROVE all[j].new \in Int /\ all[j].new <= now
  <2>1. CASE j \in 1 .. Len(seen)
    <3>1. all[j] = seen[j] /\ seen[j].new \in Int /\ seen[j].new <= max
      BY <1>4, <2>1 DEF LastBest
    <3> QED  BY <1>2, <3>1
  <2>2. CASE j = Len(seen) + 1
    BY <1>1, <1>2, <1>4, <2>2
  <2>3. j \in 1 .. Len(seen) \/ j = Len(seen) + 1
    BY <1>3, <1>4
  <2> QED  BY <2>1, <2>2, <2>3
<1>6. ASSUME top # <<>>
      PROVE  now > 0 /\ \E i \in DOMAIN all : /\ all[i] = [gains |-> top, new |-> now]
                                              /\ \A j \in i + 1 .. Len(all) : all[j].new < now
  <2>1. CASE better
    <3>1. Len(seen) + 1 \in DOMAIN all /\ all[Len(seen) + 1] = [gains |-> top, new |-> now]
      BY <1>1, <1>2, <1>3, <1>4, <2>1
    <3>2. \A j \in (Len(seen) + 1) + 1 .. Len(all) : FALSE
      BY <1>3, <1>4
    <3> QED  BY <1>2, <2>1, <3>1, <3>2
  <2>2. CASE ~better
    <3>1. max > 0 /\ now = max /\ top = best /\ new < now
      <4>1. max > 0 /\ now = max /\ top = best
        BY <1>2, <1>6, <2>2 DEF LastBest
      <4> QED  BY <2>2, <4>1
    <3>2. PICK i \in DOMAIN seen : /\ seen[i] = [gains |-> best, new |-> max]
                                   /\ \A j \in i + 1 .. Len(seen) : seen[j].new < max
      BY <1>6, <3>1 DEF LastBest
    <3>3. i \in DOMAIN all /\ all[i] = [gains |-> top, new |-> now]
      BY <1>3, <1>4, <3>1, <3>2
    <3>4. ASSUME NEW j \in i + 1 .. Len(all) PROVE all[j].new < now
      <4>1. CASE j \in i + 1 .. Len(seen)
        <5>1. j \in 1 .. Len(seen)
          BY <1>3, <1>4, <4>1
        <5> QED  BY <1>4, <3>1, <3>2, <4>1, <5>1
      <4>2. CASE j = Len(seen) + 1
        BY <1>1, <1>4, <3>1, <4>2
      <4>3. j \in i + 1 .. Len(seen) \/ j = Len(seen) + 1
        BY <1>3, <1>4
      <4> QED  BY <4>1, <4>2, <4>3
    <3> QED  BY <3>1, <3>3, <3>4
  <2> QED  BY <2>1, <2>2
<1>7. now \in Nat /\ LastBest(all, top, now)
  BY <1>2, <1>5, <1>6 DEF LastBest
<1> QED  BY <1>7 DEF all, now, top, e

\* A combination is tried, and its triggers are counted.
LEMMA GainsGoOn ==
  ASSUME Placed, Driver, Shape, Settled, GainsInv, tool' = tool, Combination
  PROVE  Settled' /\ GainsInv' /\ phase' = "gains" /\ out' = out
<1>1. phase' = "gains" /\ out' = out
  BY DEF Combination
<1> DEFINE user == tool.bs + 1
<1>2. user \in Radios /\ dev[user].count \in Int
  <2>1. tool.bs \in Nat /\ tool.ue \in Nat /\ tool.ueChan \in {1, 2} /\ UE \subseteq Radios
    BY DriverRadios
  <2>2. n_users = 1
    BY DEF Combination
  <2>3. tool.ue # 0
    <3>1. 0 * tool.ueChan = 0
      BY <2>1
    <3> QED  BY <2>2, <3>1 DEF n_users
  <2>4. user \in UE
    BY <2>1, <2>3 DEF UE
  <2> QED  BY <2>1, <2>4 DEF Settled, Calm
<1>3. PICK hits \in 0 .. job.frames : \E late \in 0 .. Min({1, hits}) :
        LET count == dev[user].count + job.owed + hits - late
            new == count - job.old
        IN  /\ job' = [job EXCEPT
                         !.rest = Tail(@), !.old = count, !.owed = late,
                         !.seen = Append(@, [gains |-> Head(job.rest), new |-> new]),
                         !.best = IF Better(new) THEN Head(job.rest) ELSE @,
                         !.current_max = IF Better(new) THEN new ELSE @]
            /\ dev' = [dev EXCEPT ![user].count = count]
  BY DEF Combination
<1>4. hits \in Int /\ Min({1, hits}) \in Int
  <2>1. job.frames \in Int
    BY DEF GainsInv
  <2>2. hits \in Int
    BY <2>1
  <2>3. Min({1, hits}) = IF 1 <= hits THEN 1 ELSE hits
    BY <2>2, MinOfTwo
  <2> QED  BY <2>2, <2>3
<1>5. PICK late \in 0 .. Min({1, hits}) :
        LET count == dev[user].count + job.owed + hits - late
            new == count - job.old
        IN  /\ job' = [job EXCEPT
                         !.rest = Tail(@), !.old = count, !.owed = late,
                         !.seen = Append(@, [gains |-> Head(job.rest), new |-> new]),
                         !.best = IF Better(new) THEN Head(job.rest) ELSE @,
                         !.current_max = IF Better(new) THEN new ELSE @]
            /\ dev' = [dev EXCEPT ![user].count = count]
  BY <1>3
<1> DEFINE count == dev[user].count + job.owed + hits - late
           new == count - job.old
           gains == Head(job.rest)
           better == Better(new)
<1>6. late \in Int /\ count \in Int /\ new \in Int
  <2>1. late \in Int /\ job.owed \in Int /\ job.old \in Int
    BY <1>4 DEF GainsInv
  <2> QED  BY <1>2, <1>4, <2>1
<1>7. /\ job' = [job EXCEPT !.rest = Tail(@), !.old = count, !.owed = late,
                            !.seen = Append(@, [gains |-> gains, new |-> new]),
                            !.best = IF better THEN gains ELSE @,
                            !.current_max = IF better THEN new ELSE @]
      /\ dev' = [dev EXCEPT ![user].count = count]
  BY <1>5
<1>8. better <=> new # 0 /\ new >= job.current_max
  BY DEF Better
<1> HIDE DEF user, count, new, gains, better
<1>9. /\ DOMAIN job' = GainFields /\ job'.call = "gains" /\ job'.frames = job.frames
      /\ job'.old = count /\ job'.owed = late
      /\ job'.seen = Append(job.seen, [gains |-> gains, new |-> new])
      /\ job'.best = IF better THEN gains ELSE job.best
      /\ job'.current_max = IF better THEN new ELSE job.current_max
  BY <1>7 DEF GainsInv, GainFields
<1>10. GainsInv'
  <2>1. PICK X : job.seen \in Seq(X)
    BY DEF GainsInv
  <2>2. job.current_max \in Nat /\ LastBest(job.seen, job.best, job.current_max) /\ job.frames \in Int
    BY DEF GainsInv
  <2>3. job'.current_max \in Nat /\ LastBest(job'.seen, job'.best, job'.current_max)
    BY <1>6, <1>8, <1>9, <2>1, <2>2, BestSoFar
  <2>4. \E Y : job'.seen \in Seq(Y)
    <3> DEFINE e == [gains |-> gains, new |-> new]
    <3>1. job'.seen = Append(job.seen, e)
      BY <1>9
    <3> HIDE DEF e
    <3>2. Append(job.seen, e) \in Seq(X \cup {e})
      BY <2>1
    <3> QED  BY <3>1, <3>2
  <2>5. LastBest(job.seen, job.best, job.current_max)'
    BY <2>3 DEF LastBest
  <2> QED  BY <1>6, <1>9, <2>2, <2>3, <2>4, <2>5 DEF GainsInv
<1>11. Settled'
  <2>1. BS' = BS /\ UE' = UE /\ Ref' = Ref
    BY SchedulesSame
  <2>2. ASSUME NEW r \in Radios PROVE Calm(r, dev[r])'
    <3>1. Shaped(dev[r]) /\ DOMAIN dev = Radios /\ Calm(r, dev[r])
      BY DEF Shape, Settled
    <3>2. dev'[r] = IF r = user THEN [dev[r] EXCEPT !.count = count] ELSE dev[r]
      BY <1>7, <3>1
    <3>3. /\ dev'[r].fifo = dev[r].fifo /\ dev'[r].slots = dev[r].slots /\ dev'[r].mode = dev[r].mode
          /\ dev'[r].active = dev[r].active /\ dev'[r].count \in {dev[r].count, count}
      BY <3>1, <3>2 DEF Shaped, Fields
    <3> QED  BY <1>6, <2>1, <3>1, <3>3 DEF Calm
  <2> QED  BY <2>2 DEF Settled
<1> QED  BY <1>1, <1>10, <1>11

-----------------------------------------------------------------------------
(* mimo_driver.py: frames that are returned as good are good *)

\* Between calls and between tries queues are empty; between calls no user waits for the
\* beacon, and in a call the radios have its schedule.
DriverInv ==
  Driver =>
    /\ OutInv
    /\ phase \notin {"over", "stopped"} => Settled
    /\ phase \in {"start", "ready"} => Deaf
    /\ phase = "call" => CallInv
    /\ phase = "gains" => GainsInv

\* A try is one of those the proofs are about.
TryAs(t, heard, lost, loud) ==
  /\ t.dev = AfterRead(Played(heard, lost))
  /\ t.good => \A r \in Readers : ~Low(Got(Played(heard, lost), r), Expected(r), loud)
  /\ Entry(t) = TryEntry(heard, lost, loud)
\* Every try is one with beacons heard, symbols lost and a noise level.
LEMMA TryOf ==
  ASSUME NEW t \in Tries
  PROVE  \E heard \in SUBSET Listening, lost \in Losses, loud \in BOOLEAN : TryAs(t, heard, lost, loud)
<1>1. PICK heard \in SUBSET Listening, lost \in Losses, loud \in BOOLEAN, weak \in BOOLEAN :
        t = [dev  |-> AfterRead(Played(heard, lost)),
             good |-> verify_signal_quality(Played(heard, lost), loud, weak),
             data |-> [r \in Readers |-> recv_stream_tdd(Played(heard, lost), r)],
             loud |-> loud]
  BY DEF Tries
<1>2. /\ t.dev = AfterRead(Played(heard, lost)) /\ t.loud = loud
      /\ t.good = verify_signal_quality(Played(heard, lost), loud, weak)
      /\ t.data = [r \in Readers |-> recv_stream_tdd(Played(heard, lost), r)]
  BY <1>1
<1>3. t.good => \A r \in Readers : ~Low(Got(Played(heard, lost), r), Expected(r), loud)
  BY <1>2 DEF verify_signal_quality
<1>4. Entry(t) = TryEntry(heard, lost, loud)
  BY <1>2 DEF Entry, TryEntry
<1>5. TryAs(t, heard, lost, loud)
  BY <1>2, <1>3, <1>4 DEF TryAs
<1> QED  BY <1>5

\* A frame that is no set of gains is right about them.
LEMMA EntryNoGains ==
  ASSUME CallInv, NEW heard, NEW lost, NEW loud PROVE GainsRight(TryEntry(heard, lost, loud))
<1> DEFINE e == TryEntry(heard, lost, loud)
<1>1. e.call = job.call
  BY DEF TryEntry
<1> HIDE DEF e
<1>2. e.call # "gains"
  BY <1>1 DEF CallInv
<1>3. GainsRight(e)
  BY <1>2 DEF GainsRight
<1> QED  BY <1>3 DEF e

\* A try of a call: what is kept is right, and no queue keeps anything.
LEMMA TryStep ==
  ASSUME Placed, Driver, tool' = tool, QuietInv, DriverInv, UplinkTry \/ DownlinkTry \/ SoundTry
  PROVE  DriverInv'
<1>1. /\ phase = "call" /\ job.call \in {"uplink", "downlink", "sound"} /\ OutInv /\ Settled /\ CallInv
  BY DEF DriverInv, UplinkTry, DownlinkTry, SoundTry, Trying
<1>2. PICK t \in Tries : \E fails, old : Outcome(t, fails, old) /\ (TooManyUsers => fails)
  BY DEF UplinkTry, DownlinkTry, SoundTry
<1>3. PICK fails, old : Outcome(t, fails, old) /\ (TooManyUsers => fails)
  BY <1>2
<1>4. PICK heard \in SUBSET Listening, lost \in Losses, loud \in BOOLEAN : TryAs(t, heard, lost, loud)
  BY TryOf
<1>5. Kept(t.dev)
  BY <1>1, <1>4, TryKept DEF TryAs
<1>6. CASE fails
  <2>1. phase' = "stopped" /\ out' = out
    BY <1>3, <1>6 DEF Outcome
  <2>2. OutInv'
    BY <1>1, <2>1, OutKept
  <2> QED  BY <2>1, <2>2 DEF DriverInv
<1>7. CASE ~fails /\ t.good /\ Triggered(t)
  <2>1. out' = Append(out, Entry(t)) /\ FrameDone(t.dev)
    BY <1>3, <1>7 DEF Outcome
  <2>2. FrameRight(Entry(t)) /\ GainsRight(Entry(t))
    <3>1. ~TooManyUsers /\ job.call # "refnode"
      BY <1>1, <1>3, <1>7
    <3>2. \A r \in Readers : ~Low(Got(Played(heard, lost), r), Expected(r), loud)
      BY <1>4, <1>7 DEF TryAs
    <3>3. FrameRight(TryEntry(heard, lost, loud))
      BY <1>1, <3>1, <3>2, TryRight
    <3> QED  BY <1>1, <1>4, <3>3, EntryNoGains DEF TryAs
  <2>3. OutInv'
    BY <1>1, <2>1, <2>2, OutKept
  <2>4. Settled' /\ ((phase' = "call" /\ CallInv') \/ (phase' = "ready" /\ Deaf'))
    BY <1>1, <1>5, <2>1, FrameOver
  <2> QED  BY <2>3, <2>4 DEF DriverInv
<1>8. CASE /\ ~fails /\ out' = out /\ phase' = phase
           /\ job' = [job EXCEPT !.try = @ + 1, !.old = old] /\ dev' = t.dev
  <2>2. DOMAIN job' = CallFields /\ job'.call = job.call
    BY <1>1, <1>8 DEF CallInv, CallFields
  <2>3. Kept(dev')
    BY <1>5, <1>8 DEF Kept, AsBefore
  <2>4. Settled' /\ CallInv'
    BY <1>1, <2>2, <2>3, CallGoesOn
  <2>5. OutInv'
    BY <1>1, <1>8, OutKept
  <2> QED  BY <1>1, <1>8, <2>4, <2>5 DEF DriverInv
<1>9. CASE ~fails /\ FrameDone(t.dev) /\ out' = out
  <2>1. Settled' /\ ((phase' = "call" /\ CallInv') \/ (phase' = "ready" /\ Deaf'))
    BY <1>1, <1>5, <1>9, FrameOver
  <2>2. OutInv'
    BY <1>1, <1>9, OutKept
  <2> QED  BY <2>1, <2>2 DEF DriverInv
<1> QED  BY <1>3, <1>6, <1>7, <1>8, <1>9 DEF Outcome

\* A frame of the reference nodes: it is kept, whatever has come.
LEMMA RefStep ==
  ASSUME Placed, Driver, tool' = tool, QuietInv, DriverInv, RefFrame
  PROVE  DriverInv'
<1>1. phase = "call" /\ job.call = "refnode" /\ OutInv /\ Settled /\ CallInv
  BY DEF DriverInv, RefFrame
<1>2. PICK t \in Tries : out' = Append(out, Entry(t)) /\ FrameDone(t.dev)
  BY DEF RefFrame
<1>3. PICK heard \in SUBSET Listening, lost \in Losses, loud \in BOOLEAN : TryAs(t, heard, lost, loud)
  BY TryOf
<1>4. Kept(t.dev)
  BY <1>1, <1>3, TryKept DEF TryAs
<1>5. FrameRight(Entry(t)) /\ GainsRight(Entry(t))
  <2>1. Entry(t).call = "refnode"
    BY <1>1, <1>3 DEF TryAs, TryEntry
  <2> QED  BY <2>1 DEF FrameRight, GainsRight
<1>6. OutInv'
  BY <1>1, <1>2, <1>5, OutKept
<1>7. Settled' /\ ((phase' = "call" /\ CallInv') \/ (phase' = "ready" /\ Deaf'))
  BY <1>1, <1>2, <1>4, FrameOver
<1> QED  BY <1>6, <1>7 DEF DriverInv

\* Opening the radios leaves them calm.
LEMMA OpenStep ==
  ASSUME Placed, Driver, tool' = tool, Shape, DriverInv, MimoInit PROVE DriverInv'
<1>1. BS' = BS /\ UE' = UE /\ Ref' = Ref /\ UE \subseteq Radios
  BY SchedulesSame, DriverRadios
<1>2. OutInv /\ Settled /\ Deaf
  BY DEF MimoInit, DriverInv
<1>3. /\ out' = out /\ phase' \in {"stopped", "ready"}
      /\ \A r \in Radios : dev'[r] = IF r \in BS \cup UE \cup Ref THEN Opened(dev[r]) ELSE dev[r]
  BY DEF MimoInit
<1>4. \A r \in Radios : Shaped(dev[r]) /\ Calm(r, dev[r])
  BY <1>2 DEF Shape, Settled
<1>5. ASSUME NEW r \in Radios
      PROVE  /\ dev'[r].fifo = <<>> /\ dev'[r].slots = dev[r].slots /\ dev'[r].corr = dev[r].corr
             /\ dev'[r].count \in Int /\ (r \in UE => dev'[r].mode # "once")
             /\ (r \in Ref => ~dev'[r].active)
  <2>1. CASE r \in BS \cup UE \cup Ref
    <3> DEFINE o == Opened(dev[r])
    <3>1. o.mode = "off" /\ o.count = 0 /\ o.fifo = <<>> /\ o.slots = dev[r].slots /\ ~o.active /\ o.corr = dev[r].corr
      BY <1>4, OpenedIs
    <3>2. dev'[r] = o
      BY <1>3, <2>1
    <3> HIDE DEF o
    <3> QED  BY <3>1, <3>2
  <2>2. CASE r \notin BS \cup UE \cup Ref
    BY <1>3, <1>4, <2>2 DEF Calm
  <2> QED  BY <2>1, <2>2
<1>6. Settled'
  BY <1>1, <1>4, <1>5 DEF Settled, Calm
<1>7. Deaf'
  BY <1>1, <1>2, <1>5 DEF Deaf
<1>8. OutInv'
  BY <1>2, <1>3, OutKept
<1> QED  BY <1>3, <1>6, <1>7, <1>8 DEF DriverInv

\* The gains: the call, its failure, and its result.
LEMMA GainsStep ==
  ASSUME Placed, Driver, tool' = tool, Shape, DriverInv,
         SetOptGains \/ GainsFail \/ Combination \/ GainsDone
  PROVE  DriverInv'
<1>1. BS' = BS /\ UE' = UE /\ Ref' = Ref /\ UE \subseteq Radios
  BY SchedulesSame, DriverRadios
<1>2. CASE SetOptGains
  <2>1. PICK frames \in 0 .. 2 :
          /\ phase' = "gains" /\ out' = <<>> /\ dev' = Configured(GainTest, UE)
          /\ job' = [call |-> "gains", calls |-> job.calls + 1, frames |-> frames,
                     rest |-> Combinations, old |-> 0, owed |-> 0,
                     best |-> <<>>, current_max |-> 0, seen |-> <<>>]
    BY <1>2 DEF SetOptGains
  <2>2. OutInv /\ Settled
    BY <1>2 DEF SetOptGains, Enter, DriverInv
  <2>3. \A r \in Radios : Calm(r, dev'[r])
    BY <2>1, <2>2, ConfiguredCalm DEF Schedules
  <2>4. Settled'
    BY <1>1, <2>3 DEF Settled, Calm
  <2>5. /\ DOMAIN job' = GainFields /\ job'.call = "gains" /\ job'.frames \in Int
        /\ job'.old = 0 /\ job'.owed = 0
        /\ job'.current_max = 0 /\ job'.best = <<>> /\ job'.seen = <<>>
    BY <2>1 DEF GainFields
  <2>6. <<>> \in Seq({}) /\ DOMAIN <<>> = {}
    OBVIOUS
  <2>7. LastBest(job'.seen, job'.best, job'.current_max)
    BY <2>5, <2>6 DEF LastBest
  <2>8. GainsInv'
    BY <2>5, <2>6, <2>7 DEF GainsInv, LastBest
  <2>9. OutInv'
    BY <2>1, <2>2, OutKept
  <2> QED  BY <2>1, <2>4, <2>8, <2>9 DEF DriverInv
<1>3. CASE GainsFail
  <2>1. phase' = "stopped" /\ out' = out /\ OutInv
    BY <1>3 DEF GainsFail, DriverInv
  <2>2. OutInv'
    BY <2>1, OutKept
  <2> QED  BY <2>1, <2>2 DEF DriverInv
<1>4. CASE Combination
  <2>1. OutInv /\ Settled /\ GainsInv
    BY <1>4 DEF Combination, DriverInv
  <2>2. Settled' /\ GainsInv' /\ phase' = "gains" /\ out' = out
    BY <1>4, <2>1, GainsGoOn
  <2>3. OutInv'
    BY <2>1, <2>2, OutKept
  <2> QED  BY <2>2, <2>3 DEF DriverInv
<1>5. CASE GainsDone
  <2> DEFINE e == [call |-> "gains", best |-> job.best, current_max |-> job.current_max, seen |-> job.seen]
  <2>1. phase' = "ready" /\ out' = Append(out, e) /\ dev' = Ended(dev)
    BY <1>5 DEF GainsDone
  <2>2. OutInv /\ Settled /\ GainsInv
    BY <1>5 DEF GainsDone, DriverInv
  <2>3. e.call = "gains" /\ e.best = job.best /\ e.current_max = job.current_max /\ e.seen = job.seen
    OBVIOUS
  <2> HIDE DEF e
  <2>4. FrameRight(e) /\ GainsRight(e)
    <3>1. FrameRight(e)
      BY <2>3 DEF FrameRight
    <3>2. LastBest(e.seen, e.best, e.current_max)
      BY <2>2, <2>3 DEF GainsInv
    <3>3. (\A j \in DOMAIN e.seen : e.seen[j].new <= e.current_max)
      BY <3>2 DEF LastBest
    <3>4. GainsRight(e)
      BY <3>2, <3>3 DEF LastBest, GainsRight
    <3> QED  BY <3>1, <3>4
  <2>5. OutInv'
    BY <2>1, <2>2, <2>4, OutKept
  <2>6. ASSUME NEW r \in Radios
        PROVE  /\ dev'[r].mode = dev[r].mode /\ dev'[r].slots = dev[r].slots
               /\ dev'[r].active = dev[r].active /\ dev'[r].fifo = dev[r].fifo /\ dev'[r].count = 0
               /\ r \in UE => ~dev'[r].corr
    <3>1. \A s \in Radios : Shaped(dev[s])
      BY DEF Shape
    <3> DEFINE f == Ended(dev)[r]
    <3>2. /\ f.mode = dev[r].mode /\ f.slots = dev[r].slots /\ f.active = dev[r].active
          /\ f.fifo = dev[r].fifo /\ f.count = 0
          /\ f.corr = IF r \in UE /\ job.call # "refnode" THEN FALSE ELSE dev[r].corr
      BY <3>1, EndedIs
    <3>3. dev'[r] = f /\ job.call = "gains"
      BY <2>1, <2>2 DEF GainsInv
    <3> HIDE DEF f
    <3> QED  BY <3>2, <3>3
  <2>7. ASSUME NEW r \in Radios PROVE Calm(r, dev[r])'
    <3>1. Calm(r, dev[r])
      BY <2>2 DEF Settled
    <3> QED  BY <1>1, <2>6, <3>1 DEF Calm
  <2>8. Settled' /\ Deaf'
    BY <1>1, <2>6, <2>7 DEF Settled, Deaf
  <2> QED  BY <2>1, <2>5, <2>8 DEF DriverInv
<1> QED  BY <1>2, <1>3, <1>4, <1>5

\* A step of the driver keeps its invariant.
LEMMA DriverStep == ASSUME Placed, QuietInv, DriverInv, [Next]_toolVars PROVE DriverInv'
<1>0. tool' = tool
  BY PlacedStep
<1> SUFFICES ASSUME Driver PROVE DriverInv'
  BY <1>0 DEF DriverInv, Driver
<1>1. Shape
  BY DEF QuietInv
<1>2. OutInv
  BY DEF DriverInv
<1>3. CASE UNCHANGED toolVars
  <2>1. out' = out /\ dev' = dev /\ phase' = phase /\ job' = job
    BY <1>3 DEF toolVars
  <2>2. OutInv'
    BY <1>0, <1>2, <2>1, OutKept
  <2>3. BS' = BS /\ UE' = UE /\ Ref' = Ref
    BY <1>0, SchedulesSame
  <2>4. (Settled <=> Settled') /\ (Deaf <=> Deaf') /\ (GainsInv <=> GainsInv')
    BY <2>1, <2>3 DEF Settled, Calm, Deaf, GainsInv, LastBest
  <2>5. CallInv => CallInv'
    <3>1. SUFFICES ASSUME CallInv, job.call # "refnode" PROVE Planned(job.call)'
      BY <1>0, <2>1, <2>4 DEF CallInv
    <3>2. Schedule(job.call)' = Schedule(job.call) /\ Planned(job.call)
      BY <1>0, <2>1, <3>1, SchedulesSame DEF CallInv
    <3> QED  BY <2>1, <2>3, <3>2 DEF Planned
  <2> QED  BY <2>1, <2>2, <2>4, <2>5 DEF DriverInv
<1>4. CASE MimoInit
  BY <1>0, <1>1, <1>4, OpenStep
<1>5. CASE Refuse
  <2>1. out' = out /\ dev' = dev /\ phase' = phase /\ phase = "ready"
    BY <1>5 DEF Refuse, Enter
  <2>2. Settled /\ Deaf
    BY <2>1 DEF DriverInv
  <2>3. BS' = BS /\ UE' = UE /\ Ref' = Ref
    BY <1>0, SchedulesSame
  <2>4. Settled' /\ Deaf'
    BY <2>1, <2>2, <2>3 DEF Settled, Calm, Deaf
  <2>5. OutInv'
    BY <1>0, <1>2, <2>1, OutKept
  <2> QED  BY <2>1, <2>4, <2>5 DEF DriverInv
<1>6. CASE TxrxUplink \/ TxrxDownlink \/ TxrxDlSound \/ TxrxRefnode
  <2>1. phase = "ready"
    BY <1>6 DEF TxrxUplink, TxrxDownlink, TxrxDlSound, TxrxRefnode, Begin, Enter
  <2>2. Settled /\ Deaf
    BY <2>1 DEF DriverInv
  <2>3. Settled' /\ CallInv' /\ phase' = "call" /\ out' = <<>>
    BY <1>0, <1>1, <1>6, <2>2, CallBegins
  <2>4. OutInv'
    BY <1>0, <1>2, <2>3, OutKept
  <2> QED  BY <2>3, <2>4 DEF DriverInv
<1>7. CASE CallFails \/ Close
  <2>1. out' = out /\ phase' \in {"stopped", "over"}
    BY <1>7 DEF CallFails, Fail, Close
  <2>2. OutInv'
    BY <1>0, <1>2, <2>1, OutKept
  <2> QED  BY <2>1, <2>2 DEF DriverInv
<1>8. CASE UplinkTry \/ DownlinkTry \/ SoundTry
  BY <1>0, <1>8, TryStep
<1>9. CASE RefFrame
  BY <1>0, <1>9, RefStep
<1>10. CASE SetOptGains \/ GainsFail \/ Combination \/ GainsDone
  BY <1>0, <1>1, <1>10, GainsStep
<1> QED  BY <1>3, <1>4, <1>5, <1>6, <1>7, <1>8, <1>9, <1>10, OwnSteps DEF DriverSteps

\* The invariant is enough for what the driver hands out.
LEMMA DriverEnough == ASSUME Placed, DriverInv PROVE GoodFramesHeard
<1> SUFFICES ASSUME Driver, NEW e \in Range(out)
             PROVE  /\ e.call \in {"uplink", "downlink", "sound"} =>
                         \A r \in DOMAIN e.data :
                           LET places == InOrder(Places(Schedule(e.call)[r]))
                           IN  /\ DOMAIN e.data[r] = DOMAIN places
                               /\ \A i \in DOMAIN places :
                                    LET got == e.data[r][i]
                                    IN  /\ got.round = e.round /\ got.slot = places[i]
                                        /\ got.from \subseteq Turn(e, r, got.slot)
                                        /\ e.loud \/ e.still # {} \/ got.from = Turn(e, r, got.slot)
                    /\ GainsRight(e)
  BY DEF GoodFramesHeard, GainsRight
<1>1. FrameRight(e) /\ GainsRight(e)
  BY DEF DriverInv, OutInv, Range
<1> SUFFICES ASSUME e.call \in {"uplink", "downlink", "sound"}, NEW r \in DOMAIN e.data
             PROVE  LET places == InOrder(Places(Schedule(e.call)[r]))
                    IN  /\ DOMAIN e.data[r] = DOMAIN places
                        /\ \A i \in DOMAIN places :
                             LET got == e.data[r][i]
                             IN  /\ got.round = e.round /\ got.slot = places[i]
                                 /\ got.from \subseteq Turn(e, r, got.slot)
                                 /\ e.loud \/ e.still # {} \/ got.from = Turn(e, r, got.slot)
  BY <1>1
<1> DEFINE S == Places(Schedule(e.call)[r])
           places == InOrder(S)
<1>2. DOMAIN places = 1 .. Cardinality(S) /\ \A i \in 1 .. Cardinality(S) : places[i] = Nth(S, i)
  BY DEF InOrder
<1>3. /\ DOMAIN e.data[r] = 1 .. Cardinality(S)
      /\ \A i \in 1 .. Cardinality(S) : SymbolRight(e, r, Nth(S, i), e.data[r][i])
  BY <1>1 DEF FrameRight
<1> HIDE DEF S, places
<1>4. ASSUME NEW i \in DOMAIN places
      PROVE  /\ e.data[r][i].round = e.round /\ e.data[r][i].slot = places[i]
             /\ e.data[r][i].from \subseteq Turn(e, r, e.data[r][i].slot)
             /\ e.loud \/ e.still # {} \/ e.data[r][i].from = Turn(e, r, e.data[r][i].slot)
  <2>1. SymbolRight(e, r, places[i], e.data[r][i])
    BY <1>2, <1>3
  <2> QED  BY <2>1 DEF SymbolRight
<1> QED  BY <1>2, <1>3, <1>4 DEF places, S

\* The frames a call returns as good are whole, of the try they were accepted in and sent
\* by those whose turn it was; the gains are the last of the best.
THEOREM GoodFramesAlways == Spec => []GoodFramesHeard
<1>1. Init => Placed /\ QuietInv /\ DriverInv
  <2> SUFFICES ASSUME Init PROVE Placed /\ QuietInv /\ DriverInv
    OBVIOUS
  <2>1. Placed /\ QuietInv
    BY QuietInit
  <2>2. phase = "start" /\ out = <<>> /\ \A r \in Radios : dev[r] = Idle
    BY DEF Init
  <2>3. ASSUME Driver PROVE OutInv /\ Settled /\ Deaf
    <3>1. <<>> \in Seq({}) /\ DOMAIN <<>> = {} /\ <<>> \in Seq(Marks) /\ Len(<<>>) = 0
      OBVIOUS
    <3>2. OutInv
      BY <2>2, <3>1 DEF OutInv
    <3>3. Idle.fifo = <<>> /\ Idle.count = 0 /\ Idle.slots = <<>> /\ Idle.mode = "off" /\ Idle.active = FALSE /\ Idle.corr = FALSE
      BY DEF Idle
    <3> DEFINE none == Idle
    <3>6. none.fifo = <<>> /\ none.count = 0 /\ none.slots = <<>> /\ none.mode = "off" /\ none.active = FALSE
      BY <3>3
    <3>7. \A r \in Radios : dev[r] = none
      BY <2>2
    <3> HIDE DEF none
    <3>4. Settled
      <4> SUFFICES ASSUME NEW r \in Radios PROVE Calm(r, dev[r])
        BY DEF Settled
      <4>1. dev[r].fifo = <<>> /\ dev[r].count = 0 /\ dev[r].slots = <<>> /\ dev[r].mode = "off" /\ dev[r].active = FALSE
        BY <3>6, <3>7
      <4> QED  BY <3>1, <4>1 DEF Calm
    <3>5. Deaf
      BY <2>1, <2>2, <2>3, <3>3, DriverRadios DEF Deaf
    <3> QED  BY <3>2, <3>4, <3>5
  <2> QED  BY <2>1, <2>2, <2>3 DEF DriverInv
<1>2. Placed /\ QuietInv /\ DriverInv /\ [Next]_toolVars => Placed' /\ QuietInv' /\ DriverInv'
  BY PlacedStep, QuietStep, DriverStep
<1>3. Placed /\ DriverInv => GoodFramesHeard
  BY DriverEnough
<1> QED  BY <1>1, <1>2, <1>3, PTL DEF Spec

-----------------------------------------------------------------------------
(* SOUNDER_TXRX.py: the schedules of the base station and of the client *)

\* A mark, so many times; no mark for a negative number.
LEMMA RepeatIs ==
  ASSUME NEW c \in Marks, NEW n \in Int
  PROVE  /\ RepeatOf(c, n) \in Seq(Marks)
         /\ Len(RepeatOf(c, n)) = IF n < 0 THEN 0 ELSE n
         /\ \A i \in 1 .. Len(RepeatOf(c, n)) : RepeatOf(c, n)[i] = c
<1> DEFINE m == IF n < 0 THEN 0 ELSE n
<1>1. 1 .. n = 1 .. m /\ m \in Nat
  OBVIOUS
<1>2. RepeatOf(c, n) = [i \in 1 .. m |-> c]
  BY <1>1 DEF RepeatOf
<1> HIDE DEF m
<1>3. [i \in 1 .. m |-> c] \in Seq(Marks) /\ Len([i \in 1 .. m |-> c]) = m
  BY <1>1
<1>4. /\ RepeatOf(c, n) \in Seq(Marks) /\ Len(RepeatOf(c, n)) = m
      /\ \A i \in 1 .. Len(RepeatOf(c, n)) : RepeatOf(c, n)[i] = c
  BY <1>2, <1>3
<1> QED  BY <1>4 DEF m

\* The pilot is in slot 3, and the data behind the gap; the rest is no one's.
SoundPlan(x, a, b) == <<x, "G", a>> \o Gap \o RepeatOf(b, tool.data) \o <<"G">>
GapLen == Len(Gap)
PlanHas(s, x, a, b) ==
  /\ s \in Seq(Marks) /\ Len(s) = GapLen + tool.data + 4 /\ s[1] = x /\ s[3] = a
  /\ \A j \in 1 .. tool.data : s[3 + GapLen + j] = b
  /\ \A k \in 1 .. GapLen + tool.data + 4 :
       k = 3 \/ (\E j \in 1 .. tool.data : k = 3 + GapLen + j) \/ s[k] \in {"B", "G"}
\* Where the marks of such a schedule are.
LEMMA SoundPlanIs ==
  ASSUME Placed, Sounder, NEW x \in {"B", "G"}, NEW a \in Marks, NEW b \in Marks
  PROVE  PlanHas(SoundPlan(x, a, b), x, a, b)
<1> DEFINE d == tool.data
           g == GapLen
           h == <<x, "G", a>>
           t == RepeatOf(b, d)
           p == h \o Gap
           q == p \o t
           e == <<"G">>
           s == q \o e
<1>1. d \in Nat /\ tool.syms \in Nat
  BY LabAssumption DEF Placed, Sounder
<1>2. Gap \in Seq(Marks) /\ g \in Nat /\ (\A i \in 1 .. g : Gap[i] = "G")
  <2>1. tool.syms - tool.data - 4 \in Int /\ "G" \in Marks
    BY <1>1 DEF Marks
  <2>2. /\ Gap \in Seq(Marks) /\ \A i \in 1 .. Len(Gap) : Gap[i] = "G"
    BY <2>1, RepeatIs DEF Gap
  <2> QED  BY <2>2 DEF GapLen
<1>3. t \in Seq(Marks) /\ Len(t) = d /\ (\A i \in 1 .. d : t[i] = b)
  <2>1. d \in Int /\ ~(d < 0)
    BY <1>1
  <2> HIDE DEF d
  <2> QED  BY <2>1, RepeatIs
<1>4. h \in Seq(Marks) /\ Len(h) = 3 /\ h[1] = x /\ h[2] = "G" /\ h[3] = a
  BY DEF Marks
<1>5. e \in Seq(Marks) /\ Len(e) = 1 /\ e[1] = "G"
  BY DEF Marks
<1>6. SoundPlan(x, a, b) = s
  BY DEF SoundPlan
<1>7. Len(Gap) = g
  BY DEF GapLen
<1> HIDE DEF d, g, h, t, e
<1>8. /\ p \in Seq(Marks) /\ Len(p) = 3 + g /\ p[1] = x /\ p[2] = "G" /\ p[3] = a
      /\ \A i \in 1 .. g : p[3 + i] = "G"
  <2>1. /\ p \in Seq(Marks) /\ Len(p) = Len(h) + Len(Gap)
        /\ \A i \in 1 .. Len(h) : p[i] = h[i]
        /\ \A i \in 1 .. Len(Gap) : p[Len(h) + i] = Gap[i]
    BY <1>2, <1>4, TwoParts
  <2> HIDE DEF p
  <2>2. Len(h) = 3 /\ Len(Gap) = g /\ 1 \in 1 .. Len(h) /\ 2 \in 1 .. Len(h) /\ 3 \in 1 .. Len(h)
    BY <1>4, <1>7
  <2>3. p \in Seq(Marks) /\ Len(p) = 3 + g /\ \A i \in 1 .. g : p[3 + i] = Gap[i]
    BY <2>1, <2>2
  <2>4. p[1] = x /\ p[2] = "G" /\ p[3] = a
    BY <1>4, <2>1, <2>2
  <2> QED  BY <1>2, <2>3, <2>4
<1> HIDE DEF p
<1>9. /\ q \in Seq(Marks) /\ Len(q) = 3 + g + d
      /\ \A i \in 1 .. 3 + g : q[i] = p[i]
      /\ \A i \in 1 .. d : q[3 + g + i] = b
  <2>1. /\ q \in Seq(Marks) /\ Len(q) = Len(p) + Len(t)
        /\ \A i \in 1 .. Len(p) : q[i] = p[i]
        /\ \A i \in 1 .. Len(t) : q[Len(p) + i] = t[i]
    BY <1>3, <1>8, TwoParts
  <2> HIDE DEF q
  <2> QED  BY <1>3, <1>8, <2>1
<1> HIDE DEF q
<1>10. /\ s \in Seq(Marks) /\ Len(s) = g + d + 4
       /\ \A i \in 1 .. 3 + g + d : s[i] = q[i]
       /\ s[g + d + 4] = "G"
  <2>1. /\ s \in Seq(Marks) /\ Len(s) = Len(q) + Len(e)
        /\ \A i \in 1 .. Len(q) : s[i] = q[i]
        /\ \A i \in 1 .. Len(e) : s[Len(q) + i] = e[i]
    BY <1>5, <1>9, TwoParts
  <2> HIDE DEF s
  <2>2. 1 \in 1 .. Len(e) /\ Len(q) + 1 = g + d + 4 /\ Len(q) + Len(e) = g + d + 4
    <3>1. Len(e) = 1 /\ Len(q) = 3 + g + d /\ g \in Nat /\ d \in Nat
      BY <1>1, <1>2, <1>5, <1>9 DEF d
    <3> QED  BY <3>1
  <2>3. s[g + d + 4] = "G"
    BY <1>5, <2>1, <2>2
  <2> QED  BY <1>9, <2>1, <2>2, <2>3
<1> HIDE DEF s
<1>13. d \in Nat
  BY <1>1 DEF d
<1>11. s[1] = x /\ s[3] = a /\ \A j \in 1 .. d : s[3 + g + j] = b
  <2>1. 1 \in 1 .. 3 + g /\ 3 \in 1 .. 3 + g /\ 1 \in 1 .. 3 + g + d /\ 3 \in 1 .. 3 + g + d
    BY <1>2, <1>13
  <2>2. \A j \in 1 .. d : 3 + g + j \in 1 .. 3 + g + d
    BY <1>2, <1>13
  <2> QED  BY <1>8, <1>9, <1>10, <2>1, <2>2
<1>12. ASSUME NEW k \in 1 .. g + d + 4
       PROVE  k = 3 \/ (\E j \in 1 .. d : k = 3 + g + j) \/ s[k] \in {"B", "G"}
  <2>1. CASE k \in 1 .. 2
    <3>1. k = 1 \/ k = 2
      BY <2>1
    <3>2. s[k] = p[k]
      BY <1>2, <1>9, <1>10, <1>13, <2>1
    <3> QED  BY <1>8, <3>1, <3>2
  <2>2. CASE k \in 4 .. 3 + g
    <3>1. s[k] = p[k] /\ k - 3 \in 1 .. g /\ 3 + (k - 3) = k
      BY <1>2, <1>9, <1>10, <1>13, <2>2
    <3> QED  BY <1>8, <3>1
  <2>3. CASE k \in g + 4 .. 3 + g + d
    <3>1. k - 3 - g \in 1 .. d /\ k = 3 + g + (k - 3 - g)
      BY <1>2, <1>13, <2>3
    <3> QED  BY <3>1
  <2>4. CASE k = g + d + 4
    BY <1>10, <2>4
  <2>5. k = 3 \/ k \in 1 .. 2 \/ k \in 4 .. 3 + g \/ k \in g + 4 .. 3 + g + d \/ k = g + d + 4
    BY <1>2, <1>13
  <2> QED  BY <2>1, <2>2, <2>3, <2>4, <2>5
<1>14. PlanHas(s, x, a, b)
  BY <1>10, <1>11, <1>12 DEF d, g, PlanHas
<1> QED  BY <1>6, <1>14

\* Where the base station's radio receives: the client sends in all of these slots.
Slot(j) == IF j = 0 THEN 3 ELSE 3 + GapLen + j
\* The base station reads in slot 3 and in the slots after the gap, the client sends in
\* the same slots.
LEMMA SoundPlaces ==
  ASSUME Placed, Sounder
  PROVE  /\ GapLen \in Nat /\ tool.data \in Nat
         /\ Bsched \in Seq(Marks) /\ Msched \in Seq(Marks)
         /\ Cardinality(Places(Bsched)) = 1 + tool.data
         /\ \A j \in 0 .. tool.data : Nth(Places(Bsched), j + 1) = Slot(j)
         /\ \A j \in 0 .. tool.data : Slot(j) \in DOMAIN Msched /\ Msched[Slot(j)] \in {"P", "T"}
         /\ \A j \in 1 .. tool.data : Msched[Slot(j)] = "T"
         /\ tool.syms >= tool.data + 4 => GapLen = tool.syms - tool.data - 4
<1> DEFINE d == tool.data
           g == GapLen
           S == Places(Bsched)
           f == [i \in 1 .. 1 + d |-> Slot(i - 1)]
<1>1. d \in Nat /\ g \in Nat /\ (tool.syms >= d + 4 => g = tool.syms - d - 4)
  <2>1. tool.data \in Nat /\ tool.syms \in Nat
    BY LabAssumption DEF Placed, Sounder
  <2>2. tool.syms - tool.data - 4 \in Int /\ "G" \in Marks
    BY <2>1 DEF Marks
  <2>3. GapLen = IF tool.syms - tool.data - 4 < 0 THEN 0 ELSE tool.syms - tool.data - 4
    BY <2>2, RepeatIs DEF Gap, GapLen
  <2> QED  BY <2>1, <2>3
<1>2. /\ Bsched = SoundPlan("B", "R", "R") /\ Msched = SoundPlan("G", "P", "T")
      /\ "B" \in {"B", "G"} /\ "G" \in {"B", "G"} /\ {"R", "P", "T"} \subseteq Marks
  BY DEF Bsched, Msched, SoundPlan, Marks
<1>3. /\ Bsched \in Seq(Marks) /\ Len(Bsched) = g + d + 4 /\ Bsched[3] = "R"
      /\ \A j \in 1 .. d : Bsched[3 + g + j] = "R"
      /\ \A k \in 1 .. g + d + 4 :
            k = 3 \/ (\E j \in 1 .. d : k = 3 + g + j) \/ Bsched[k] \in {"B", "G"}
  <2> DEFINE x == "B"  a == "R"  b == "R"
  <2>1. x \in {"B", "G"} /\ a \in Marks /\ b \in Marks /\ Bsched = SoundPlan(x, a, b)
    BY <1>2
  <2> HIDE DEF x, a, b
  <2>2. /\ Bsched \in Seq(Marks) /\ Len(Bsched) = g + d + 4 /\ Bsched[3] = a
        /\ \A j \in 1 .. d : Bsched[3 + g + j] = b
        /\ \A k \in 1 .. g + d + 4 :
              k = 3 \/ (\E j \in 1 .. d : k = 3 + g + j) \/ Bsched[k] \in {"B", "G"}
    <3>1. PlanHas(Bsched, x, a, b)
      BY <2>1, SoundPlanIs
    <3> QED  BY <3>1 DEF PlanHas
  <2> QED  BY <2>2 DEF x, a, b
<1>4. /\ Msched \in Seq(Marks) /\ Len(Msched) = g + d + 4 /\ Msched[3] = "P"
      /\ \A j \in 1 .. d : Msched[3 + g + j] = "T"
  <2> DEFINE x == "G"  a == "P"  b == "T"
  <2>1. x \in {"B", "G"} /\ a \in Marks /\ b \in Marks /\ Msched = SoundPlan(x, a, b)
    BY <1>2
  <2> HIDE DEF x, a, b
  <2>2. /\ Msched \in Seq(Marks) /\ Len(Msched) = g + d + 4 /\ Msched[3] = a
        /\ \A j \in 1 .. d : Msched[3 + g + j] = b
    <3>1. PlanHas(Msched, x, a, b)
      BY <2>1, SoundPlanIs
    <3> QED  BY <3>1 DEF PlanHas
  <2> QED  BY <2>2 DEF x, a, b
<1>5. /\ Slot(0) = 3 /\ \A j \in 1 .. d : Slot(j) = 3 + g + j
  BY <1>1 DEF Slot
<1> HIDE DEF d, g
<1>6. \A j \in 0 .. d : j = 0 \/ j \in 1 .. d
  BY <1>1
<1>7. \A j \in 0 .. d : Slot(j) \in 1 .. g + d + 4 /\ Slot(j) \in Int
  <2>1. 3 \in 1 .. g + d + 4 /\ \A j \in 1 .. d : 3 + g + j \in 1 .. g + d + 4
    BY <1>1
  <2> QED  BY <1>5, <1>6, <2>1
<1>8. DOMAIN Bsched = 1 .. g + d + 4 /\ DOMAIN Msched = 1 .. g + d + 4
  BY <1>1, <1>3, <1>4
<1>9. S = {Slot(j) : j \in 0 .. d}
  <2>1. ASSUME NEW k \in S PROVE \E j \in 0 .. d : k = Slot(j)
    <3>1. k \in 1 .. g + d + 4 /\ Bsched[k] = "R"
      BY <1>8 DEF Places
    <3>2. k = 3 \/ \E j \in 1 .. d : k = 3 + g + j
      BY <1>3, <3>1
    <3>3. 0 \in 0 .. d /\ \A j \in 1 .. d : j \in 0 .. d
      BY <1>1
    <3> QED  BY <1>5, <3>2, <3>3
  <2>2. ASSUME NEW j \in 0 .. d PROVE Slot(j) \in S
    <3>1. Slot(j) \in DOMAIN Bsched /\ Bsched[Slot(j)] = "R"
      BY <1>3, <1>5, <1>6, <1>7, <1>8
    <3> QED  BY <3>1 DEF Places
  <2> HIDE DEF S
  <2> QED  BY <2>1, <2>2
<1> HIDE DEF S
<1>10. /\ 1 + d \in Nat /\ f \in [1 .. 1 + d -> Int]
       /\ \A i \in 1 .. 1 + d : i - 1 \in 0 .. d /\ f[i] = Slot(i - 1)
  BY <1>1, <1>7
<1>11. ASSUME NEW i \in 1 .. 1 + d, NEW j \in 1 .. 1 + d, i < j PROVE f[i] < f[j]
  <2>1. f[i] = Slot(i - 1) /\ f[j] = 3 + g + (j - 1)
    <3>1. j - 1 \in 1 .. d
      BY <1>1, <1>11
    <3> QED  BY <1>5, <1>10, <3>1
  <2>2. CASE i = 1
    BY <1>1, <1>5, <1>11, <2>1, <2>2
  <2>3. CASE i # 1
    <3>1. i - 1 \in 1 .. d
      BY <1>1, <2>3
    <3>2. f[i] = 3 + g + (i - 1)
      BY <1>5, <2>1, <3>1
    <3> QED  BY <1>1, <1>11, <2>1, <3>2
  <2> QED  BY <2>2, <2>3
<1>12. S = {f[i] : i \in 1 .. 1 + d}
  <2>1. \A j \in 0 .. d : j + 1 \in 1 .. 1 + d /\ f[j + 1] = Slot(j)
    BY <1>1
  <2> HIDE DEF f
  <2> QED  BY <1>9, <1>10, <2>1
<1> HIDE DEF f
<1>13. Cardinality(S) = 1 + d /\ InOrder(S) = f
  BY <1>10, <1>11, <1>12, Enumerated
<1>14. ASSUME NEW j \in 0 .. d PROVE Nth(S, j + 1) = Slot(j)
  <2>1. j + 1 \in 1 .. 1 + d /\ (j + 1) - 1 = j
    BY <1>1
  <2>2. InOrder(S)[j + 1] = Nth(S, j + 1)
    BY <1>13, <2>1 DEF InOrder
  <2>3. f[j + 1] = Slot(j)
    BY <1>10, <2>1
  <2> QED  BY <1>13, <2>2, <2>3
<1>15. ASSUME NEW j \in 0 .. d PROVE Slot(j) \in DOMAIN Msched /\ Msched[Slot(j)] \in {"P", "T"}
  BY <1>4, <1>5, <1>6, <1>7, <1>8
<1>16. \A j \in 1 .. d : Msched[Slot(j)] = "T"
  BY <1>4, <1>5
<1> QED  BY <1>1, <1>3, <1>4, <1>13, <1>14, <1>15, <1>16 DEF d, g, S

-----------------------------------------------------------------------------
(* SOUNDER_TXRX.py: what is read, in order, and what still waits to be read *)

\* A list of anything.
IsSeq(s) == \E Y : s \in Seq(Y)

\* A list with one more entry.
LEMMA GrowsBy ==
  ASSUME NEW s, IsSeq(s), NEW w
  PROVE  /\ IsSeq(Append(s, w)) /\ Len(s) \in Nat /\ Len(Append(s, w)) = Len(s) + 1
         /\ \A i \in 1 .. Len(s) : Append(s, w)[i] = s[i]
         /\ Append(s, w)[Len(s) + 1] = w
<1>1. PICK Y : s \in Seq(Y)
  BY DEF IsSeq
<1> DEFINE Z == Y \cup {w}
<1>2. s \in Seq(Z) /\ w \in Z
  BY <1>1
<1> HIDE DEF Z
<1>3. Append(s, w) \in Seq(Z)
  BY <1>2
<1> QED  BY <1>2, <1>3 DEF IsSeq

\* Two lists, one behind the other.
LEMMA JoinedTo ==
  ASSUME NEW s, IsSeq(s), NEW t, IsSeq(t)
  PROVE  /\ IsSeq(s \o t) /\ Len(s) \in Nat /\ Len(t) \in Nat /\ Len(s \o t) = Len(s) + Len(t)
         /\ \A i \in 1 .. Len(s) : (s \o t)[i] = s[i]
         /\ \A i \in 1 .. Len(t) : (s \o t)[Len(s) + i] = t[i]
<1>1. PICK Y : s \in Seq(Y)
  BY DEF IsSeq
<1>2. PICK W : t \in Seq(W)
  BY DEF IsSeq
<1> DEFINE Z == Y \cup W
<1>3. s \in Seq(Z) /\ t \in Seq(Z)
  BY <1>1, <1>2
<1> HIDE DEF Z
<1>4. /\ s \o t \in Seq(Z) /\ Len(s) \in Nat /\ Len(t) \in Nat /\ Len(s \o t) = Len(s) + Len(t)
      /\ \A i \in 1 .. Len(s) : (s \o t)[i] = s[i]
  BY <1>3, ConcatProperties
<1>5. ASSUME NEW i \in 1 .. Len(t) PROVE (s \o t)[Len(s) + i] = t[i]
  <2>1. Len(s) + i \in 1 .. Len(s) + Len(t) /\ ~(Len(s) + i <= Len(s)) /\ (Len(s) + i) - Len(s) = i
    BY <1>4
  <2> QED  BY <1>3, <2>1, ConcatProperties
<1> QED  BY <1>4, <1>5 DEF IsSeq

\* A list without its first entry.
LEMMA WithoutFirst ==
  ASSUME NEW s, IsSeq(s), s # <<>>
  PROVE  /\ IsSeq(Beyond(1, s)) /\ Len(s) \in Nat \ {0} /\ Len(Beyond(1, s)) = Len(s) - 1
         /\ \A i \in 1 .. Len(s) - 1 : Beyond(1, s)[i] = s[i + 1]
<1>1. PICK Y : s \in Seq(Y)
  BY DEF IsSeq
<1>2. Len(s) \in Nat \ {0}
  BY <1>1, EmptySeq
<1>3. Beyond(1, s) = SubSeq(s, 2, Len(s))
  BY DEF Beyond
<1>4. /\ SubSeq(s, 2, Len(s)) \in Seq(Y) /\ Len(SubSeq(s, 2, Len(s))) = Len(s) - 1
      /\ \A i \in 1 .. Len(s) - 1 : SubSeq(s, 2, Len(s))[i] = s[i + 1]
  <2> DEFINE n == Len(s)
  <2>1. n \in Nat /\ n >= 1 /\ n = Len(s) /\ \A i \in 2 .. n : i \in 1 .. Len(s)
    BY <1>2
  <2> HIDE DEF n
  <2>2. SubSeq(s, 2, n) \in Seq(Y)
    BY <1>1, <2>1
  <2>3. Len(SubSeq(s, 2, n)) = n - 1
    BY <1>1, <2>1
  <2>4. \A i \in 1 .. n - 1 : SubSeq(s, 2, n)[i] = s[i + 1]
    BY <1>1, <2>1
  <2> QED  BY <2>2, <2>3, <2>4 DEF n
<1> QED  BY <1>2, <1>3, <1>4 DEF IsSeq

\* The layout of a frame: its symbols of data, and the slots of pilot and data.
Layout == [d |-> tool.data, slot |-> [j \in 0 .. tool.data |-> Slot(j)]]

\* Symbols in the file of the data before frame i, and in all of n frames.
Before(l, i) == (i - 1) * l.d
Whole(l, n)  == n * (1 + l.d)
\* The sums of the symbols of whole frames, and of their records in the second file.
LEMMA FrameSums ==
  ASSUME NEW l, l.d \in Nat
  PROVE  /\ Whole(l, 0) = 0 /\ Before(l, 1) = 0
         /\ \A n \in Nat : /\ Whole(l, n) \in Nat /\ Whole(l, n + 1) = Whole(l, n) + 1 + l.d
                           /\ Before(l, n + 1) \in Nat /\ n + Before(l, n + 1) = Whole(l, n)
                           /\ Before(l, n + 2) = Before(l, n + 1) + l.d
         /\ \A n, m \in Nat : n < m => Whole(l, n) + 1 + l.d <= Whole(l, m)
<1> DEFINE c == l.d
<1>1. c \in Nat
  OBVIOUS
<1>2. \A n : Whole(l, n) = n * (1 + c) /\ Before(l, n) = (n - 1) * c
  BY DEF Whole, Before
<1> HIDE DEF c
<1>3. Whole(l, 0) = 0 /\ Before(l, 1) = 0
  BY <1>1, <1>2
<1>4. ASSUME NEW n \in Nat
      PROVE  /\ Whole(l, n) \in Nat /\ Whole(l, n + 1) = Whole(l, n) + 1 + c
             /\ Before(l, n + 1) \in Nat /\ n + Before(l, n + 1) = Whole(l, n)
             /\ Before(l, n + 2) = Before(l, n + 1) + c
  <2>1. n * c \in Nat /\ n * (1 + c) = n + n * c /\ (n + 1) * c = n * c + c
    BY <1>1
  <2>2. (n + 1) * (1 + c) = (n + 1) + (n + 1) * c
    BY <1>1
  <2>3. Whole(l, n) = n + n * c /\ Whole(l, n + 1) = (n + 1) + (n * c + c)
    BY <1>2, <2>1, <2>2
  <2>4. Before(l, n + 1) = n * c /\ Before(l, n + 2) = n * c + c
    <3>1. (n + 1) - 1 = n /\ (n + 2) - 1 = n + 1
      OBVIOUS
    <3> QED  BY <1>2, <2>1, <3>1
  <2> QED  BY <1>1, <2>1, <2>3, <2>4
<1>5. ASSUME NEW n \in Nat, NEW m \in Nat, n < m
      PROVE  Whole(l, n) + 1 + c <= Whole(l, m)
  <2> DEFINE k == m - n - 1
  <2>1. k \in Nat /\ m = (n + 1) + k
    BY <1>5
  <2> HIDE DEF k
  <2>2. k * (1 + c) \in Nat
    BY <1>1, <2>1
  <2>3. ((n + 1) + k) * (1 + c) = (n + 1) * (1 + c) + k * (1 + c)
    BY <1>1, <2>1
  <2>4. Whole(l, m) = Whole(l, n + 1) + k * (1 + c)
    BY <1>2, <2>1, <2>3
  <2>5. Whole(l, n) \in Nat /\ Whole(l, n + 1) = Whole(l, n) + 1 + c
    BY <1>4
  <2> QED  BY <1>1, <2>2, <2>4, <2>5
<1>6. l.d = c
  BY DEF c
<1> QED  BY <1>3, <1>4, <1>5, <1>6

\* Symbol j of frame n: X tells who sends in which frame.
Sym(l, X, n, j) == [round |-> n, slot |-> l.slot[j], from |-> X[n]]

\* The files p and a hold F whole frames from frame b + 1 on.
FilesTo(l, p, a, F, b, X) ==
  /\ F <= Len(p)
  /\ \A i \in 1 .. F :
       /\ p[i] = Sym(l, X, b + i, 0)
       /\ \A j \in 1 .. l.d : /\ Before(l, i) + j \in 1 .. Len(a)
                              /\ a[Before(l, i) + j] = Sym(l, X, b + i, j)

\* Of the frame behind them, the files hold the first at symbols and nothing else.
Begun(l, p, a, at, F, b, X) ==
  /\ Len(p) = IF at = 0 THEN F ELSE F + 1
  /\ Len(a) = Before(l, F + 1) + (IF at = 0 THEN 0 ELSE at - 1)
  /\ at > 0 => /\ p[F + 1] = Sym(l, X, b + F + 1, 0)
               /\ \A j \in 1 .. at - 1 : a[Before(l, F + 1) + j] = Sym(l, X, b + F + 1, j)

\* The queue f has N frames from frame k on, without the first at symbols.
Unread(l, f, at, k, N, X) ==
  /\ Len(f) + at = Whole(l, N)
  /\ \A m \in 0 .. N - 1 : \A j \in 0 .. l.d :
       Whole(l, m) + j >= at => f[Whole(l, m) + j + 1 - at] = Sym(l, X, k + m, j)

\* What has been whole stays whole.
LEMMA FilesGrow ==
  ASSUME NEW l, l.d \in Nat, NEW p, IsSeq(p), NEW a, IsSeq(a), NEW w,
         NEW F \in Nat, NEW b, NEW X, FilesTo(l, p, a, F, b, X)
  PROVE  FilesTo(l, Append(p, w), a, F, b, X) /\ FilesTo(l, p, Append(a, w), F, b, X)
<1>1. /\ Len(p) \in Nat /\ Len(Append(p, w)) = Len(p) + 1
      /\ \A i \in 1 .. Len(p) : Append(p, w)[i] = p[i]
  BY GrowsBy
<1>2. /\ Len(a) \in Nat /\ Len(Append(a, w)) = Len(a) + 1
      /\ \A i \in 1 .. Len(a) : Append(a, w)[i] = a[i]
  BY GrowsBy
<1>3. F <= Len(p) /\ F <= Len(Append(p, w)) /\ \A i \in 1 .. F : i \in 1 .. Len(p)
  BY <1>1 DEF FilesTo
<1>4. \A i \in 1 .. F : p[i] = Sym(l, X, b + i, 0) /\ Append(p, w)[i] = Sym(l, X, b + i, 0)
  BY <1>1, <1>3 DEF FilesTo
<1>5. ASSUME NEW i \in 1 .. F, NEW j \in 1 .. l.d
      PROVE  /\ Before(l, i) + j \in 1 .. Len(a) /\ Before(l, i) + j \in 1 .. Len(Append(a, w))
             /\ a[Before(l, i) + j] = Sym(l, X, b + i, j)
             /\ Append(a, w)[Before(l, i) + j] = Sym(l, X, b + i, j)
  <2>1. Before(l, i) + j \in 1 .. Len(a) /\ a[Before(l, i) + j] = Sym(l, X, b + i, j)
    BY DEF FilesTo
  <2> QED  BY <1>2, <2>1
<1> QED  BY <1>3, <1>4, <1>5 DEF FilesTo

\* The next symbol of the frame is read.
LEMMA BegunNext ==
  ASSUME NEW l, l.d \in Nat, NEW p, IsSeq(p), NEW a, IsSeq(a), NEW at \in 0 .. l.d,
         NEW F \in Nat, NEW b \in Nat, NEW X, NEW w, w = Sym(l, X, b + F + 1, at),
         Begun(l, p, a, at, F, b, X),
         NEW q, q = (IF at = 0 THEN Append(p, w) ELSE p),
         NEW c, c = (IF at = 0 THEN a ELSE Append(a, w))
  PROVE  Begun(l, q, c, at + 1, F, b, X)
<1> DEFINE B == Before(l, F + 1)
<1>0. B \in Nat /\ ~(at + 1 = 0) /\ at + 1 > 0
  BY FrameSums
<1>1. /\ Len(p) = IF at = 0 THEN F ELSE F + 1
      /\ Len(a) = B + (IF at = 0 THEN 0 ELSE at - 1)
      /\ at > 0 => /\ p[F + 1] = Sym(l, X, b + F + 1, 0)
                   /\ \A j \in 1 .. at - 1 : a[B + j] = Sym(l, X, b + F + 1, j)
  BY DEF Begun
<1> SUFFICES /\ Len(q) = F + 1 /\ Len(c) = B + ((at + 1) - 1)
             /\ q[F + 1] = Sym(l, X, b + F + 1, 0)
             /\ \A j \in 1 .. (at + 1) - 1 : c[B + j] = Sym(l, X, b + F + 1, j)
  BY <1>0 DEF Begun
<1> HIDE DEF B
<1>2. CASE at = 0
  <2>1. Len(Append(p, w)) = Len(p) + 1 /\ Append(p, w)[Len(p) + 1] = w
    BY GrowsBy
  <2>2. Len(p) = F /\ Len(a) = B + 0 /\ q = Append(p, w) /\ c = a
    BY <1>1, <1>2
  <2>3. Len(q) = F + 1 /\ q[F + 1] = w
    BY <2>1, <2>2
  <2>4. (at + 1) - 1 = 0 /\ 1 .. 0 = {}
    BY <1>2
  <2> QED  BY <1>2, <2>2, <2>3, <2>4
<1>3. CASE at > 0
  <2>1. /\ Len(Append(a, w)) = Len(a) + 1 /\ Append(a, w)[Len(a) + 1] = w /\ Len(a) \in Nat
        /\ \A i \in 1 .. Len(a) : Append(a, w)[i] = a[i]
    BY GrowsBy
  <2>2. Len(p) = F + 1 /\ Len(a) = B + (at - 1) /\ q = p /\ c = Append(a, w) /\ at \in Nat
    BY <1>1, <1>3
  <2>3. Len(c) = B + at /\ (at + 1) - 1 = at
    <3>1. Len(c) = (B + (at - 1)) + 1
      BY <2>1, <2>2
    <3> QED  BY <1>0, <2>2, <3>1
  <2>4. ASSUME NEW j \in 1 .. at PROVE c[B + j] = Sym(l, X, b + F + 1, j)
    <3>1. CASE j = at
      <4>1. B + j = Len(a) + 1
        BY <1>0, <2>2, <3>1
      <4> QED  BY <2>1, <2>2, <3>1, <4>1
    <3>2. CASE j # at
      <4>1. j \in 1 .. at - 1 /\ B + j \in 1 .. Len(a)
        BY <1>0, <2>2, <3>2
      <4>2. c[B + j] = a[B + j]
        BY <2>1, <2>2, <4>1
      <4> QED  BY <1>1, <1>3, <4>1, <4>2
    <3> QED  BY <3>1, <3>2
  <2> QED  BY <1>1, <1>3, <2>2, <2>3, <2>4
<1>4. at = 0 \/ at > 0
  OBVIOUS
<1> QED  BY <1>2, <1>3, <1>4

\* A frame that has been read is whole.
LEMMA BegunWhole ==
  ASSUME NEW l, l.d \in Nat, NEW p, NEW a, NEW F \in Nat, NEW b \in Nat, NEW X,
         FilesTo(l, p, a, F, b, X), Begun(l, p, a, l.d + 1, F, b, X)
  PROVE  FilesTo(l, p, a, F + 1, b, X) /\ Begun(l, p, a, 0, F + 1, b, X)
<1> DEFINE B == Before(l, F + 1)
           d == l.d
<1>1. d \in Nat /\ B \in Nat /\ Before(l, (F + 1) + 1) = B + d /\ ~(d + 1 = 0) /\ d + 1 > 0
      /\ (d + 1) - 1 = d
  <2>1. Before(l, F + 2) = B + d /\ B \in Nat
    BY FrameSums
  <2>2. (F + 1) + 1 = F + 2
    OBVIOUS
  <2> QED  BY <2>1, <2>2
<1>2. /\ Len(p) = F + 1 /\ Len(a) = B + d /\ p[F + 1] = Sym(l, X, b + F + 1, 0)
      /\ \A j \in 1 .. d : a[B + j] = Sym(l, X, b + F + 1, j)
  <2>1. /\ Len(p) = F + 1 /\ Len(a) = B + ((d + 1) - 1)
        /\ p[F + 1] = Sym(l, X, b + F + 1, 0)
        /\ \A j \in 1 .. (d + 1) - 1 : a[B + j] = Sym(l, X, b + F + 1, j)
    BY <1>1 DEF Begun
  <2> QED  BY <1>1, <2>1
<1>3. \A i \in 1 .. F : /\ p[i] = Sym(l, X, b + i, 0)
                        /\ \A j \in 1 .. d : /\ Before(l, i) + j \in 1 .. Len(a)
                                             /\ a[Before(l, i) + j] = Sym(l, X, b + i, j)
  BY DEF FilesTo
<1>4. Begun(l, p, a, 0, F + 1, b, X)
  <2>1. Len(p) = F + 1 /\ Len(a) = Before(l, (F + 1) + 1) + 0
    BY <1>1, <1>2
  <2> QED  BY <2>1 DEF Begun
<1>5. B = Before(l, F + 1) /\ b + (F + 1) = b + F + 1
  OBVIOUS
<1> HIDE DEF B
<1>6. ASSUME NEW i \in 1 .. F + 1
      PROVE  /\ p[i] = Sym(l, X, b + i, 0)
             /\ \A j \in 1 .. d : /\ Before(l, i) + j \in 1 .. Len(a)
                                  /\ a[Before(l, i) + j] = Sym(l, X, b + i, j)
  <2>1. CASE i = F + 1
    <3>1. \A j \in 1 .. d : B + j \in 1 .. Len(a)
      BY <1>1, <1>2
    <3>2. Before(l, i) = B /\ b + i = b + F + 1
      BY <1>5, <2>1
    <3> HIDE DEF d
    <3> QED  BY <1>2, <2>1, <3>1, <3>2
  <2>2. CASE i # F + 1
    <3>1. i \in 1 .. F
      BY <2>2
    <3> QED  BY <1>3, <3>1
  <2> QED  BY <2>1, <2>2
<1>7. F + 1 <= Len(p)
  BY <1>2
<1> QED  BY <1>4, <1>6, <1>7 DEF FilesTo

\* The first symbol of the queue is the next one of its frame.
LEMMA UnreadNext ==
  ASSUME NEW l, l.d \in Nat, NEW f, IsSeq(f), f # <<>>, NEW at \in 0 .. l.d, NEW k \in Nat,
         NEW N \in Nat, NEW X, Unread(l, f, at, k, N, X)
  PROVE  /\ N > 0 /\ f[1] = Sym(l, X, k, at)
         /\ at < l.d => Unread(l, Beyond(1, f), at + 1, k, N, X)
         /\ at = l.d => Unread(l, Beyond(1, f), 0, k + 1, N - 1, X)
<1> DEFINE g == Beyond(1, f)
           d == l.d
<1>1. /\ Len(f) \in Nat \ {0} /\ Len(g) = Len(f) - 1
      /\ \A i \in 1 .. Len(f) - 1 : g[i] = f[i + 1]
  BY WithoutFirst
<1>2. /\ Whole(l, 0) = 0
      /\ \A n \in Nat : Whole(l, n) \in Nat /\ Whole(l, n + 1) = Whole(l, n) + 1 + d
      /\ \A n, m \in Nat : n < m => Whole(l, n) + 1 + d <= Whole(l, m)
  BY FrameSums
<1>3. /\ Len(f) + at = Whole(l, N)
      /\ \A m \in 0 .. N - 1 : \A j \in 0 .. d :
           Whole(l, m) + j >= at => f[Whole(l, m) + j + 1 - at] = Sym(l, X, k + m, j)
  BY DEF Unread
<1>4. d \in Nat /\ at \in Nat /\ at \in 0 .. d
  OBVIOUS
<1> HIDE DEF g, d
<1>11. /\ Len(f) \in Nat \ {0} /\ Len(g) = Len(f) - 1 /\ Len(f) + at = Whole(l, N)
      /\ Whole(l, 0) = 0 /\ d \in Nat /\ at \in Nat
  BY <1>1, <1>2, <1>3, <1>4
<1>5. N > 0
  BY <1>1, <1>2, <1>3, <1>4
<1>6. f[1] = Sym(l, X, k, at)
  <2>1. 0 \in 0 .. N - 1 /\ Whole(l, 0) + at >= at /\ Whole(l, 0) + at + 1 - at = 1 /\ k + 0 = k
    BY <1>5, <1>11
  <2> QED  BY <1>3, <1>4, <2>1
<1>7. ASSUME NEW m \in 0 .. N - 1, NEW j \in 0 .. d
      PROVE  /\ Whole(l, m) \in Nat /\ Whole(l, m) + 1 + d <= Whole(l, N)
             /\ Whole(l, m) + j + 1 <= Whole(l, N)
  <2>1. m \in Nat /\ m < N
    OBVIOUS
  <2>2. Whole(l, m) \in Nat /\ Whole(l, m) + 1 + d <= Whole(l, N)
    BY <1>2, <2>1
  <2>3. Whole(l, N) \in Nat
    BY <1>2
  <2> QED  BY <1>4, <2>2, <2>3
<1>8. CASE at < d
  <2>1. Len(g) + (at + 1) = Whole(l, N)
    BY <1>11
  <2>2. ASSUME NEW m \in 0 .. N - 1, NEW j \in 0 .. d, Whole(l, m) + j >= at + 1
        PROVE  g[Whole(l, m) + j + 1 - (at + 1)] = Sym(l, X, k + m, j)
    <3> DEFINE x == Whole(l, m) + j
    <3>1. x \in Nat /\ x + 1 <= Len(f) + at /\ x >= at + 1
      BY <1>7, <1>11, <2>2
    <3> HIDE DEF x
    <3>2. /\ x + 1 - (at + 1) \in 1 .. Len(f) - 1 /\ (x + 1 - (at + 1)) + 1 = x + 1 - at /\ x >= at
      BY <1>11, <3>1
    <3>3. g[x + 1 - (at + 1)] = f[x + 1 - at]
      BY <1>1, <3>2
    <3>4. f[x + 1 - at] = Sym(l, X, k + m, j)
      BY <1>3, <3>2 DEF x
    <3> QED  BY <3>3, <3>4 DEF x
  <2>3. Unread(l, g, at + 1, k, N, X)
    BY <2>1, <2>2 DEF Unread, d
  <2> QED  BY <1>5, <1>6, <1>8, <2>3 DEF d, g
<1>9. CASE at = d
  <2>0. N - 1 \in Nat /\ (N - 1) + 1 = N
    BY <1>5
  <2>1. Len(g) + 0 = Whole(l, N - 1)
    <3>1. Whole(l, N) = Whole(l, N - 1) + 1 + d /\ Whole(l, N - 1) \in Nat
      BY <1>2, <2>0
    <3> QED  BY <1>9, <1>11, <3>1
  <2>2. ASSUME NEW m \in 0 .. (N - 1) - 1, NEW j \in 0 .. d
        PROVE  g[Whole(l, m) + j + 1 - 0] = Sym(l, X, (k + 1) + m, j)
    <3> DEFINE x == Whole(l, m + 1) + j
               n == m + 1
    <3>1. n \in 0 .. N - 1 /\ (k + 1) + m = k + n /\ Whole(l, n) = Whole(l, m) + 1 + d
          /\ Whole(l, m) \in Nat
      <4>1. m \in Nat /\ m + 1 \in 0 .. N - 1 /\ (k + 1) + m = k + (m + 1)
        OBVIOUS
      <4> QED  BY <1>2, <4>1
    <3>2. x \in Nat /\ x + 1 <= Len(f) + at /\ x = Whole(l, m) + 1 + d + j
      <4>1. Whole(l, n) + j + 1 <= Whole(l, N)
        BY <1>7, <3>1
      <4> QED  BY <1>11, <3>1, <4>1
    <3> HIDE DEF x
    <3>3. /\ Whole(l, m) + j + 1 - 0 \in 1 .. Len(f) - 1
          /\ (Whole(l, m) + j + 1 - 0) + 1 = x + 1 - at /\ x >= at
      <4> DEFINE y == Whole(l, m)
      <4>1. /\ y \in Nat /\ x \in Nat /\ x + 1 <= Len(f) + at /\ x = y + 1 + d + j
            /\ Len(f) \in Nat /\ d \in Nat /\ at = d /\ j \in Nat
        BY <1>9, <1>11, <3>1, <3>2
      <4> HIDE DEF y
      <4>2. /\ y + j + 1 - 0 \in 1 .. Len(f) - 1
            /\ (y + j + 1 - 0) + 1 = x + 1 - at /\ x >= at
        BY <4>1
      <4> QED  BY <4>2 DEF y
    <3>4. g[Whole(l, m) + j + 1 - 0] = f[x + 1 - at]
      BY <1>1, <3>3
    <3>5. f[x + 1 - at] = Sym(l, X, k + n, j)
      BY <1>3, <3>1, <3>3 DEF x
    <3> QED  BY <3>1, <3>4, <3>5
  <2>3. Unread(l, g, 0, k + 1, N - 1, X)
    BY <2>1, <2>2 DEF Unread, d
  <2> QED  BY <1>5, <1>6, <1>9, <2>3 DEF d, g
<1>10. at < d \/ at = d
  BY <1>4
<1> QED  BY <1>8, <1>9, <1>10 DEF d, g

\* The symbols of frame n, and two lists of senders that agree on N frames from k on.
OneFrame(l, s, X, n) == Len(s) = 1 + l.d /\ \A j \in 0 .. l.d : s[j + 1] = Sym(l, X, n, j)
AgreeOn(X, Y, k, N) == \A m \in 0 .. N - 1 : Y[k + m] = X[k + m]

\* A frame that comes is behind those in the queue.
LEMMA UnreadMore ==
  ASSUME NEW l, l.d \in Nat, NEW f, IsSeq(f), NEW at \in 0 .. l.d, NEW k \in Nat,
         NEW N \in Nat, NEW X, Unread(l, f, at, k, N, X),
         NEW s, IsSeq(s), NEW Y, AgreeOn(X, Y, k, N), OneFrame(l, s, Y, k + N)
  PROVE  Unread(l, f \o s, at, k, N + 1, Y)
<1> DEFINE d == l.d
           g == f \o s
<1>1. /\ Len(f) \in Nat /\ Len(g) = Len(f) + (1 + d)
      /\ \A i \in 1 .. Len(f) : g[i] = f[i]
      /\ \A i \in 1 .. 1 + d : g[Len(f) + i] = s[i]
  <2>1. /\ Len(f) \in Nat /\ Len(g) = Len(f) + Len(s)
        /\ \A i \in 1 .. Len(f) : g[i] = f[i]
        /\ \A i \in 1 .. Len(s) : g[Len(f) + i] = s[i]
    BY JoinedTo
  <2>2. Len(s) = 1 + d
    BY DEF OneFrame
  <2> HIDE DEF g, d
  <2> QED  BY <2>1, <2>2
<1>2. /\ \A n \in Nat : Whole(l, n) \in Nat /\ Whole(l, n + 1) = Whole(l, n) + 1 + d
      /\ \A n, m \in Nat : n < m => Whole(l, n) + 1 + d <= Whole(l, m)
  BY FrameSums
<1>3. /\ Len(f) + at = Whole(l, N)
      /\ \A m \in 0 .. N - 1 : \A j \in 0 .. d :
           Whole(l, m) + j >= at => f[Whole(l, m) + j + 1 - at] = Sym(l, X, k + m, j)
  BY DEF Unread
<1>4. d \in Nat /\ at \in Nat
  OBVIOUS
<1>5. \A j \in 0 .. d : s[j + 1] = Sym(l, Y, k + N, j)
  BY DEF OneFrame
<1> HIDE DEF g, d
<1>9. /\ Len(f) \in Nat /\ Len(g) = Len(f) + (1 + d) /\ Len(f) + at = Whole(l, N)
      /\ d \in Nat /\ at \in Nat /\ Whole(l, N) \in Nat /\ Whole(l, N + 1) = Whole(l, N) + 1 + d
  BY <1>1, <1>2, <1>3, <1>4
<1>6. Len(g) + at = Whole(l, N + 1)
  BY <1>9
<1>7. ASSUME NEW m \in 0 .. (N + 1) - 1, NEW j \in 0 .. d, Whole(l, m) + j >= at
      PROVE  g[Whole(l, m) + j + 1 - at] = Sym(l, Y, k + m, j)
  <2>1. CASE m = N
    <3>1. Whole(l, m) + j + 1 - at = Len(f) + (j + 1) /\ j + 1 \in 1 .. 1 + d
      BY <1>9, <2>1
    <3> QED  BY <1>1, <1>5, <2>1, <3>1
  <2>2. CASE m # N
    <3>1. m \in 0 .. N - 1 /\ m \in Nat /\ m < N
      BY <2>2
    <3>2. Whole(l, m) \in Nat /\ Whole(l, m) + 1 + d <= Len(f) + at
      BY <1>2, <1>9, <3>1
    <3>3. Whole(l, m) + j + 1 - at \in 1 .. Len(f)
      <4> DEFINE y == Whole(l, m)
      <4>1. /\ y \in Nat /\ y + 1 + d <= Len(f) + at /\ y + j >= at
            /\ Len(f) \in Nat /\ d \in Nat /\ at \in Nat /\ j \in Nat /\ j <= d
        BY <1>7, <1>9, <3>2
      <4> HIDE DEF y
      <4>2. y + j + 1 - at \in 1 .. Len(f)
        BY <4>1
      <4> QED  BY <4>2 DEF y
    <3>4. g[Whole(l, m) + j + 1 - at] = Sym(l, X, k + m, j)
      BY <1>1, <1>3, <1>7, <3>1, <3>3
    <3>5. Sym(l, Y, k + m, j) = Sym(l, X, k + m, j)
      BY <3>1 DEF Sym, AgreeOn
    <3> QED  BY <3>4, <3>5
  <2> QED  BY <2>1, <2>2
<1>8. Unread(l, g, at, k, N + 1, Y)
  BY <1>6, <1>7 DEF Unread, d
<1> QED  BY <1>8 DEF g

\* Who sends in which frame: the client, or nobody.
Senders == [Nat -> {{}, {2}}]

\* After n frames: F frames behind frame b are whole in the files, N wait to be read, and
\* at symbols of the first of these have been read.
Stream(l, p, a, f, at, n, F, N, b, X) ==
  /\ F \in Nat /\ N \in Nat /\ b \in Nat /\ X \in Senders /\ b + F + N = n
  /\ FilesTo(l, p, a, F, b, X) /\ Begun(l, p, a, at, F, b, X)
  /\ Unread(l, f, at, b + F + 1, N, X)

\* Nothing has come yet.
LEMMA StreamNone ==
  ASSUME NEW l, l.d \in Nat, NEW n \in Nat, NEW X \in Senders
  PROVE  Stream(l, <<>>, <<>>, <<>>, 0, n, 0, 0, n, X)
<1>1. Before(l, 0 + 1) = 0 /\ Whole(l, 0) = 0
  <2>1. Before(l, 1) = 0 /\ Whole(l, 0) = 0
    BY FrameSums
  <2> QED  BY <2>1
<1>2. Len(<<>>) = 0 /\ 1 .. 0 = {} /\ 0 .. 0 - 1 = {}
  OBVIOUS
<1>3. FilesTo(l, <<>>, <<>>, 0, n, X)
  BY <1>2 DEF FilesTo
<1>4. Begun(l, <<>>, <<>>, 0, 0, n, X)
  BY <1>1, <1>2 DEF Begun
<1>5. Unread(l, <<>>, 0, n + 0 + 1, 0, X)
  BY <1>1, <1>2 DEF Unread
<1> QED  BY <1>3, <1>4, <1>5 DEF Stream

\* A symbol is read, and goes to the file it belongs to.
Filed(l, p, a, f, at, q, c, u) ==
  /\ q = (IF at = 0 THEN Append(p, f[1]) ELSE p) /\ c = (IF at = 0 THEN a ELSE Append(a, f[1]))
  /\ u = (IF at = l.d THEN 0 ELSE at + 1)
\* After the read, the queue goes on where the files end.
LEMMA StreamNext ==
  ASSUME NEW l, l.d \in Nat, NEW p, IsSeq(p), NEW a, IsSeq(a), NEW f, IsSeq(f), f # <<>>,
         NEW at \in 0 .. l.d, NEW n, NEW F, NEW N, NEW b, NEW X,
         Stream(l, p, a, f, at, n, F, N, b, X),
         NEW q, NEW c, NEW u, Filed(l, p, a, f, at, q, c, u)
  PROVE  \E G, M : Stream(l, q, c, Beyond(1, f), u, n, G, M, b, X)
<1>0. /\ q = (IF at = 0 THEN Append(p, f[1]) ELSE p) /\ c = (IF at = 0 THEN a ELSE Append(a, f[1]))
      /\ u = (IF at = l.d THEN 0 ELSE at + 1)
  BY DEF Filed
<1> DEFINE g == Beyond(1, f)
           w == f[1]
<1>1. /\ F \in Nat /\ N \in Nat /\ b \in Nat /\ X \in Senders /\ b + F + N = n
      /\ FilesTo(l, p, a, F, b, X) /\ Begun(l, p, a, at, F, b, X)
      /\ Unread(l, f, at, b + F + 1, N, X)
  BY DEF Stream
<1>2. b + F + 1 \in Nat
  BY <1>1
<1>3. /\ N > 0 /\ w = Sym(l, X, b + F + 1, at)
      /\ at < l.d => Unread(l, g, at + 1, b + F + 1, N, X)
      /\ at = l.d => Unread(l, g, 0, (b + F + 1) + 1, N - 1, X)
  BY <1>1, <1>2, UnreadNext
<1> HIDE DEF g, w
<1>4. FilesTo(l, Append(p, w), a, F, b, X) /\ FilesTo(l, p, Append(a, w), F, b, X)
  BY <1>1, FilesGrow
<1>5. q = (IF at = 0 THEN Append(p, w) ELSE p) /\ c = (IF at = 0 THEN a ELSE Append(a, w))
  BY <1>0 DEF w
<1>6. FilesTo(l, q, c, F, b, X)
  BY <1>1, <1>4, <1>5
<1>7. Begun(l, q, c, at + 1, F, b, X)
  BY <1>1, <1>3, <1>5, BegunNext
<1>8. CASE at < l.d
  <2>1. u = at + 1
    BY <1>0, <1>8
  <2>2. Stream(l, q, c, g, u, n, F, N, b, X)
    BY <1>1, <1>3, <1>6, <1>7, <1>8, <2>1 DEF Stream
  <2> QED  BY <2>2 DEF g
<1>9. CASE at = l.d
  <2>1. u = 0
    BY <1>0, <1>9
  <2>2. FilesTo(l, q, c, F + 1, b, X) /\ Begun(l, q, c, 0, F + 1, b, X)
    BY <1>1, <1>6, <1>7, <1>9, BegunWhole
  <2>3. F + 1 \in Nat /\ N - 1 \in Nat /\ b + (F + 1) + (N - 1) = n /\ (b + F + 1) + 1 = b + (F + 1) + 1
    BY <1>1, <1>3
  <2>4. Unread(l, g, 0, b + (F + 1) + 1, N - 1, X)
    BY <1>3, <1>9, <2>3
  <2>5. Stream(l, q, c, g, u, n, F + 1, N - 1, b, X)
    BY <1>1, <2>1, <2>2, <2>3, <2>4 DEF Stream
  <2> QED  BY <2>5 DEF g
<1>10. at < l.d \/ at = l.d
  OBVIOUS
<1> QED  BY <1>8, <1>9, <1>10

\* What is in the files does not change with who sends in later frames.
LEMMA SendersLater ==
  ASSUME NEW l, l.d \in Nat, NEW p, NEW a, NEW at \in 0 .. l.d,
         NEW F \in Nat, NEW b \in Nat, NEW X, NEW Y, AgreeOn(X, Y, b + 1, IF at = 0 THEN F ELSE F + 1),
         FilesTo(l, p, a, F, b, X), Begun(l, p, a, at, F, b, X)
  PROVE  FilesTo(l, p, a, F, b, Y) /\ Begun(l, p, a, at, F, b, Y)
<1>1. ASSUME NEW i \in 1 .. F PROVE \A j : Sym(l, Y, b + i, j) = Sym(l, X, b + i, j)
  <2>1. i - 1 \in 0 .. (IF at = 0 THEN F ELSE F + 1) - 1 /\ b + 1 + (i - 1) = b + i
    OBVIOUS
  <2>2. Y[b + 1 + (i - 1)] = X[b + 1 + (i - 1)]
    BY <2>1 DEF AgreeOn
  <2>3. Y[b + i] = X[b + i]
    BY <2>1, <2>2
  <2> QED  BY <2>3 DEF Sym
<1>2. ASSUME at > 0 PROVE \A j : Sym(l, Y, b + F + 1, j) = Sym(l, X, b + F + 1, j)
  <2>1. F \in 0 .. (IF at = 0 THEN F ELSE F + 1) - 1 /\ b + 1 + F = b + F + 1
    BY <1>2
  <2>2. Y[b + 1 + F] = X[b + 1 + F]
    BY <2>1 DEF AgreeOn
  <2>3. Y[b + F + 1] = X[b + F + 1]
    BY <2>1, <2>2
  <2> QED  BY <2>3 DEF Sym
<1>3. FilesTo(l, p, a, F, b, Y)
  BY <1>1 DEF FilesTo
<1>4. Begun(l, p, a, at, F, b, Y)
  BY <1>2 DEF Begun
<1> QED  BY <1>3, <1>4

\* A frame comes.
LEMMA StreamMore ==
  ASSUME NEW l, l.d \in Nat, NEW p, NEW a, NEW f, IsSeq(f), NEW at \in 0 .. l.d,
         NEW n \in Nat, NEW F, NEW N, NEW b, NEW X, Stream(l, p, a, f, at, n, F, N, b, X),
         NEW x \in {{}, {2}}, NEW Y, Y = [X EXCEPT ![n + 1] = x],
         NEW s, IsSeq(s), OneFrame(l, s, Y, n + 1)
  PROVE  Stream(l, p, a, f \o s, at, n + 1, F, N + 1, b, Y)
<1>1. /\ F \in Nat /\ N \in Nat /\ b \in Nat /\ X \in Senders /\ b + F + N = n
      /\ FilesTo(l, p, a, F, b, X) /\ Begun(l, p, a, at, F, b, X)
      /\ Unread(l, f, at, b + F + 1, N, X)
  BY DEF Stream
<1>2. Y \in Senders /\ \A m \in Nat : m # n + 1 => Y[m] = X[m]
  BY <1>1 DEF Senders
<1>3. AgreeOn(X, Y, b + F + 1, N)
  <2>1. \A m \in 0 .. N - 1 : b + F + 1 + m \in Nat /\ b + F + 1 + m # n + 1
    BY <1>1
  <2> QED  BY <1>2, <2>1 DEF AgreeOn
<1>4. at > 0 => N > 0
  <2>1. Len(f) \in Nat
    BY JoinedTo
  <2>2. Len(f) + at = Whole(l, N) /\ Whole(l, 0) = 0
    BY <1>1, FrameSums DEF Unread
  <2> QED  BY <1>1, <2>1, <2>2
<1>5. AgreeOn(X, Y, b + 1, IF at = 0 THEN F ELSE F + 1)
  <2>1. \A m \in 0 .. (IF at = 0 THEN F ELSE F + 1) - 1 : b + 1 + m \in Nat /\ b + 1 + m # n + 1
    BY <1>1, <1>4
  <2> QED  BY <1>2, <2>1 DEF AgreeOn
<1>6. FilesTo(l, p, a, F, b, Y) /\ Begun(l, p, a, at, F, b, Y)
  BY <1>1, <1>5, SendersLater
<1>7. n + 1 = (b + F + 1) + N /\ b + F + 1 \in Nat /\ b + F + (N + 1) = n + 1 /\ N + 1 \in Nat
  BY <1>1
<1>8. Unread(l, f \o s, at, b + F + 1, N + 1, Y)
  <2>1. OneFrame(l, s, Y, (b + F + 1) + N)
    BY <1>7
  <2> QED  BY <1>1, <1>3, <1>7, <2>1, UnreadMore
<1> QED  BY <1>1, <1>2, <1>6, <1>7, <1>8 DEF Stream

\* The files of so many reads: whole frames, and what is left of the last one.
Files(l, p, a, reads) ==
  \E F \in Nat, r \in 0 .. l.d, b \in Nat, X \in Senders :
    reads = Whole(l, F) + r /\ FilesTo(l, p, a, F, b, X)
\* What is in the files while the queue goes on where they end.
LEMMA StreamFiles ==
  ASSUME NEW l, l.d \in Nat, NEW p, NEW a, NEW f, NEW at \in 0 .. l.d,
         NEW n, NEW F, NEW N, NEW b, NEW X, Stream(l, p, a, f, at, n, F, N, b, X)
  PROVE  Files(l, p, a, Len(p) + Len(a))
<1>1. /\ F \in Nat /\ b \in Nat /\ X \in Senders
      /\ FilesTo(l, p, a, F, b, X) /\ Begun(l, p, a, at, F, b, X)
  BY DEF Stream
<1>2. F + Before(l, F + 1) = Whole(l, F) /\ Before(l, F + 1) \in Nat
  BY <1>1, FrameSums
<1>3. /\ Len(p) = IF at = 0 THEN F ELSE F + 1
      /\ Len(a) = Before(l, F + 1) + (IF at = 0 THEN 0 ELSE at - 1)
  BY DEF Stream, Begun
<1>4. Len(p) + Len(a) = Whole(l, F) + at
  BY <1>1, <1>2, <1>3
<1> QED  BY <1>1, <1>4 DEF Files

\* A record behind the whole frames leaves these as they are.
LEMMA FilesKept ==
  ASSUME NEW l, l.d \in Nat, NEW p, IsSeq(p), NEW a, IsSeq(a), NEW w, NEW reads,
         Files(l, p, a, reads)
  PROVE  Files(l, Append(p, w), a, reads) /\ Files(l, p, Append(a, w), reads)
<1>1. PICK F \in Nat, r \in 0 .. l.d, b \in Nat, X \in Senders :
        reads = Whole(l, F) + r /\ FilesTo(l, p, a, F, b, X)
  BY DEF Files
<1>2. FilesTo(l, Append(p, w), a, F, b, X) /\ FilesTo(l, p, Append(a, w), F, b, X)
  BY <1>1, FilesGrow
<1> QED  BY <1>1, <1>2 DEF Files

\* Records of whole frames are of one frame each, and the frames follow each other.
LEMMA FilesInStep ==
  ASSUME NEW l, l.d \in Nat, NEW p, NEW a, NEW reads, Files(l, p, a, reads),
         NEW i \in Nat \ {0}, i * (1 + l.d) <= reads
  PROVE  /\ p[i].slot = l.slot[0] /\ p[i].round = p[1].round + i - 1 /\ p[i].from \in {{}, {2}}
         /\ \A j \in 1 .. l.d : a[(i - 1) * l.d + j] = [p[i] EXCEPT !.slot = l.slot[j]]
<1>1. PICK F \in Nat, r \in 0 .. l.d, b \in Nat, X \in Senders :
        reads = Whole(l, F) + r /\ FilesTo(l, p, a, F, b, X)
  BY DEF Files
<1>2. i \in 1 .. F /\ 1 \in 1 .. F
  <2>1. Whole(l, i) <= Whole(l, F) + r
    BY <1>1 DEF Whole
  <2>2. F < i => Whole(l, F) + 1 + l.d <= Whole(l, i)
    BY FrameSums
  <2>3. Whole(l, F) \in Nat /\ Whole(l, i) \in Nat
    BY FrameSums
  <2>4. ~(F < i)
    BY <2>1, <2>2, <2>3
  <2> QED  BY <2>4
<1>3. /\ p[i] = Sym(l, X, b + i, 0) /\ p[1] = Sym(l, X, b + 1, 0)
      /\ \A j \in 1 .. l.d : a[Before(l, i) + j] = Sym(l, X, b + i, j)
  BY <1>1, <1>2 DEF FilesTo
<1>4. p[i].slot = l.slot[0] /\ p[i].round = b + i /\ p[1].round = b + 1 /\ p[i].from = X[b + i]
  BY <1>3 DEF Sym
<1>5. X[b + i] \in {{}, {2}}
  BY DEF Senders
<1>6. ASSUME NEW j \in 1 .. l.d
      PROVE  a[(i - 1) * l.d + j] = [p[i] EXCEPT !.slot = l.slot[j]]
  <2>1. a[(i - 1) * l.d + j] = Sym(l, X, b + i, j)
    BY <1>3 DEF Before
  <2>2. [Sym(l, X, b + i, 0) EXCEPT !.slot = l.slot[j]] = Sym(l, X, b + i, j)
    BY DEF Sym
  <2> QED  BY <1>3, <2>1, <2>2
<1>7. b + i = b + 1 + i - 1
  OBVIOUS
<1> QED  BY <1>4, <1>5, <1>6, <1>7

\* The layout goes by the command line alone.
LEMMA LayoutSame ==
  ASSUME tool' = tool
  PROVE  Layout' = Layout /\ Bsched' = Bsched /\ Msched' = Msched /\ StartSymbol' = StartSymbol
<1>1. Gap' = Gap
  BY DEF Gap
<1>2. Layout' = Layout
  BY <1>1 DEF Layout, Slot, GapLen
<1> QED  BY <1>1, <1>2 DEF Bsched, Msched, StartSymbol

\* The slots of a frame: the pilot in slot 3, the data behind the gap.
LEMMA LayoutIs ==
  ASSUME Placed, Sounder
  PROVE  /\ Layout.d = tool.data /\ Layout.d \in Nat
         /\ \A j \in 0 .. Layout.d : Layout.slot[j] = Slot(j)
         /\ Layout.slot[0] = 3 /\ \A j \in 1 .. Layout.d : Layout.slot[j] = 3 + GapLen + j
<1>1. Layout.d = tool.data /\ tool.data \in Nat
  BY SoundPlaces DEF Layout
<1>2. \A j \in 0 .. tool.data : Layout.slot[j] = Slot(j)
  BY DEF Layout
<1>3. 0 \in 0 .. tool.data /\ \A j \in 1 .. tool.data : j \in 0 .. tool.data /\ j # 0
  BY <1>1
<1> QED  BY <1>1, <1>2, <1>3 DEF Slot

\* A frame without losses gives the base station's radio all of its symbols, and the
\* client sends in every one of them or in none.
LEMMA SounderFrame ==
  ASSUME Placed, Sounder, QuietInv,
         dev[1].mode = "free", dev[1].count > 0, dev[1].active,
         dev[1].slots = Bsched, dev[2].slots = Msched, round \in Nat,
         NEW heard \in SUBSET {r \in Radios : dev[r].mode \in {"beacon", "resync"}},
         NEW X \in Senders
  PROVE  \E x \in {{}, {2}} : \E s :
           /\ IsSeq(s) /\ Played(heard \cup OnAir, {})[1].fifo = dev[1].fifo \o s
           /\ OneFrame(Layout, s, [X EXCEPT ![round + 1] = x], round + 1)
<1> DEFINE P == heard \cup OnAir
           x == IF 2 \in Players(P) THEN {2} ELSE {}
           s == Symbols(1, P, {})
           S == Places(Bsched)
           d == tool.data
           Y == [X EXCEPT ![round + 1] = x]
<1>0. 1 \in Radios /\ 2 \in Radios /\ d \in Nat
  <2>1. {1, 2} \subseteq Radios
    BY LabAssumption DEF Placed, Sounder
  <2> QED  BY <2>1, SoundPlaces
<1>1. Players(P) \subseteq {1, 2} /\ 1 \in Players(P)
  <2>1. \A r \in Radios : dev[r].mode = "off" \/ (r \in {1, 2} /\ dev[r].mode \in {"free", "beacon", "resync"})
    BY DEF QuietInv, ModesIn, Sounders
  <2>2. P \subseteq Radios /\ \A r \in P : dev[r].mode \in {"free", "beacon", "resync"}
    BY DEF OnAir
  <2>3. 1 \in OnAir
    BY <1>0 DEF OnAir
  <2> HIDE DEF P
  <2>4. \A r \in Players(P) : r \in Radios /\ dev[r].mode \in {"free", "beacon", "resync", "once"}
    BY <2>2 DEF Players
  <2>5. 1 \in Players(P)
    BY <2>3 DEF P, Players
  <2> QED  BY <2>1, <2>4, <2>5
<1>2. Reaches(1, {}) = S /\ Cardinality(S) = 1 + d /\ \A j \in 0 .. d : Nth(S, j + 1) = Slot(j)
  BY SoundPlaces DEF Reaches
<1>3. x \in {{}, {2}}
  OBVIOUS
<1>4. ASSUME NEW j \in 0 .. d PROVE {q \in Players(P) \ {1} : Sends(q, Slot(j))} = x
  <2>1. Sends(2, Slot(j))
    BY SoundPlaces DEF Sends
  <2> HIDE DEF P
  <2> QED  BY <1>1, <2>1
<1>5. /\ IsSeq(s) /\ Len(s) = 1 + d
      /\ Played(P, {})[1].fifo = dev[1].fifo \o s
  <2>1. Shape
    BY DEF QuietInv
  <2>2. Cardinality(Reaches(1, {})) \in Nat /\ Cardinality(Reaches(1, {})) = 1 + d
    BY <1>0, <1>2
  <2> HIDE DEF P
  <2>3. Played(P, {})[1].fifo = dev[1].fifo \o s
    BY <1>0, <1>1, <2>1, PlayedFifo
  <2>4. Len(s) = 1 + d /\ IsSeq(s)
    BY <2>2, SymbolsAre DEF IsSeq
  <2> QED  BY <2>3, <2>4
<1>6. ASSUME NEW j \in 0 .. d
      PROVE  s[j + 1] = [round |-> round + 1, slot |-> Slot(j), from |-> x]
  <2>1. j + 1 \in 1 .. Cardinality(Reaches(1, {})) /\ Nth(Reaches(1, {}), j + 1) = Slot(j)
    BY <1>0, <1>2
  <2> HIDE DEF P
  <2>2. s[j + 1] = Symbol(Slot(j), {q \in Players(P) \ {1} : Sends(q, Slot(j))})
    BY <2>1 DEF Symbols
  <2> QED  BY <1>4, <2>2 DEF Symbol
<1>7. Y[round + 1] = x
  BY DEF Senders
<1> HIDE DEF s, x, Y
<1>8. OneFrame(Layout, s, Y, round + 1)
  <2>1. ASSUME NEW j \in 0 .. d PROVE s[j + 1] = Sym(Layout, Y, round + 1, j)
    <3>1. Layout.slot[j] = Slot(j)
      BY LayoutIs
    <3> QED  BY <1>6, <1>7, <3>1 DEF Sym
  <2>2. Layout.d = d
    BY LayoutIs
  <2> QED  BY <1>5, <2>1, <2>2 DEF OneFrame
<1> QED  BY <1>3, <1>5, <1>8 DEF Y

-----------------------------------------------------------------------------
(* The phases of the sounder *)

Silent == ~dev[1].active /\ dev[1].fifo = <<>>
Beginning ==
  /\ job.running /\ job.at = 0 /\ job.after = 0 /\ job.rx = "ready"
  /\ out.pilots = <<>> /\ out.data = <<>>
Armed == dev[1].mode = "free" /\ dev[1].slots = Bsched /\ dev[2].slots = Msched

\* What waits to be read goes on where the files end.
Recording ==
  /\ job.running /\ job.after = 0 /\ job.at \in 0 .. tool.data
  /\ dev[1].count \in Nat \ {0} /\ IsSeq(dev[1].fifo)
  /\ job.rx = "run" => dev[1].active
  /\ job.rx # "run" => Silent /\ job.at = 0 /\ out.pilots = <<>> /\ out.data = <<>>
  /\ job.clean => \E F, N, b, X :
       Stream(Layout, out.pilots, out.data, dev[1].fifo, job.at, round, F, N, b, X)

\* The reader ends the frame it is in, whatever is there to read.
Finishing ==
  /\ ~job.running /\ dev[1].fifo = <<>> /\ job.at \in 0 .. tool.data
  /\ job.at > 0 => job.after < job.at

JobFields == {"running", "rx", "tx", "at", "wave", "clean", "after"}
OutFields == {"pilots", "data", "written"}
Recorded ==
  /\ DOMAIN job = JobFields /\ DOMAIN out = OutFields
  /\ IsSeq(out.pilots) /\ IsSeq(out.data) /\ job.after \in 0 .. tool.data
  /\ out.written \subseteq {StartSymbol + j : j \in 0 .. tool.data - 1}
  /\ job.clean => Files(Layout, out.pilots, out.data, Len(out.pilots) + Len(out.data) - job.after)

Working == {"sounder_arm", "sounder_handler", "sounder_trigger", "sounder_run", "sounder_stop"}
SounderInv ==
  Sounder => /\ round \in Nat
             /\ phase \in {"start", "sounder_open"} => Silent /\ out = <<>>
             /\ phase \in {"sounder_arm", "sounder_handler", "sounder_trigger"} => Silent /\ Beginning
             /\ phase \in {"sounder_handler", "sounder_trigger", "sounder_run"} => Armed
             /\ phase = "sounder_run" => Recording
             /\ phase = "sounder_stop" => Finishing
             /\ phase \in Working \/ out # <<>> => Recorded

\* What a step that leaves the files, the radios and the threads alone leaves as it was.
LEMMA SounderSame ==
  ASSUME UNCHANGED <<tool, job, dev, round, out>>
  PROVE  /\ Silent' <=> Silent
         /\ Beginning' <=> Beginning
         /\ Armed' <=> Armed
         /\ Recording' <=> Recording
         /\ Finishing' <=> Finishing
         /\ Recorded' <=> Recorded
<1>1. Layout' = Layout /\ Bsched' = Bsched /\ Msched' = Msched /\ StartSymbol' = StartSymbol
  BY LayoutSame
<1>2. Silent' <=> Silent
  BY DEF Silent
<1>3. Beginning' <=> Beginning
  BY DEF Beginning
<1>4. Armed' <=> Armed
  BY <1>1 DEF Armed
<1>5. Recording' <=> Recording
  BY <1>1, <1>2 DEF Recording
<1>6. Finishing' <=> Finishing
  BY DEF Finishing
<1>7. Recorded' <=> Recorded
  BY <1>1 DEF Recorded
<1> QED  BY <1>2, <1>3, <1>4, <1>5, <1>6, <1>7

\* Files that nobody writes to stay as they are.
LEMMA RecordedSame ==
  ASSUME tool' = tool, out' = out, Recorded, DOMAIN job' = JobFields, job'.after = job.after,
         job'.clean => job.clean
  PROVE  Recorded'
<1>1. Layout' = Layout /\ StartSymbol' = StartSymbol
  BY LayoutSame
<1> QED  BY <1>1 DEF Recorded

\* The two radios of the sounder.
LEMMA SounderRadios ==
  ASSUME Placed, Sounder, QuietInv
  PROVE  /\ 1 \in Radios /\ 2 \in Radios /\ 1 # 2 /\ DOMAIN dev = Radios
         /\ DOMAIN dev[1] = Fields /\ DOMAIN dev[2] = Fields
<1>1. {1, 2} \subseteq Radios
  BY LabAssumption DEF Placed, Sounder
<1> QED  BY <1>1 DEF QuietInv, Shape, Shaped

\* Steps that only lead to another phase.
LEMMA SounderSteady ==
  ASSUME Sounder, SounderInv,
         SounderMain \/ SounderHandled \/ FreeKilled \/ SounderOver \/ UNCHANGED toolVars
  PROVE  SounderInv'
<1>1. UNCHANGED <<tool, job, dev, round, out>>
  BY DEF SounderMain, SounderHandled, FreeKilled, SounderOver, toolVars
<1>2. /\ Silent' <=> Silent
      /\ Beginning' <=> Beginning
      /\ Armed' <=> Armed
      /\ Recording' <=> Recording
      /\ Finishing' <=> Finishing
      /\ Recorded' <=> Recorded
  BY <1>1, SounderSame
<1>3. \/ phase' = phase
      \/ phase = "start" /\ phase' = "sounder_open"
      \/ phase = "sounder_handler" /\ phase' = "sounder_trigger"
      \/ phase' = "over"
      \/ phase' = "stopped"
  BY DEF SounderMain, SounderHandled, FreeKilled, SounderOver, toolVars
<1> QED  BY <1>1, <1>2, <1>3 DEF SounderInv, Working

\* The files are new and empty.
LEMMA SounderOpened ==
  ASSUME Placed, Sounder, QuietInv, SounderInv, tool' = tool, SounderOpen
  PROVE  SounderInv'
<1>1. 1 \in Radios /\ DOMAIN dev[1] = Fields
  BY SounderRadios
<1>2. Silent'
  <2>1. dev'[1] = Stopped(dev[1])
    BY <1>1 DEF SounderOpen, Sounders
  <2> DEFINE d == dev[1]
             e == dev'[1]
  <2>2. e = [d EXCEPT !.mode = "off", !.fifo = <<>>, !.count = 0] /\ DOMAIN d = Fields
    BY <1>1, <2>1 DEF Stopped
  <2>3. ~d.active
    BY DEF SounderInv, SounderOpen, Silent
  <2> HIDE DEF d, e
  <2>4. e.active = d.active /\ e.fifo = <<>>
    BY <2>2 DEF Fields
  <2> QED  BY <2>3, <2>4 DEF Silent, e
<1>3. /\ job' = [running |-> TRUE, rx |-> "ready", tx |-> "ready", at |-> 0, wave |-> Zeros,
                 clean |-> TRUE, after |-> 0]
      /\ out' = [pilots |-> <<>>, data |-> <<>>, written |-> {}]
  BY DEF SounderOpen
<1>4. Beginning'
  BY <1>3 DEF Beginning
<1>5. Recorded'
  <2>1. Layout' = Layout /\ Layout.d = tool.data /\ Layout.d \in Nat
    BY LayoutSame, LayoutIs
  <2> DEFINE X == [n \in Nat |-> {}]
  <2>2. X \in Senders
    BY DEF Senders
  <2> HIDE DEF X
  <2>3. Files(Layout, <<>>, <<>>, 0)
    <3>1. Stream(Layout, <<>>, <<>>, <<>>, 0, 0, 0, 0, 0, X)
      BY <2>1, <2>2, StreamNone
    <3>2. Files(Layout, <<>>, <<>>, Len(<<>>) + Len(<<>>))
      BY <2>1, <3>1, StreamFiles
    <3> QED  BY <3>2
  <2>4. IsSeq(<<>>)
    <3>1. <<>> \in Seq({})
      OBVIOUS
    <3> QED  BY <3>1 DEF IsSeq
  <2>5. out'.pilots = <<>> /\ out'.data = <<>> /\ out'.written = {} /\ job'.after = 0
    BY <1>3
  <2>6. DOMAIN job' = JobFields /\ DOMAIN out' = OutFields
    BY <1>3 DEF JobFields, OutFields
  <2>7. Len(<<>>) + Len(<<>>) - 0 = 0
    OBVIOUS
  <2> QED  BY <2>1, <2>3, <2>4, <2>5, <2>6, <2>7 DEF Recorded
<1>6. round' = round /\ phase' = "sounder_arm"
  BY DEF SounderOpen
<1> QED  BY <1>2, <1>4, <1>5, <1>6 DEF SounderInv

\* The radios get their schedules.
LEMMA SounderArmed ==
  ASSUME Placed, Sounder, QuietInv, SounderInv, tool' = tool, SounderArm
  PROVE  SounderInv'
<1>1. /\ 1 \in Radios /\ 2 \in Radios /\ 1 # 2 /\ DOMAIN dev = Radios
      /\ DOMAIN dev[1] = Fields /\ DOMAIN dev[2] = Fields
  BY SounderRadios
<1>2. /\ phase = "sounder_arm" /\ round' = round /\ job' = job /\ out' = out
      /\ phase' = IF tool.both \/ tool.power THEN "stopped" ELSE "sounder_handler"
  BY DEF SounderArm
<1>3. round \in Nat /\ Silent /\ Beginning /\ Recorded
  BY <1>2 DEF SounderInv, Working
<1>4. Beginning' /\ Recorded'
  <2>1. DOMAIN job' = JobFields /\ job'.after = job.after /\ (job'.clean => job.clean)
    BY <1>2, <1>3 DEF Recorded
  <2>2. Recorded'
    BY <1>2, <1>3, <2>1, RecordedSame
  <2> QED  BY <1>2, <1>3, <2>2 DEF Beginning
<1>5. ASSUME ~tool.both PROVE Silent' /\ Armed'
  <2>1. PICK m, c :
          dev' = [dev EXCEPT ![1] = [@ EXCEPT !.mode = "free", !.slots = Bsched],
                             ![2] = [@ EXCEPT !.mode = m, !.slots = Msched, !.corr = c]]
    BY <1>5 DEF SounderArm
  <2>2. dev'[1] = [dev[1] EXCEPT !.mode = "free", !.slots = Bsched]
    BY <1>1, <2>1
  <2>3. dev'[2] = [dev[2] EXCEPT !.mode = m, !.slots = Msched, !.corr = c]
    BY <1>1, <2>1
  <2>4. dev'[1].mode = "free" /\ dev'[1].slots = Bsched /\ dev'[1].fifo = dev[1].fifo
        /\ dev'[1].active = dev[1].active
    BY <1>1, <2>2 DEF Fields
  <2>5. dev'[2].slots = Msched
    BY <1>1, <2>3 DEF Fields
  <2>6. Bsched' = Bsched /\ Msched' = Msched
    BY LayoutSame
  <2> QED  BY <1>3, <2>4, <2>5, <2>6 DEF Silent, Armed
<1> QED  BY <1>2, <1>3, <1>4, <1>5 DEF SounderInv

\* The first frame begins, and nobody has read anything yet.
LEMMA SounderTriggered ==
  ASSUME Placed, Sounder, QuietInv, SounderInv, tool' = tool, SounderTrigger
  PROVE  SounderInv'
<1>1. 1 \in Radios /\ 2 \in Radios /\ DOMAIN dev[1] = Fields /\ DOMAIN dev[2] = Fields
  BY SounderRadios
<1>2. /\ phase = "sounder_trigger" /\ phase' = "sounder_run" /\ dev' = Started
      /\ round' = round /\ job' = job /\ out' = out
  BY DEF SounderTrigger
<1>3. round \in Nat /\ Silent /\ Beginning /\ Armed /\ Recorded
  BY <1>2 DEF SounderInv, Working
<1>4. dev'[1] = [dev[1] EXCEPT !.count = 1]
  BY <1>1, <1>2, <1>3 DEF Started, Armed
<1>5. /\ dev'[1].count = 1 /\ dev'[1].mode = dev[1].mode /\ dev'[1].slots = dev[1].slots
      /\ dev'[1].active = dev[1].active /\ dev'[1].fifo = dev[1].fifo
  BY <1>1, <1>4 DEF Fields
<1>6. dev'[2].slots = dev[2].slots
  BY <1>1, <1>2 DEF Started, Fields
<1>7. Layout' = Layout /\ Bsched' = Bsched /\ Msched' = Msched /\ Layout.d = tool.data /\ Layout.d \in Nat
  BY LayoutSame, LayoutIs
<1>8. Armed' /\ Silent'
  BY <1>3, <1>5, <1>6, <1>7 DEF Armed, Silent
<1>9. Recorded'
  <2>1. DOMAIN job' = JobFields /\ job'.after = job.after /\ (job'.clean => job.clean)
    BY <1>2, <1>3 DEF Recorded
  <2> QED  BY <1>2, <1>3, <2>1, RecordedSame
<1>10. \E F, N, b, X : Stream(Layout, <<>>, <<>>, <<>>, 0, round, F, N, b, X)
  <2> DEFINE X == [n \in Nat |-> {}]
  <2>1. X \in Senders
    BY DEF Senders
  <2> HIDE DEF X
  <2>2. Stream(Layout, <<>>, <<>>, <<>>, 0, round, 0, 0, round, X)
    BY <1>3, <1>7, <2>1, StreamNone
  <2> QED  BY <2>2
<1>11. Recording'
  <2>1. /\ job'.running /\ job'.at = 0 /\ job'.after = 0 /\ job'.rx = "ready"
        /\ out'.pilots = <<>> /\ out'.data = <<>>
    BY <1>2, <1>3 DEF Beginning
  <2>2. IsSeq(<<>>)
    <3>1. <<>> \in Seq({})
      OBVIOUS
    <3> QED  BY <3>1 DEF IsSeq
  <2>3. dev'[1].count \in Nat \ {0} /\ dev'[1].fifo = <<>> /\ 0 \in 0 .. tool'.data
    BY <1>3, <1>5, <1>7 DEF Silent
  <2> QED  BY <1>2, <1>7, <1>8, <1>10, <2>1, <2>2, <2>3 DEF Recording
<1> QED  BY <1>2, <1>3, <1>8, <1>9, <1>11 DEF SounderInv

\* A thread activates its stream.
LEMMA SounderActivated ==
  ASSUME Placed, Sounder, QuietInv, SounderInv, tool' = tool, Activate
  PROVE  SounderInv'
<1>1. /\ 1 \in Radios /\ 2 \in Radios /\ 1 # 2 /\ DOMAIN dev = Radios
      /\ DOMAIN dev[1] = Fields /\ DOMAIN dev[2] = Fields
  BY SounderRadios
<1>2. /\ phase \in {"sounder_run", "sounder_stop"} /\ phase' = phase /\ round' = round /\ out' = out
  BY DEF Activate, Threads
<1>3. round \in Nat /\ Recorded /\ (phase = "sounder_run" => Armed /\ Recording)
      /\ (phase = "sounder_stop" => Finishing)
  BY <1>2 DEF SounderInv, Working
<1>4. DOMAIN job = JobFields
  BY <1>3 DEF Recorded
<1> DEFINE ThreadSame ==
        /\ DOMAIN job' = JobFields /\ job'.after = job.after /\ job'.clean = job.clean
        /\ job'.running = job.running /\ job'.at = job.at
        /\ job'.rx = job.rx \/ (job.rx = "ready" /\ job'.rx = "run")
        /\ dev'[1].count = dev[1].count /\ dev'[1].fifo = dev[1].fifo
        /\ dev'[1].mode = dev[1].mode /\ dev'[1].slots = dev[1].slots /\ dev'[2].slots = dev[2].slots
        /\ job'.rx = job.rx => dev'[1].active = dev[1].active
        /\ job'.rx # job.rx => dev'[1].active
<1>5. ThreadSame
  <2>1. CASE job' = [job EXCEPT !.tx = "run"] /\ dev' = [dev EXCEPT ![2].active = TRUE]
    <3>1. dev'[1] = dev[1] /\ dev'[2] = [dev[2] EXCEPT !.active = TRUE]
      BY <1>1, <2>1
    <3>2. dev'[2].slots = dev[2].slots
      BY <1>1, <3>1 DEF Fields
    <3>3. /\ DOMAIN job' = JobFields /\ job'.after = job.after /\ job'.clean = job.clean
          /\ job'.running = job.running /\ job'.at = job.at /\ job'.rx = job.rx
      BY <1>4, <2>1 DEF JobFields
    <3> QED  BY <3>1, <3>2, <3>3
  <2>2. CASE job.rx = "ready" /\ job' = [job EXCEPT !.rx = "run"] /\ dev' = [dev EXCEPT ![1].active = TRUE]
    <3>1. dev'[2] = dev[2] /\ dev'[1] = [dev[1] EXCEPT !.active = TRUE]
      BY <1>1, <2>2
    <3>2. /\ dev'[1].count = dev[1].count /\ dev'[1].fifo = dev[1].fifo /\ dev'[1].active
          /\ dev'[1].mode = dev[1].mode /\ dev'[1].slots = dev[1].slots
      BY <1>1, <3>1 DEF Fields
    <3>3. /\ DOMAIN job' = JobFields /\ job'.after = job.after /\ job'.clean = job.clean
          /\ job'.running = job.running /\ job'.at = job.at /\ job'.rx = "run"
      BY <1>4, <2>2 DEF JobFields
    <3> QED  BY <2>2, <3>1, <3>2, <3>3
  <2>3. \/ job' = [job EXCEPT !.tx = "run"] /\ dev' = [dev EXCEPT ![2].active = TRUE]
        \/ job.rx = "ready" /\ job' = [job EXCEPT !.rx = "run"] /\ dev' = [dev EXCEPT ![1].active = TRUE]
    BY DEF Activate
  <2> HIDE DEF ThreadSame
  <2> QED  BY <2>1, <2>2, <2>3
<1>6. Layout' = Layout /\ Bsched' = Bsched /\ Msched' = Msched
  BY LayoutSame
<1>7. Recorded'
  BY <1>2, <1>3, <1>5, RecordedSame
<1>8. Armed => Armed'
  BY <1>5, <1>6 DEF Armed
<1>9. Recording => Recording'
  BY <1>2, <1>5, <1>6 DEF Recording, Silent
<1>10. Finishing => Finishing'
  BY <1>5 DEF Finishing
<1> QED  BY <1>2, <1>3, <1>7, <1>8, <1>9, <1>10 DEF SounderInv

\* A pass of tx_thread.
LEMMA SounderSent ==
  ASSUME Placed, Sounder, QuietInv, SounderInv, tool' = tool, TxThread
  PROVE  SounderInv'
<1>1. /\ phase \in {"sounder_run", "sounder_stop"} /\ phase' = phase /\ round' = round
      /\ job' = job /\ dev' = dev /\ job.running
      /\ out' = [out EXCEPT !.written = @ \cup {StartSymbol + j : j \in 0 .. tool.data - 1}]
  BY DEF TxThread, Threads
<1>2. round \in Nat /\ Recorded /\ phase = "sounder_run" /\ Armed /\ Recording
  BY <1>1 DEF SounderInv, Working, Finishing
<1>3. /\ DOMAIN out' = OutFields /\ out'.pilots = out.pilots /\ out'.data = out.data
      /\ out'.written = out.written \cup {StartSymbol + j : j \in 0 .. tool.data - 1}
  BY <1>1, <1>2 DEF Recorded, OutFields
<1>4. Layout' = Layout /\ Bsched' = Bsched /\ Msched' = Msched /\ StartSymbol' = StartSymbol
  BY LayoutSame
<1>5. Recorded'
  <2>1. out'.written \subseteq {StartSymbol' + j : j \in 0 .. tool'.data - 1}
    BY <1>2, <1>3, <1>4 DEF Recorded
  <2> QED  BY <1>1, <1>2, <1>3, <1>4, <2>1 DEF Recorded
<1>6. Armed'
  BY <1>1, <1>2, <1>4 DEF Armed
<1>7. Recording'
  BY <1>1, <1>2, <1>3, <1>4 DEF Recording, Silent
<1> QED  BY <1>1, <1>2, <1>5, <1>6, <1>7 DEF SounderInv

\* tx_thread sees that the sounder has been stopped.
LEMMA SounderSentAll ==
  ASSUME Placed, Sounder, QuietInv, SounderInv, tool' = tool, TxThreadEnds
  PROVE  SounderInv'
<1>1. /\ phase \in {"sounder_run", "sounder_stop"} /\ phase' = phase /\ round' = round
      /\ dev' = dev /\ out' = out /\ ~job.running /\ job' = [job EXCEPT !.tx = "done"]
  BY DEF TxThreadEnds, Threads
<1>2. round \in Nat /\ Recorded /\ phase = "sounder_stop" /\ Finishing
  BY <1>1 DEF SounderInv, Working, Recording
<1>3. /\ DOMAIN job' = JobFields /\ job'.after = job.after /\ job'.clean = job.clean
      /\ job'.running = job.running /\ job'.at = job.at
  BY <1>1, <1>2 DEF Recorded, JobFields
<1>4. Recorded'
  BY <1>1, <1>2, <1>3, RecordedSame
<1>5. Finishing'
  BY <1>1, <1>2, <1>3 DEF Finishing
<1> QED  BY <1>1, <1>2, <1>4, <1>5 DEF SounderInv

\* A frame in which nothing is lost goes to the base station's queue as a whole, when its
\* stream is active.
LEMMA SounderWholeFrame ==
  ASSUME Placed, Sounder, QuietInv, Armed, Recording, Recorded, dev[1].active, round \in Nat,
         NEW heard \in SUBSET {r \in Radios : dev[r].mode \in {"beacon", "resync"}},
         job.clean
  PROVE  \E F, N, b, X :
           Stream(Layout, out.pilots, out.data, Played(heard \cup OnAir, {})[1].fifo, job.at,
                  round + 1, F, N, b, X)
<1>1. PICK F, N, b, X :
        Stream(Layout, out.pilots, out.data, dev[1].fifo, job.at, round, F, N, b, X)
  BY DEF Recording
<1>2. X \in Senders
  BY <1>1 DEF Stream
<1>3. Layout.d = tool.data /\ Layout.d \in Nat
  BY LayoutIs
<1>4. /\ dev[1].mode = "free" /\ dev[1].count > 0
      /\ dev[1].slots = Bsched /\ dev[2].slots = Msched /\ IsSeq(dev[1].fifo)
      /\ job.at \in 0 .. Layout.d
  BY <1>3 DEF Armed, Recording
<1>5. PICK x \in {{}, {2}} :
        \E s :
          /\ IsSeq(s) /\ Played(heard \cup OnAir, {})[1].fifo = dev[1].fifo \o s
          /\ OneFrame(Layout, s, [X EXCEPT ![round + 1] = x], round + 1)
  BY <1>2, <1>4, SounderFrame
<1>6. PICK s :
        /\ IsSeq(s) /\ Played(heard \cup OnAir, {})[1].fifo = dev[1].fifo \o s
        /\ OneFrame(Layout, s, [X EXCEPT ![round + 1] = x], round + 1)
  BY <1>5
<1> DEFINE Y == [X EXCEPT ![round + 1] = x]
<1>7. Y = [X EXCEPT ![round + 1] = x] /\ OneFrame(Layout, s, Y, round + 1)
  BY <1>6
<1> HIDE DEF Y
<1>8. Stream(Layout, out.pilots, out.data, dev[1].fifo \o s, job.at, round + 1, F, N + 1, b, Y)
  BY <1>1, <1>3, <1>4, <1>6, <1>7, StreamMore
<1> DEFINE q == Played(heard \cup OnAir, {})[1].fifo
<1>9. q = dev[1].fifo \o s
  BY <1>6
<1> HIDE DEF q
<1>10. Stream(Layout, out.pilots, out.data, q, job.at, round + 1, F, N + 1, b, Y)
  BY <1>8, <1>9
<1>11. \E G, M, c, Z : Stream(Layout, out.pilots, out.data, q, job.at, round + 1, G, M, c, Z)
  BY <1>10
<1> QED  BY <1>11 DEF q

\* A frame goes over the air.
LEMMA SounderPlays ==
  ASSUME Placed, Sounder, QuietInv, SounderInv, tool' = tool, FreeFrame
  PROVE  SounderInv'
<1>1. /\ 1 \in Radios /\ 2 \in Radios /\ DOMAIN dev[1] = Fields /\ DOMAIN dev[2] = Fields
  BY SounderRadios
<1>2. Shape
  BY DEF QuietInv
<1>3. phase = "sounder_run" /\ phase' = phase /\ round' = round + 1 /\ out' = out
  <2>1. phase \in {"sounder_run", "sweep_run"} /\ phase' = phase /\ round' = round + 1 /\ out' = out
    BY DEF FreeFrame
  <2>2. phase = "sweep_run" => Sweep
    BY PhaseTells
  <2> QED  BY <2>1, <2>2 DEF Sounder, Sweep
<1>4. round \in Nat /\ Recorded /\ Armed /\ Recording
  BY <1>3 DEF SounderInv, Working
<1>5. PICK lost \in Losses,
           heard \in SUBSET {r \in Radios : Beacon /\ dev[r].corr /\ dev[r].mode \in {"beacon", "resync"}} :
        /\ dev' = Played(heard \cup OnAir, lost)
        /\ job' = [job EXCEPT !.clean = @ /\ lost = {}]
  BY DEF FreeFrame
<1> DEFINE P == heard \cup OnAir
<1>6. heard \in SUBSET {r \in Radios : dev[r].mode \in {"beacon", "resync"}}
  OBVIOUS
<1>7. dev' = Played(P, lost)
  BY <1>5
<1>8. 1 \in P
  BY <1>1, <1>4 DEF OnAir, Armed, Recording
<1>9. Keeps(dev[1], dev'[1]) /\ Keeps(dev[2], dev'[2])
  <2> HIDE DEF P
  <2> QED  BY <1>1, <1>2, <1>7, PlayedIs
<1>10. DOMAIN job = JobFields /\ DOMAIN out = OutFields
  BY <1>4 DEF Recorded
<1>11. /\ DOMAIN job' = JobFields /\ job'.after = job.after /\ job'.running = job.running
       /\ job'.at = job.at /\ job'.rx = job.rx
       /\ job'.clean => job.clean /\ lost = {}
  BY <1>5, <1>10 DEF JobFields
<1>12. Layout' = Layout /\ Bsched' = Bsched /\ Msched' = Msched /\ Layout.d = tool.data /\ Layout.d \in Nat
  BY LayoutSame, LayoutIs
<1>13. Recorded'
  BY <1>3, <1>4, <1>11, RecordedSame
<1>14. Armed'
  BY <1>4, <1>9, <1>12 DEF Armed, Keeps
<1>15. /\ dev'[1].active <=> dev[1].active
       /\ dev'[1].count \in Nat \ {0}
  BY <1>4, <1>9 DEF Keeps, Recording
<1>16. /\ IsSeq(dev'[1].fifo)
       /\ ~dev[1].active => dev'[1].fifo = dev[1].fifo
  <2> HIDE DEF P
  <2>1. dev'[1].fifo = IF 1 \in Players(P) /\ dev[1].active THEN dev[1].fifo \o Symbols(1, P, lost)
                       ELSE dev[1].fifo
    BY <1>1, <1>2, <1>7, PlayedFifo
  <2>2. IsSeq(dev[1].fifo)
    BY <1>4 DEF Recording
  <2>3. IsSeq(Symbols(1, P, lost))
    <3>1. dev[1].slots \in Seq(Marks) /\ Reaches(1, lost) \in SUBSET Places(dev[1].slots)
      BY <1>4, SoundPlaces DEF Armed, Reaches
    <3>2. Cardinality(Reaches(1, lost)) \in Nat
      BY <3>1, PlacesFinite
    <3> QED  BY <3>2, SymbolsAre DEF IsSeq
  <2>4. IsSeq(dev[1].fifo \o Symbols(1, P, lost))
    BY <2>2, <2>3, JoinedTo
  <2> QED  BY <2>1, <2>2, <2>4
<1>17. ASSUME job'.clean
       PROVE  \E F, N, b, X :
                Stream(Layout, out.pilots, out.data, dev'[1].fifo, job.at, round + 1, F, N, b, X)
  <2>1. job.clean /\ lost = {}
    BY <1>11, <1>17
  <2>2. CASE dev[1].active
    BY <1>4, <1>5, <1>6, <2>1, <2>2, SounderWholeFrame
  <2>3. CASE ~dev[1].active
    <3>1. job.rx # "run" /\ dev'[1].fifo = <<>> /\ job.at = 0 /\ out.pilots = <<>> /\ out.data = <<>>
      BY <1>4, <1>16, <2>3 DEF Recording, Silent
    <3> DEFINE X == [n \in Nat |-> {}]
    <3>2. X \in Senders
      BY DEF Senders
    <3> HIDE DEF X
    <3>3. round + 1 \in Nat
      BY <1>4
    <3>4. Stream(Layout, <<>>, <<>>, <<>>, 0, round + 1, 0, 0, round + 1, X)
      BY <1>12, <3>2, <3>3, StreamNone
    <3> QED  BY <3>1, <3>4
  <2> QED  BY <2>2, <2>3
<1>18. Recording'
  <2>1. /\ job'.running /\ job'.after = 0 /\ job'.at \in 0 .. tool'.data
        /\ job'.rx = "run" => dev'[1].active
    BY <1>4, <1>11, <1>15 DEF Recording
  <2>2. job'.rx # "run" => Silent' /\ job'.at = 0 /\ out'.pilots = <<>> /\ out'.data = <<>>
    BY <1>3, <1>4, <1>11, <1>15, <1>16 DEF Recording, Silent
  <2>3. job'.clean => \E F, N, b, X :
          Stream(Layout', out'.pilots, out'.data, dev'[1].fifo, job'.at, round', F, N, b, X)
    BY <1>3, <1>11, <1>12, <1>17
  <2> QED  BY <1>15, <1>16, <2>1, <2>2, <2>3 DEF Recording
<1> QED  BY <1>3, <1>4, <1>13, <1>14, <1>18 DEF SounderInv

\* The queue of a radio after a read of one symbol.
LEMMA ReadOne ==
  ASSUME NEW r \in Radios, DOMAIN dev = Radios, DOMAIN dev[r] = Fields,
         dev' = [dev EXCEPT ![r].fifo = Beyond(1, @)]
  PROVE  /\ dev'[r].fifo = Beyond(1, dev[r].fifo)
         /\ dev'[r].active = dev[r].active /\ dev'[r].mode = dev[r].mode
         /\ dev'[r].slots = dev[r].slots /\ dev'[r].count = dev[r].count
         /\ \A q \in Radios \ {r} : dev'[q] = dev[q]
<1>1. dev'[r] = [dev[r] EXCEPT !.fifo = Beyond(1, @)]
  OBVIOUS
<1>2. \A q \in Radios \ {r} : dev'[q] = dev[q]
  OBVIOUS
<1> QED  BY <1>1, <1>2 DEF Fields

\* The next place in a frame.
LEMMA NextRead ==
  ASSUME NEW d \in Nat, NEW at \in 0 .. d
  PROVE  (at + 1) % (1 + d) = IF at = d THEN 0 ELSE at + 1
<1>1. CASE at = d
  <2>1. (1 + d) % (1 + d) = 0
    BY NextPlace
  <2> QED  BY <1>1
<1>2. CASE at # d
  BY <1>2
<1> QED  BY <1>1, <1>2

\* A read of rx_thread while the base station runs: the symbol that is next.
LEMMA SounderReads ==
  ASSUME Placed, Sounder, QuietInv, SounderInv, tool' = tool, RxThread, job.running
  PROVE  SounderInv'
<1>1. /\ 1 \in Radios /\ 2 \in Radios /\ 1 # 2 /\ DOMAIN dev = Radios
      /\ DOMAIN dev[1] = Fields /\ DOMAIN dev[2] = Fields
  BY SounderRadios
<1>2. /\ phase \in {"sounder_run", "sounder_stop"} /\ phase' = phase /\ round' = round
      /\ job.rx = "run" /\ dev[1].fifo # <<>>
      /\ dev' = [dev EXCEPT ![1].fifo = Beyond(1, @)]
  BY DEF RxThread, Threads
<1>3. round \in Nat /\ Recorded /\ phase = "sounder_run" /\ Armed /\ Recording
  BY <1>2 DEF SounderInv, Working, Finishing
<1> DEFINE w == dev[1].fifo[1]
           p == out.pilots
           a == out.data
           f == dev[1].fifo
           at == job.at
           q == IF at = 0 THEN Append(p, w) ELSE p
           c == IF at = 0 THEN a ELSE Append(a, w)
           u == IF at = tool.data THEN 0 ELSE at + 1
<1>4. /\ job' = [job EXCEPT !.wave = w, !.at = (@ + 1) % (1 + tool.data), !.after = 0]
      /\ out' = IF at = 0 THEN [out EXCEPT !.pilots = Append(@, w)]
                          ELSE [out EXCEPT !.data = Append(@, w)]
  BY <1>2 DEF RxThread, IntoPilots
<1>5. DOMAIN job = JobFields /\ DOMAIN out = OutFields
  BY <1>3 DEF Recorded
<1>6. Layout' = Layout /\ Bsched' = Bsched /\ Msched' = Msched /\ StartSymbol' = StartSymbol
      /\ Layout.d = tool.data /\ Layout.d \in Nat
  BY LayoutSame, LayoutIs
<1>7. at \in 0 .. tool.data /\ job.after = 0
  BY <1>3 DEF Recording
<1>8. /\ DOMAIN job' = JobFields /\ job'.after = 0 /\ job'.clean = job.clean
      /\ job'.running = job.running /\ job'.rx = job.rx /\ job'.at = u
  <2>1. (at + 1) % (1 + tool.data) = u
    BY <1>6, <1>7, NextRead
  <2> QED  BY <1>4, <1>5, <2>1 DEF JobFields
<1>9. DOMAIN out' = OutFields /\ out'.pilots = q /\ out'.data = c /\ out'.written = out.written
  BY <1>4, <1>5 DEF OutFields
<1>10. /\ dev'[1].fifo = Beyond(1, f) /\ dev'[1].active = dev[1].active
       /\ dev'[1].mode = dev[1].mode /\ dev'[1].slots = dev[1].slots
       /\ dev'[1].count = dev[1].count /\ dev'[2] = dev[2]
  BY <1>1, <1>2, ReadOne
<1>11. /\ IsSeq(p) /\ IsSeq(a) /\ IsSeq(f) /\ f # <<>>
  BY <1>2, <1>3 DEF Recorded, Recording
<1>12. IsSeq(q) /\ IsSeq(c) /\ IsSeq(Beyond(1, f))
  BY <1>11, GrowsBy, WithoutFirst
<1>13. u \in 0 .. tool.data
  BY <1>6, <1>7
<1>14. ASSUME job.clean
       PROVE  \E F, N, b, X : Stream(Layout, q, c, Beyond(1, f), u, round, F, N, b, X)
  <2>1. PICK F, N, b, X : Stream(Layout, p, a, f, at, round, F, N, b, X)
    BY <1>3, <1>14 DEF Recording
  <2>2. at \in 0 .. Layout.d
    BY <1>6, <1>7
  <2>3. Filed(Layout, p, a, f, at, q, c, u)
    BY <1>6 DEF Filed
  <2> HIDE DEF p, a, f, at, q, c, u, w
  <2>4. \E G, M : Stream(Layout, q, c, Beyond(1, f), u, round, G, M, b, X)
    BY <1>6, <1>11, <2>1, <2>2, <2>3, StreamNext
  <2> QED  BY <2>4
<1> HIDE DEF p, a, f, at, q, c, u, w
<1>15. ASSUME job.clean PROVE Files(Layout, q, c, Len(q) + Len(c) - 0)
  <2>1. PICK F, N, b, X : Stream(Layout, q, c, Beyond(1, f), u, round, F, N, b, X)
    BY <1>14, <1>15
  <2>2. u \in 0 .. Layout.d
    BY <1>6, <1>13
  <2>3. Files(Layout, q, c, Len(q) + Len(c))
    BY <1>6, <2>1, <2>2, StreamFiles
  <2>4. Len(q) \in Nat /\ Len(c) \in Nat
    BY <1>12, GrowsBy
  <2>5. Len(q) + Len(c) - 0 = Len(q) + Len(c)
    BY <2>4
  <2> QED  BY <2>3, <2>5
<1>16. Recorded'
  <2>1. job'.clean => Files(Layout', out'.pilots, out'.data, Len(out'.pilots) + Len(out'.data) - job'.after)
    BY <1>6, <1>8, <1>9, <1>15
  <2>2. out'.written \subseteq {StartSymbol' + j : j \in 0 .. tool'.data - 1}
    BY <1>3, <1>6, <1>9 DEF Recorded
  <2>3. job'.after \in 0 .. tool'.data
    BY <1>6, <1>8
  <2> QED  BY <1>8, <1>9, <1>12, <2>1, <2>2, <2>3 DEF Recorded
<1>17. Armed'
  BY <1>3, <1>6, <1>10 DEF Armed
<1>18. Recording'
  <2>1. job.running /\ dev[1].count \in Nat \ {0} /\ dev[1].active
    BY <1>2, <1>3 DEF Recording
  <2>2. job'.clean => \E F, N, b, X :
          Stream(Layout', out'.pilots, out'.data, dev'[1].fifo, job'.at, round', F, N, b, X)
    BY <1>2, <1>6, <1>8, <1>9, <1>10, <1>14
  <2> QED  BY <1>2, <1>8, <1>10, <1>12, <1>13, <2>1, <2>2 DEF Recording
<1> QED  BY <1>2, <1>3, <1>16, <1>17, <1>18 DEF SounderInv

\* A read of rx_thread after the interrupt: it fails.
LEMMA SounderReadsOn ==
  ASSUME Placed, Sounder, QuietInv, SounderInv, tool' = tool, RxThread, ~job.running
  PROVE  SounderInv'
<1>1. /\ 1 \in Radios /\ DOMAIN dev = Radios /\ DOMAIN dev[1] = Fields
  BY SounderRadios
<1>2. /\ phase \in {"sounder_run", "sounder_stop"} /\ phase' = phase /\ round' = round
      /\ job.rx = "run" /\ job.at > 0
      /\ dev' = [dev EXCEPT ![1].fifo = Beyond(1, @)]
  BY DEF RxThread, Threads
<1>3. round \in Nat /\ Recorded /\ phase = "sounder_stop" /\ Finishing
  BY <1>2 DEF SounderInv, Working, Recording
<1> DEFINE w == job.wave
           p == out.pilots
           a == out.data
           at == job.at
           u == IF at = tool.data THEN 0 ELSE at + 1
<1>4. Layout' = Layout /\ StartSymbol' = StartSymbol /\ Layout.d = tool.data /\ Layout.d \in Nat
  BY LayoutSame, LayoutIs
<1>5. /\ dev[1].fifo = <<>> /\ at \in 0 .. tool.data /\ at > 0 /\ job.after < at
      /\ job.after \in 0 .. tool.data
  BY <1>2, <1>3 DEF Finishing, Recorded
<1>6. /\ job' = [job EXCEPT !.wave = w, !.at = (@ + 1) % (1 + tool.data), !.after = @ + 1]
      /\ out' = [out EXCEPT !.data = Append(@, w)]
  BY <1>4, <1>5 DEF RxThread, IntoPilots
<1>7. DOMAIN job = JobFields /\ DOMAIN out = OutFields /\ IsSeq(p) /\ IsSeq(a)
  BY <1>3 DEF Recorded
<1>8. /\ DOMAIN job' = JobFields /\ job'.after = job.after + 1 /\ job'.clean = job.clean
      /\ job'.running = job.running /\ job'.rx = job.rx /\ job'.at = u
  <2>1. (at + 1) % (1 + tool.data) = u
    BY <1>4, <1>5, NextRead
  <2> QED  BY <1>6, <1>7, <2>1 DEF JobFields
<1>9. DOMAIN out' = OutFields /\ out'.pilots = p /\ out'.data = Append(a, w) /\ out'.written = out.written
  BY <1>6, <1>7 DEF OutFields
<1>10. dev'[1].fifo = <<>>
  <2>1. dev'[1].fifo = Beyond(1, <<>>)
    BY <1>1, <1>2, <1>5, ReadOne
  <2>2. Beyond(1, <<>>) = <<>>
    BY DEF Beyond
  <2> QED  BY <2>1, <2>2
<1>11. /\ u \in 0 .. tool.data /\ job.after + 1 \in 0 .. tool.data
       /\ u > 0 => job.after + 1 < u
  BY <1>4, <1>5
<1> DEFINE c == Append(a, w)
<1>12. /\ IsSeq(c) /\ Len(p) + Len(c) - (job.after + 1) = Len(p) + Len(a) - job.after
  <2>1. Len(p) \in Nat /\ Len(a) \in Nat /\ Len(c) = Len(a) + 1 /\ IsSeq(c)
    BY <1>7, GrowsBy
  <2> HIDE DEF c
  <2> QED  BY <1>4, <1>5, <2>1
<1>13. ASSUME job.clean PROVE Files(Layout, p, c, Len(p) + Len(c) - (job.after + 1))
  <2>1. Files(Layout, p, a, Len(p) + Len(a) - job.after)
    BY <1>3, <1>13 DEF Recorded
  <2>2. Files(Layout, p, c, Len(p) + Len(a) - job.after)
    BY <1>4, <1>7, <2>1, FilesKept
  <2> HIDE DEF c, p, a
  <2> QED  BY <1>12, <2>2
<1>14. c = Append(a, w)
  OBVIOUS
<1> HIDE DEF c, p, a, w, u, at
<1>15. Recorded'
  <2>1. job'.clean => Files(Layout', out'.pilots, out'.data, Len(out'.pilots) + Len(out'.data) - job'.after)
    BY <1>4, <1>8, <1>9, <1>13, <1>14
  <2>2. out'.written \subseteq {StartSymbol' + j : j \in 0 .. tool'.data - 1}
    BY <1>3, <1>4, <1>9 DEF Recorded
  <2>3. job'.after \in 0 .. tool'.data
    BY <1>8, <1>11
  <2> QED  BY <1>7, <1>8, <1>9, <1>12, <1>14, <2>1, <2>2, <2>3 DEF Recorded
<1>16. Finishing'
  <2>1. job'.at \in 0 .. tool'.data /\ (job'.at > 0 => job'.after < job'.at)
    BY <1>8, <1>11
  <2> QED  BY <1>8, <1>10, <2>1 DEF Finishing
<1> QED  BY <1>2, <1>3, <1>15, <1>16 DEF SounderInv

\* rx_thread closes its stream.
LEMMA SounderReadAll ==
  ASSUME Placed, Sounder, QuietInv, SounderInv, tool' = tool, RxThreadEnds
  PROVE  SounderInv'
<1>1. /\ 1 \in Radios /\ DOMAIN dev = Radios /\ DOMAIN dev[1] = Fields
  BY SounderRadios
<1>2. /\ phase \in {"sounder_run", "sounder_stop"} /\ phase' = phase /\ round' = round
      /\ out' = out /\ ~job.running /\ job' = [job EXCEPT !.rx = "done"]
      /\ dev' = [dev EXCEPT ![1] = Closed(@)]
  BY DEF RxThreadEnds, Threads
<1>3. round \in Nat /\ Recorded /\ phase = "sounder_stop" /\ Finishing
  BY <1>2 DEF SounderInv, Working, Recording
<1>4. /\ DOMAIN job' = JobFields /\ job'.after = job.after /\ job'.clean = job.clean
      /\ job'.running = job.running /\ job'.at = job.at
  BY <1>2, <1>3 DEF Recorded, JobFields
<1>5. dev'[1].fifo = <<>>
  <2>1. dev'[1] = [dev[1] EXCEPT !.active = FALSE, !.fifo = <<>>]
    BY <1>1, <1>2 DEF Closed
  <2> QED  BY <1>1, <2>1 DEF Fields
<1>6. Recorded'
  BY <1>2, <1>3, <1>4, RecordedSame
<1>7. Finishing'
  BY <1>2, <1>3, <1>4, <1>5 DEF Finishing
<1> QED  BY <1>2, <1>3, <1>6, <1>7 DEF SounderInv

\* The interrupt: the radios are stopped, and what nobody has read is gone.
LEMMA SounderStops ==
  ASSUME Placed, Sounder, QuietInv, SounderInv, tool' = tool, SounderHandler
  PROVE  SounderInv'
<1>1. /\ 1 \in Radios /\ DOMAIN dev[1] = Fields
  BY SounderRadios
<1>2. /\ phase \in {"sounder_trigger", "sounder_run"} /\ round' = round /\ out' = out
      /\ job' = [job EXCEPT !.running = FALSE]
      /\ phase' = IF phase = "sounder_run" THEN "sounder_stop" ELSE "over"
      /\ dev'[1] = [Stopped(dev[1]) EXCEPT !.corr = FALSE]
  BY <1>1 DEF SounderHandler, Sounders
<1>3. /\ round \in Nat /\ Recorded
      /\ phase = "sounder_run" => Recording
  BY <1>2 DEF SounderInv, Working
<1>4. /\ DOMAIN job' = JobFields /\ job'.after = job.after /\ job'.clean = job.clean
      /\ job'.running = FALSE /\ job'.at = job.at
  BY <1>2, <1>3 DEF Recorded, JobFields
<1>5. dev'[1].fifo = <<>>
  <2> DEFINE d == dev[1]
             e == Stopped(d)
  <2>1. e = [d EXCEPT !.mode = "off", !.fifo = <<>>, !.count = 0] /\ DOMAIN d = Fields
    BY <1>1 DEF Stopped
  <2>2. dev'[1] = [e EXCEPT !.corr = FALSE]
    BY <1>2
  <2> HIDE DEF d, e
  <2>3. e.fifo = <<>> /\ DOMAIN e = Fields
    BY <2>1 DEF Fields
  <2> QED  BY <2>2, <2>3 DEF Fields
<1>6. Recorded'
  BY <1>2, <1>3, <1>4, RecordedSame
<1>7. phase = "sounder_run" => Finishing'
  BY <1>2, <1>3, <1>4, <1>5 DEF Finishing, Recording
<1> QED  BY <1>2, <1>3, <1>6, <1>7 DEF SounderInv

\* The invariant of the sounder is inductive.
LEMMA SounderStep == ASSUME Placed, QuietInv, SounderInv, [Next]_toolVars PROVE SounderInv'
<1>1. tool' = tool
  BY PlacedStep
<1>2. CASE ~Sounder
  BY <1>1, <1>2 DEF SounderInv, Sounder
<1>3. CASE Sounder
  <2>1. CASE SounderMain \/ SounderHandled \/ FreeKilled \/ SounderOver \/ UNCHANGED toolVars
    BY <1>3, <2>1, SounderSteady
  <2>2. CASE SounderOpen
    BY <1>1, <1>3, <2>2, SounderOpened
  <2>3. CASE SounderArm
    BY <1>1, <1>3, <2>3, SounderArmed
  <2>4. CASE SounderTrigger
    BY <1>1, <1>3, <2>4, SounderTriggered
  <2>5. CASE FreeFrame
    BY <1>1, <1>3, <2>5, SounderPlays
  <2>6. CASE Activate
    BY <1>1, <1>3, <2>6, SounderActivated
  <2>7. CASE TxThread
    BY <1>1, <1>3, <2>7, SounderSent
  <2>8. CASE TxThreadEnds
    BY <1>1, <1>3, <2>8, SounderSentAll
  <2>9. CASE RxThread
    BY <1>1, <1>3, <2>9, SounderReads, SounderReadsOn
  <2>10. CASE RxThreadEnds
    BY <1>1, <1>3, <2>10, SounderReadAll
  <2>11. CASE SounderHandler
    BY <1>1, <1>3, <2>11, SounderStops
  <2>12. SounderSteps \/ UNCHANGED toolVars
    BY <1>3, OwnSteps
  <2> QED
    BY <2>1, <2>2, <2>3, <2>4, <2>5, <2>6, <2>7, <2>8, <2>9, <2>10, <2>11, <2>12 DEF SounderSteps
<1> QED  BY <1>2, <1>3

\* What InStep says of the sounder.
LEMMA SounderEnough ==
  ASSUME Placed, Sounder, SounderInv, out # <<>>
  PROVE  /\ job.clean =>
              \A i \in DOMAIN out.pilots :
                i * (1 + tool.data) <= Len(out.pilots) + Len(out.data) - job.after =>
                  /\ out.pilots[i].slot = 3
                  /\ out.pilots[i].round = out.pilots[1].round + i - 1
                  /\ out.pilots[i].from \in {{}, {2}}
                  /\ \A j \in 1 .. tool.data :
                       out.data[(i - 1) * tool.data + j]
                         = [out.pilots[i] EXCEPT !.slot = 3 + Len(Gap) + j]
         /\ job.after <= tool.data
         /\ tool.syms >= tool.data + 4 =>
              \A k \in out.written : k + 1 \in DOMAIN Msched /\ Msched[k + 1] = "T"
<1>1. Recorded
  BY DEF SounderInv
<1>2. /\ Layout.d = tool.data /\ Layout.d \in Nat
      /\ Layout.slot[0] = 3 /\ \A j \in 1 .. Layout.d : Layout.slot[j] = 3 + GapLen + j
  BY LayoutIs
<1>3. Len(Gap) = GapLen
  BY DEF GapLen
<1>4. ASSUME job.clean, NEW i \in DOMAIN out.pilots,
             i * (1 + tool.data) <= Len(out.pilots) + Len(out.data) - job.after
      PROVE  /\ out.pilots[i].slot = 3
             /\ out.pilots[i].round = out.pilots[1].round + i - 1
             /\ out.pilots[i].from \in {{}, {2}}
             /\ \A j \in 1 .. tool.data :
                  out.data[(i - 1) * tool.data + j]
                    = [out.pilots[i] EXCEPT !.slot = 3 + Len(Gap) + j]
  <2> DEFINE reads == Len(out.pilots) + Len(out.data) - job.after
  <2>1. Files(Layout, out.pilots, out.data, reads)
    BY <1>1, <1>4 DEF Recorded
  <2>2. i \in Nat \ {0}
    <3>1. PICK Y : out.pilots \in Seq(Y)
      BY <1>1 DEF Recorded, IsSeq
    <3> QED  BY <3>1
  <2>3. i * (1 + Layout.d) <= reads
    BY <1>2, <1>4
  <2> HIDE DEF reads
  <2>4. /\ out.pilots[i].slot = Layout.slot[0]
        /\ out.pilots[i].round = out.pilots[1].round + i - 1
        /\ out.pilots[i].from \in {{}, {2}}
        /\ \A j \in 1 .. Layout.d : out.data[(i - 1) * Layout.d + j]
                                      = [out.pilots[i] EXCEPT !.slot = Layout.slot[j]]
    <3> DEFINE l == Layout
               p == out.pilots
               a == out.data
    <3>1. l.d \in Nat /\ Files(l, p, a, reads) /\ i * (1 + l.d) <= reads
      BY <1>2, <2>1, <2>3
    <3> HIDE DEF l, p, a
    <3>2. /\ p[i].slot = l.slot[0] /\ p[i].round = p[1].round + i - 1 /\ p[i].from \in {{}, {2}}
          /\ \A j \in 1 .. l.d : a[(i - 1) * l.d + j] = [p[i] EXCEPT !.slot = l.slot[j]]
      BY <2>2, <3>1, FilesInStep
    <3> QED  BY <3>2 DEF l, p, a
  <2>5. ASSUME NEW j \in 1 .. tool.data
        PROVE  out.data[(i - 1) * tool.data + j] = [out.pilots[i] EXCEPT !.slot = 3 + Len(Gap) + j]
    <3>1. out.data[(i - 1) * tool.data + j] = [out.pilots[i] EXCEPT !.slot = Layout.slot[j]]
      BY <1>2, <2>4
    <3>2. Layout.slot[j] = 3 + Len(Gap) + j
      BY <1>2, <1>3
    <3> QED  BY <3>1, <3>2
  <2>6. out.pilots[i].slot = 3
    BY <1>2, <2>4
  <2> QED  BY <2>4, <2>5, <2>6
<1>5. ASSUME tool.syms >= tool.data + 4, NEW k \in out.written
      PROVE  k + 1 \in DOMAIN Msched /\ Msched[k + 1] = "T"
  <2>1. PICK j \in 0 .. tool.data - 1 : k = StartSymbol + j
    BY <1>1 DEF Recorded
  <2>2. tool.syms \in Nat /\ tool.data \in Nat /\ GapLen = tool.syms - tool.data - 4
    BY <1>5, SoundPlaces, LabAssumption DEF Placed, Sounder
  <2>3. j + 1 \in 1 .. tool.data /\ j + 1 \in 0 .. tool.data /\ j + 1 # 0
    BY <2>2
  <2>4. Slot(j + 1) = k + 1
    <3>1. Slot(j + 1) = 3 + GapLen + (j + 1)
      BY <2>3 DEF Slot
    <3>2. k = tool.syms - tool.data - 1 + j
      BY <2>1 DEF StartSymbol
    <3> DEFINE x == Slot(j + 1)
               g == GapLen
               m == tool.syms
               d == tool.data
    <3>3. x = 3 + g + (j + 1) /\ k = m - d - 1 + j /\ g = m - d - 4 /\ m \in Nat /\ d \in Nat /\ j \in Int
      BY <2>2, <3>1, <3>2
    <3> HIDE DEF x, g, m, d
    <3>4. x = k + 1
      BY <3>3
    <3> QED  BY <3>4 DEF x
  <2>5. Slot(j + 1) \in DOMAIN Msched /\ Msched[Slot(j + 1)] = "T"
    BY <2>3, SoundPlaces
  <2> QED  BY <2>4, <2>5
<1>6. job.after <= tool.data
  BY <1>1, <1>2 DEF Recorded
<1> QED  BY <1>4, <1>5, <1>6

\* The files of the sounder are in step as long as no symbol is lost, its symbols are sent in
\* the slots its schedule has for them, and the average of the receiver is of its last
\* frames.
THEOREM InStepAlways == Spec => []InStep
<1>1. Init => Placed /\ QuietInv /\ RecvInv /\ SounderInv
  <2> SUFFICES ASSUME Init PROVE Placed /\ QuietInv /\ RecvInv /\ SounderInv
    OBVIOUS
  <2>1. Placed /\ QuietInv
    BY QuietInit
  <2>2. phase = "start" /\ out = <<>> /\ round = 0 /\ \A r \in Radios : dev[r] = Idle
    BY DEF Init
  <2>3. RecvInv
    BY <2>2 DEF RecvInv
  <2>4. ASSUME Sounder PROVE Silent
    <3>1. dev[1] = Idle
      BY <2>1, <2>2, <2>4, SounderRadios
    <3> QED  BY <3>1 DEF Silent, Idle
  <2>5. SounderInv
    BY <2>2, <2>4 DEF SounderInv, Working
  <2> QED  BY <2>1, <2>3, <2>5
<1>2. /\ Placed /\ QuietInv /\ RecvInv /\ SounderInv /\ [Next]_toolVars
      => Placed' /\ QuietInv' /\ RecvInv' /\ SounderInv'
  <2> SUFFICES ASSUME Placed, QuietInv, RecvInv, SounderInv, [Next]_toolVars
               PROVE  Placed' /\ QuietInv' /\ RecvInv' /\ SounderInv'
    OBVIOUS
  <2> QED  BY PlacedStep, QuietStep, RecvStep, SounderStep
<1>3. Placed /\ RecvInv /\ SounderInv => InStep
  <2> SUFFICES ASSUME Placed, RecvInv, SounderInv PROVE InStep
    OBVIOUS
  <2>1. Recv /\ out # <<>> /\ round >= AvgLen =>
          {out.ring[k] : k \in DOMAIN out.ring} = round - AvgLen + 1 .. round
    BY RecvEnough
  <2> QED  BY <2>1, SounderEnough DEF InStep
<1> QED  BY <1>1, <1>2, <1>3, PTL DEF Spec
=============================================================================
