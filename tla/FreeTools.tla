------------------------------ MODULE FreeTools ------------------------------
(***************************************************************************)
(* The demos whose radios go on by themselves once they are triggered:     *)
(* SOUNDER_TXRX.py ("sounder": a thread sends, a thread records),          *)
(* BEACON_SWEEP.py ("sweep": a beacon in every frame), SISO_OFDM.py        *)
(* ("ofdm": a radio repeats its memory, another one takes snapshots) and   *)
(* its halves SISO_TX.py ("siggen") and SISO_RX.py ("rx").                 *)
(* Ctrl-C may come between any two steps.                                  *)
(***************************************************************************)
EXTENDS IrisRadio

CONSTANTS
  FreeRounds,  \* bound: frames on the air
  Buffer,      \* samples of a snapshot
  Payload,     \* samples of the OFDM payload
  Peaks,       \* where find_lts may put the end of the preamble
  AvgLen       \* num_samps_circ_buff

ASSUME FreeAssumption ==
  AvgLen \in Nat \ {0} /\ Buffer \in Nat /\ Payload \in Nat /\ Peaks \subseteq Int

RepeatOf(c, n) == [i \in 1 .. n |-> c]  \* ''.join(c*n); nothing when n < 0

\* A trigger: the radios that run freely begin with their first frame.
Started == [r \in Radios |-> IF dev[r].mode = "free" THEN [dev[r] EXCEPT !.count = 1] ELSE dev[r]]
-----------------------------------------------------------------------------
(* SOUNDER_TXRX.py: radio 1 is bsdr, radio 2 is msdr *)

Sounder  == tool.name = "sounder"
Sounders == {1, 2}

SounderMain ==
  /\ Sounder /\ phase = "start"
  /\ phase' = IF tool.valid THEN "sounder_open" ELSE "over"
  /\ UNCHANGED <<tool, job, dev, round, out>>

SounderOpen ==
  /\ Sounder /\ phase = "sounder_open"
  /\ phase' = "sounder_arm"
  /\ dev' = [r \in Radios |-> IF r \in Sounders THEN Stopped(dev[r]) ELSE dev[r]]
  /\ job' = [running |-> TRUE, rx |-> "ready", tx |-> "ready", at |-> 0, wave |-> Zeros,
             clean |-> TRUE, after |-> 0]
  /\ out' = [pilots |-> <<>>, data |-> <<>>, written |-> {}]
  /\ UNCHANGED <<tool, round>>

Gap == RepeatOf("G", tool.syms - tool.data - 4)
Bsched == <<"B", "G", "R">> \o Gap \o RepeatOf("R", tool.data) \o <<"G">>
Msched == <<"G", "G", "P">> \o Gap \o RepeatOf("T", tool.data) \o <<"G">>

\* hadamard is not imported, and tx_gain not defined: two options end the tool
\* with a NameError, one before the radios have a schedule and one after.
SounderArm ==
  /\ Sounder /\ phase = "sounder_arm"
  /\ IF tool.both THEN UNCHANGED dev
     ELSE dev' = [dev EXCEPT ![1] = [@ EXCEPT !.mode = "free", !.slots = Bsched],
                             ![2] = [@ EXCEPT !.mode = IF tool.trig THEN "free"
                                                       ELSE IF tool.wait THEN "beacon" ELSE "resync",
                                              !.slots = Msched,
                                              !.corr = ~tool.trig /\ ~tool.power]]
  /\ phase' = IF tool.both \/ tool.power THEN "stopped" ELSE "sounder_handler"
  /\ UNCHANGED <<tool, job, round, out>>

\* signal.signal, and only then the trigger and the threads.
SounderHandled ==
  /\ Sounder /\ phase = "sounder_handler"
  /\ phase' = "sounder_trigger"
  /\ UNCHANGED <<tool, job, dev, round, out>>

SounderTrigger ==
  /\ Sounder /\ phase = "sounder_trigger"
  /\ phase' = "sounder_run" /\ dev' = Started
  /\ UNCHANGED <<tool, job, round, out>>

\* A frame: the triggered radios go on; a client that is resynchronised at every
\* beacon goes on without one, a client that waits for triggers does not.
\* A stream that is activated within a frame misses symbols, like a loss.
OnAir == {r \in Radios : dev[r].mode \in {"free", "resync"} /\ dev[r].count > 0}
FreeFrame ==
  /\ phase \in {"sounder_run", "sweep_run"} /\ round < FreeRounds
  /\ \E lost \in Losses,
        heard \in SUBSET {r \in Radios : Beacon /\ dev[r].corr /\ dev[r].mode \in {"beacon", "resync"}} :
       /\ dev' = Played(heard \cup OnAir, lost)
       /\ job' = IF Sounder THEN [job EXCEPT !.clean = @ /\ lost = {}] ELSE job
  /\ round' = round + 1
  /\ UNCHANGED <<tool, phase, out>>

Threads == phase \in {"sounder_run", "sounder_stop"}

\* tx_thread and rx_thread activate their streams.
Activate ==
  /\ Sounder /\ Threads
  /\ \/ /\ job.tx = "ready" /\ job' = [job EXCEPT !.tx = "run"]
        /\ dev' = [dev EXCEPT ![2].active = TRUE]
     \/ /\ job.rx = "ready" /\ job' = [job EXCEPT !.rx = "run"]
        /\ dev' = [dev EXCEPT ![1].active = TRUE]
  /\ UNCHANGED <<tool, phase, round, out>>

\* A read of tx_thread that returns something gives the frame to send in; its
\* symbols go to the slots from startSymbol on.  Whether the client receives
\* anything with a schedule that has no "R" is up to the radio.
StartSymbolLate == tool.syms - tool.data  \* mutant: one slot late
StartSymbol == tool.syms - tool.data - 1
TxThread ==
  /\ Sounder /\ Threads /\ job.tx = "run" /\ job.running /\ tool.data > 0 /\ round > 0
  /\ out' = [out EXCEPT !.written = @ \cup {StartSymbol + j : j \in 0 .. tool.data - 1}]
  /\ UNCHANGED <<tool, phase, job, dev, round>>
TxThreadEnds ==
  /\ Sounder /\ Threads /\ job.tx = "run" /\ ~job.running
  /\ job' = [job EXCEPT !.tx = "done"]
  /\ UNCHANGED <<tool, phase, dev, round, out>>

\* A read of rx_thread: the pilot, then the data of a frame.  A read that fails
\* leaves the array as it was, and the array is written to the file anyway.
\* While the base station runs, a read waits for the next frame.
IntoPilots(at) == at = 0
RxThread ==
  /\ Sounder /\ Threads /\ job.rx = "run"
  /\ job.at > 0 \/ job.running
  /\ dev[1].fifo # <<>> \/ ~job.running
  /\ LET wave == IF dev[1].fifo = <<>> THEN job.wave ELSE dev[1].fifo[1]
     IN  /\ job' = [job EXCEPT !.wave = wave, !.at = (@ + 1) % (1 + tool.data),
                               !.after = IF job.running THEN 0 ELSE @ + 1]
         /\ out' = IF IntoPilots(job.at) THEN [out EXCEPT !.pilots = Append(@, wave)]
                                         ELSE [out EXCEPT !.data = Append(@, wave)]
  /\ dev' = [dev EXCEPT ![1].fifo = Beyond(1, @)]
  /\ UNCHANGED <<tool, phase, round>>
RxThreadEnds ==
  /\ Sounder /\ Threads /\ job.rx = "run" /\ job.at = 0 /\ ~job.running
  /\ job' = [job EXCEPT !.rx = "done"]
  /\ dev' = [dev EXCEPT ![1] = Closed(@)]
  /\ UNCHANGED <<tool, phase, round, out>>

\* The main thread leaves with sys.exit; the process stays for its threads.
SounderHandler ==
  /\ Sounder /\ phase \in {"sounder_trigger", "sounder_run"}
  /\ dev' = [r \in Radios |->
               IF r \in Sounders THEN [Stopped(dev[r]) EXCEPT !.corr = FALSE] ELSE dev[r]]
  /\ job' = [job EXCEPT !.running = FALSE]
  /\ phase' = IF phase = "sounder_run" THEN "sounder_stop" ELSE "over"
  /\ UNCHANGED <<tool, round, out>>

SounderOver ==
  /\ Sounder /\ phase = "sounder_stop" /\ job.tx = "done" /\ job.rx = "done"
  /\ phase' = "over"
  /\ UNCHANGED <<tool, job, dev, round, out>>
-----------------------------------------------------------------------------
(* BEACON_SWEEP.py *)

Sweep == tool.name = "sweep"
Sweepers == 1 .. tool.boards

SweepMain ==
  /\ Sweep /\ phase = "start"
  /\ phase' = IF tool.valid THEN "sweep_open" ELSE "over"
  /\ UNCHANGED <<tool, job, dev, round, out>>

SweepOpen ==
  /\ Sweep /\ phase = "sweep_open"
  /\ phase' = "sweep_arm"
  /\ dev' = [r \in Radios |-> IF r \in Sweepers THEN Stopped(dev[r]) ELSE dev[r]]
  /\ UNCHANGED <<tool, job, round, out>>

\* The schedule, and the weights of the antennas: a row of the matrix each.
SweepArm ==
  /\ Sweep /\ phase = "sweep_arm"
  /\ phase' = "sweep_handler"
  /\ dev' = [r \in Radios |-> IF r \in Sweepers
                              THEN [dev[r] EXCEPT !.mode = "free", !.slots = <<"B", "G">>] ELSE dev[r]]
  /\ UNCHANGED <<tool, job, round, out>>

SweepHandled ==
  /\ Sweep /\ phase = "sweep_handler"
  /\ phase' = "sweep_trigger"
  /\ UNCHANGED <<tool, job, dev, round, out>>

SweepTrigger ==
  /\ Sweep /\ phase = "sweep_trigger"
  /\ phase' = "sweep_run" /\ dev' = Started
  /\ UNCHANGED <<tool, job, round, out>>

\* Mutant: only the first radio is stopped.
SweepHandlerFirst ==
  /\ Sweep /\ phase \in {"sweep_trigger", "sweep_run"}
  /\ phase' = "over"
  /\ dev' = [r \in Radios |-> IF r = 1 THEN Stopped(dev[r]) ELSE dev[r]]
  /\ UNCHANGED <<tool, job, round, out>>

SweepHandler ==
  /\ Sweep /\ phase \in {"sweep_trigger", "sweep_run"}
  /\ phase' = "over"
  /\ dev' = [r \in Radios |-> IF r \in Sweepers THEN Stopped(dev[r]) ELSE dev[r]]
  /\ UNCHANGED <<tool, job, round, out>>
-----------------------------------------------------------------------------
(* SISO_OFDM.py: radio 1 is sdrTx, radio 2 is sdrRx *)

Ofdm == tool.name = "ofdm"

\* A missing frequency or a gain out of range; a mode or a number of subcarriers
\* that is not supported.
OfdmMain ==
  /\ Ofdm /\ phase = "start"
  /\ phase' = CASE ~tool.valid     -> "over"
                [] ~tool.supported -> "stopped"
                [] OTHER           -> "ofdm_open"
  /\ UNCHANGED <<tool, job, dev, round, out>>

\* In the simulation nobody has asked the receiver for its front end.
OfdmOpen ==
  /\ Ofdm /\ phase = "ofdm_open"
  /\ phase' = IF ~tool.ota /\ tool.agc THEN "stopped" ELSE "ofdm_send"
  /\ dev' = IF tool.ota THEN [dev EXCEPT ![2] = Stopped(@)] ELSE dev
  /\ UNCHANGED <<tool, job, round, out>>

OfdmSend ==
  /\ Ofdm /\ phase = "ofdm_send"
  /\ phase' = "ofdm_show"
  /\ dev' = IF tool.ota THEN [dev EXCEPT ![1].mode = "replay"] ELSE dev
  /\ UNCHANGED <<tool, job, round, out>>

Preamble == 128 + tool.cp  \* samples of the LTS with its prefix
\* The snapshot of the simulation is the signal that was sent.
Samples  == IF tool.ota THEN Buffer ELSE 30 + 160 + Preamble + Payload + 30

\* Mutant: a payload that is cut off is decoded.
VerdictUnchecked(a) ==
  CASE a <= 0                      -> "none"
    [] a - Preamble < 0            -> "early"
    [] Preamble # 160              -> "no_preamble"
    [] Samples < a + Payload       -> "late"
    [] OTHER                       -> "decoded"

\* What animate says of a peak at sample a; -1 is no peak.  Peak 0 counts as none.
\* A slice ends where its array ends.
Verdict(a) ==
  CASE a <= 0                                     -> "none"
    [] a - Preamble < 0                           -> "early"
    [] Preamble # 160                             -> "no_preamble"
    [] Samples < a + Payload                      -> "late"
    [] Min({a + Payload + 1, Samples}) - (a + 1) # Payload -> "cut_off"
    [] OTHER                                      -> "decoded"

\* The peak is the second chain's, while the payload is cut from the first one,
\* at the same place (SISO_OFDM.py:304, :317): one read fills both.
\* infoRx is not known in animate: with the AGC, every call of it fails.
Animate ==
  /\ Ofdm /\ phase = "ofdm_show" /\ round < FreeRounds
  /\ \E a \in IF tool.ota THEN Peaks \cup {-1} ELSE {30 + 160 + Preamble - 1} :
       out' = IF tool.ota /\ tool.agc THEN out
              ELSE Append(out, [peak |-> a, says |-> Verdict(a)])
  /\ dev' = IF tool.ota THEN [dev EXCEPT ![2].active = TRUE] ELSE dev
  /\ round' = round + 1
  /\ UNCHANGED <<tool, phase, job>>

\* The window is closed, and the sender goes on.
OfdmOver ==
  /\ Ofdm /\ phase = "ofdm_show"
  /\ phase' = "over"
  /\ UNCHANGED <<tool, job, dev, round, out>>
-----------------------------------------------------------------------------
(* SISO_TX.py: radio 1 *)

Siggen == tool.name = "siggen"

SiggenMain ==
  /\ Siggen /\ phase = "start"
  /\ phase' = IF tool.valid THEN "siggen_open" ELSE "over"
  /\ UNCHANGED <<tool, job, dev, round, out>>

\* A tone is on the air as soon as the channels are set; with an antenna that
\* is none of the three there are no channels.
KnownAntenna == tool.ant \in {"A", "B", "AB"}
SiggenOpen ==
  /\ Siggen /\ phase = "siggen_open"
  /\ phase' = "siggen_send"
  /\ dev' = IF tool.tone /\ KnownAntenna THEN [dev EXCEPT ![1].mode = "tone"] ELSE dev
  /\ UNCHANGED <<tool, job, round, out>>

\* Samples of the signal: the training sequences are 160 samples long and
\* repeated as a whole, a sine has 20 periods of its own.
Sequence == 160
Generated ==
  CASE tool.signal \in {"LTS", "STS"} -> (tool.samps \div Sequence) * Sequence
    [] tool.signal = "SINE"           -> 20 * tool.period
    [] OTHER                          -> tool.samps
Repeated == IF tool.signal = "SINE" THEN Generated ELSE tool.samps

\* An LTE signal is taken from a table of 76800 samples; the signal is computed
\* even if a tone is sent instead.
SiggenSend ==
  /\ Siggen /\ phase = "siggen_send"
  /\ IF \/ tool.signal \notin {"LTE", "LTS", "STS", "SINE"}
        \/ tool.signal = "LTE" /\ tool.samps > 76800
     THEN phase' = "stopped" /\ UNCHANGED <<dev, out>>
     ELSE /\ phase' = "siggen_signal"
          /\ IF tool.tone THEN UNCHANGED <<dev, out>>
             ELSE /\ dev' = [dev EXCEPT ![1].mode = "replay"]
                  /\ out' = [written |-> IF KnownAntenna THEN Generated ELSE 0,
                             repeated |-> Repeated]
  /\ UNCHANGED <<tool, job, round>>

SiggenHandled ==
  /\ Siggen /\ phase = "siggen_signal"
  /\ phase' = "siggen_handled"
  /\ job' = [running |-> TRUE, printer |-> "none"]
  /\ UNCHANGED <<tool, dev, round, out>>
SiggenThread ==
  /\ Siggen /\ phase = "siggen_handled"
  /\ phase' = "siggen_started"
  /\ job' = [job EXCEPT !.printer = "run"]
  /\ UNCHANGED <<tool, dev, round, out>>
SiggenPause ==
  /\ Siggen /\ phase = "siggen_started"
  /\ phase' = "siggen_pause"
  /\ UNCHANGED <<tool, job, dev, round, out>>

\* print_thread: only boards with a CBRS front end have anything to print.
PrinterEnds ==
  /\ Siggen /\ phase \in {"siggen_started", "siggen_pause", "siggen_end"}
  /\ job.printer = "run" /\ (~job.running \/ ~tool.cbrs)
  /\ job' = [job EXCEPT !.printer = "done"]
  /\ UNCHANGED <<tool, phase, dev, round, out>>

\* There is no stream to close, and nothing stops the replay.  A signal that
\* comes before signal.pause does not end the pause: the user has to ask again.
SiggenHandler ==
  /\ Siggen /\ phase \in {"siggen_handled", "siggen_started", "siggen_pause"}
  /\ job' = [job EXCEPT !.running = FALSE]
  /\ phase' = IF phase = "siggen_pause" THEN "siggen_end" ELSE phase
  /\ UNCHANGED <<tool, dev, round, out>>

SiggenOver ==
  /\ Siggen /\ phase = "siggen_end" /\ job.printer = "done"
  /\ phase' = "over"
  /\ UNCHANGED <<tool, job, dev, round, out>>
-----------------------------------------------------------------------------
(* SISO_RX.py: radio 2 *)

Recv == tool.name = "rx"

\* DataRecorder takes six more arguments than it is given.
RxMain ==
  /\ Recv /\ phase = "start"
  /\ phase' = CASE ~tool.valid           -> "over"
                [] tool.mode = "REPLAY"  -> "rx_replay"
                [] tool.mode = "BASIC"   -> "rx_open"
                [] OTHER                 -> "stopped"
  /\ UNCHANGED <<tool, job, dev, round, out>>

RxReplay ==
  /\ Recv /\ phase = "rx_replay"
  /\ phase' = IF tool.recorded THEN "over" ELSE "stopped"
  /\ UNCHANGED <<tool, job, dev, round, out>>

\* agc_init takes three arguments and gets two; without the AGC, none of its
\* registers is written in animate.
RxOpen ==
  /\ Recv /\ phase = "rx_open"
  /\ phase' = IF tool.agc /\ tool.cbrs THEN "stopped" ELSE "rx_show"
  /\ out' = [file |-> 0, ring |-> [k \in 0 .. AvgLen - 1 |-> 0]]
  /\ UNCHANGED <<tool, job, dev, round>>

\* A frame of the animation: a read that fails leaves zeros, the file holds the
\* newest frame only, and the power goes to a ring for the average; the
\* powers in the ring are kept as the frames they are of.
RxAnimate ==
  /\ Recv /\ phase = "rx_show" /\ round < FreeRounds
  /\ \E wave \in {0, round + 1} :
       out' = [file |-> wave, ring |-> [out.ring EXCEPT ![round % AvgLen] = round + 1]]
  /\ dev' = [dev EXCEPT ![2].active = TRUE]
  /\ round' = round + 1
  /\ UNCHANGED <<tool, phase, job>>

RxOver ==
  /\ Recv /\ phase = "rx_show"
  /\ phase' = "over"
  /\ UNCHANGED <<tool, job, dev, round, out>>
-----------------------------------------------------------------------------
\* An interrupt nobody handles leaves the radios as they are.
FreeKilled ==
  /\ phase \in {"sounder_open", "sounder_arm", "sounder_handler", "sweep_open", "sweep_arm",
                "sweep_handler", "ofdm_open", "ofdm_send", "ofdm_show", "siggen_open",
                "siggen_send", "siggen_signal", "rx_replay", "rx_open", "rx_show"}
  /\ phase' = "stopped"
  /\ UNCHANGED <<tool, job, dev, round, out>>

FreeNext ==
  \/ SounderMain \/ SounderOpen \/ SounderArm \/ SounderHandled \/ SounderTrigger
  \/ FreeFrame \/ Activate \/ TxThread \/ TxThreadEnds \/ RxThread \/ RxThreadEnds
  \/ SounderHandler \/ SounderOver
  \/ SweepMain \/ SweepOpen \/ SweepArm \/ SweepHandled \/ SweepTrigger \/ SweepHandler
  \/ OfdmMain \/ OfdmOpen \/ OfdmSend \/ Animate \/ OfdmOver
  \/ SiggenMain \/ SiggenOpen \/ SiggenSend \/ SiggenHandled \/ SiggenThread \/ SiggenPause
  \/ PrinterEnds \/ SiggenHandler \/ SiggenOver
  \/ RxMain \/ RxReplay \/ RxOpen \/ RxAnimate \/ RxOver
  \/ FreeKilled
-----------------------------------------------------------------------------
(* Properties *)

\* No tool that ends in order leaves a radio with a schedule, or a radio on the
\* air, except the senders of SISO_OFDM.py and SISO_TX.py that nobody stops.
\* However a tool ends, by an exception or an interrupt nobody handles, no radio
\* is left that plays its schedule by itself: the handlers are there before the
\* triggers.  This second part is about schedules: a sender that replays its
\* memory or sends a tone (SISO_TX.py:153, :197) stays on the air if it ends by an
\* exception or before its handler is there.
QuietWhenOver ==
  /\ phase = "over" => \A r \in Radios : dev[r].mode = "off" \/ Ofdm \/ Siggen
  /\ phase = "stopped" /\ ~Ofdm => OnAir = {}

\* The files of the sounder are in step: as long as no symbol is lost, record i
\* of the pilots and its records of the data are of one frame, the frames follow
\* each other, and the client is in all of them or in none; what the reader
\* writes after the interrupt is less than a frame.  The client's symbols go
\* to the slots its schedule has for them, when the frame has room for them.
\* And the receiver's average is of its last frames, one each, once the ring is
\* full.
InStep ==
  /\ Recv /\ out # <<>> /\ round >= AvgLen =>
       {out.ring[k] : k \in DOMAIN out.ring} = round - AvgLen + 1 .. round
  /\ Sounder /\ out # <<>> =>
    LET d     == tool.data
        reads == Len(out.pilots) + Len(out.data) - job.after
    IN  /\ job.clean =>
             \A i \in DOMAIN out.pilots : i * (1 + d) <= reads =>
               LET p == out.pilots[i]
               IN  /\ p.slot = 3 /\ p.round = out.pilots[1].round + i - 1
                   /\ p.from \in {{}, {2}}
                   /\ \A j \in 1 .. d : out.data[(i - 1) * d + j] =
                        [p EXCEPT !.slot = 3 + Len(Gap) + j]
        /\ job.after <= d
        /\ tool.syms >= d + 4 =>
             \A k \in out.written : k + 1 \in DOMAIN Msched /\ Msched[k + 1] = "T"

\* The samples between two places, both included, are all in the snapshot.
InSnapshot(first, last) == 0 <= first /\ last <= Samples - 1

\* Signals are whole at both ends.  A payload is decoded if and only if all of
\* the preamble that ends at the peak and of the payload behind it is in the
\* snapshot, with a preamble of the length the decoder expects, but for one place:
\* a preamble that is there from the first sample of the snapshot on is refused
\* as too early (SISO_OFDM.py:312, against the comment above it).  The
\* sender repeats no sample that an earlier run left in its memory, when it knows
\* the antenna and a training sequence fits the number of samples.
DecodedWhole ==
  /\ Ofdm => \A i \in DOMAIN out :
       out[i].says = "decoded" <=>
         /\ InSnapshot(out[i].peak - Preamble + 1, out[i].peak + Payload)
         /\ tool.cp = 32
         /\ out[i].peak - Preamble + 1 # 0
  /\ Siggen /\ dev[1].mode = "replay" =>
       \/ out.repeated = out.written
       \/ ~KnownAntenna
       \/ tool.signal \in {"LTS", "STS"} /\ tool.samps % Sequence # 0
=============================================================================
