----------------------------- MODULE VerifyTrace -----------------------------
(***************************************************************************)
(* plot_hdf5.py and hdf5_lib.py: a recorded trace is sliced, searched for  *)
(* the frames in which each client sends, turned into channel estimates    *)
(* chunk by chunk, demodulated against the transmitted data and plotted.   *)
(*                                                                         *)
(* Frames and antennas are kept as numbers counted from 0, as the code     *)
(* does; samples, estimates and figures are kept as where they come from.  *)
(* An index out of range, an unbound name or a call that does not fit ends *)
(* the script: phase "stopped", with the reason in "why".                  *)
(***************************************************************************)
EXTENDS Integers, Sequences, FiniteSets, SequencesExt, FiniteSetsExt, Functions

CONSTANTS
  Traces,      \* recorded traces
  Options,     \* command lines
  ChunkSize,   \* frames given to samps2csi at a time
  SlotLen,     \* samples of a slot, its prefix and its postfix
  Prefix,
  Postfix,
  DownOffset,  \* where the calibration pilots begin
  UpOffset

ASSUME VerifyAssumption ==
  /\ ChunkSize \in Nat \ {0}
  /\ {SlotLen, Prefix, Postfix, DownOffset, UpOffset} \subseteq Nat
  /\ \A t \in Traces :
       /\ t.frames \in Nat \ {0} /\ t.antennas \in Nat \ {0}
       /\ t.on \in Seq(Nat) /\ t.on # <<>>
       /\ {t.sent, t.chan, t.own} \subseteq Nat \ {0}
       /\ t.own * t.chan <= Len(t.on)
       /\ t.ofdm \in Nat \ {0} /\ Prefix + Postfix + t.ofdm <= SlotLen
       /\ t.down \in Nat
       /\ t.dlPilots => t.down > 0
       /\ {t.calib, t.noise, t.up, t.dlPilots, t.shifted} \subseteq BOOLEAN
  /\ \A o \in Options :
       /\ {o.n, o.start, o.ref, o.ant, o.user, o.symbol, o.files} \subseteq Nat
       /\ o.step \in Nat \ {0} /\ o.offset \in Nat \cup {-1}
       /\ o.exclude \subseteq Nat
       /\ {o.deep, o.analyze, o.metadata} \subseteq BOOLEAN
       /\ o.demod \in {"", "zf", "mmse", "ml"}

VARIABLES
  trace,     \* the file: its frames and antennas, the frame from which each
             \* client is on, the frames of data it sends over and over, the
             \* channels of a client's radio, the radios of the recorder's own
             \* configuration, the samples of an OFDM symbol with its cyclic
             \* prefix, the downlink slots of a frame, and what was recorded
  opt,
  phase,
  why,
  frames,    \* frames of the file in the slice hdf5_lib keeps
  asked,     \* frame_i
  ref,       \* ref_frame
  nodes,     \* plot_bs_nodes, a list in ascending order
  begins,    \* ue_frame_offset
  chunk,     \* chunk of the loop
  rows,      \* csi: the frame a row is computed from and its subcarrier order
  factors,   \* calib_mat: the frame a row is computed from
  shown,     \* figures: title, data and frame
  pairs      \* received frame and sent data compared, for each client

vars == <<trace, opt, phase, why, frames, asked, ref, nodes, begins, chunk,
          rows, factors, shown, pairs>>

N == Len(frames)
Clients == 0 .. Len(trace.on) - 1  \* antennas that send a pilot
num_cl  == trace.own * trace.chan  \* those the recorder's configuration knows
Nothing == [frame |-> -1, shifted |-> FALSE]

Init ==
  /\ trace \in Traces /\ opt \in Options
  /\ phase = "open" /\ why = ""
  /\ frames = <<>> /\ asked = 0 /\ ref = 0 /\ nodes = {}
  /\ begins = [u \in 0 .. num_cl - 1 |-> 0]
  /\ chunk = 0 /\ rows = <<>> /\ factors = <<>>
  /\ shown = {} /\ pairs = {}

Stop(reason) == phase' = "stopped" /\ why' = reason
Goto(p) == phase' = p /\ UNCHANGED why
-----------------------------------------------------------------------------
(* Opening the trace *)

\* With no number of frames the whole file is taken, whatever the start.
Slice ==
  LET count == IF opt.start < trace.frames
               THEN (Min({trace.frames, opt.start + opt.n}) - opt.start
                       + opt.step - 1) \div opt.step
               ELSE 0
  IN  IF opt.n = 0 THEN [k \in 1 .. trace.frames |-> k - 1]
      ELSE [k \in 1 .. count |-> opt.start + (k - 1) * opt.step]

\* A reference frame beyond the number of frames becomes the first one; an
\* empty slice has no data, and nothing is verified; nor is it when the metadata
\* are all that is asked for.
Open ==
  /\ phase = "open"
  /\ frames' = Slice
  /\ asked' = IF opt.ref > opt.n THEN 0 ELSE opt.ref
  /\ rows' = [k \in 1 .. Len(Slice) |-> Nothing]
  /\ factors' = [k \in 1 .. Len(Slice) |-> -1]
  /\ Goto(IF Slice = <<>> \/ opt.metadata THEN "end" ELSE "pilots")
  /\ UNCHANGED <<trace, opt, ref, nodes, begins, chunk, shown, pairs>>

\* The slots of the pilots: the two of a calibration come before the clients'.
Slots == Len(trace.on) + (IF trace.calib THEN 2 ELSE 0)

Sends(slot, k) ==
  IF trace.calib
  THEN slot < 2 \/ frames[k + 1] >= trace.on[slot - 1]
  ELSE frames[k + 1] >= trace.on[slot + 1]

\* Mutant: the frame before the first one with the pilot.
BeginBefore(u) ==
  LET starts == {k \in 0 .. N - 2 : Sends(u, k + 1) /\ ~Sends(u, k)}
  IN  IF starts = {} THEN 0 ELSE Min(starts)

\* The first frame of a client that follows one without its pilot; only the
\* clients of the recorder's own configuration are looked at.
BeginOf(u) ==
  LET starts == {k \in 1 .. N - 1 : Sends(u, k) /\ ~Sends(u, k - 1)}
  IN  IF starts = {} THEN 0 ELSE Min(starts)

\* The reference user is a slot here, that of a calibration or of a client.  An
\* antenna beyond those kept means all of them, and then there is none to search
\* for the clients' first frames; with none kept no slot is looked at.
Pilots ==
  LET kept == (0 .. trace.antennas - 1) \ opt.exclude
  IN  /\ phase = "pilots"
      /\ nodes' = kept
      /\ ref' = Min({asked, N})
      /\ begins' = [u \in DOMAIN begins |-> BeginOf(u)]
      /\ IF kept = {} THEN Goto("end")
         ELSE IF opt.user >= Slots THEN Stop("user")
         ELSE IF \A k \in 0 .. N - 1 : ~Sends(opt.user, k) THEN Goto("end")
         ELSE IF opt.ant >= Cardinality(kept) THEN Stop("antenna")
         ELSE Goto("deep")
      /\ UNCHANGED <<trace, opt, frames, asked, chunk, rows, factors, shown, pairs>>

Show(title, data, frame) == [title |-> title, data |-> data, frame |-> frame]

\* plot_match_filter and show_plot index the reference frame.
Deep ==
  /\ phase = "deep"
  /\ IF opt.deep /\ ref = N
     THEN Stop("frame") /\ UNCHANGED shown
     ELSE /\ Goto(IF trace.calib THEN "samples" ELSE "csi")
          /\ shown' = IF opt.deep
                      THEN shown \cup {Show("pilot", "pilot", ref)}
                      ELSE shown
  /\ UNCHANGED <<trace, opt, frames, asked, ref, nodes, begins, chunk, rows,
                 factors, pairs>>
-----------------------------------------------------------------------------
(* Channel estimates, chunk by chunk *)

\* Mutant: a last symbol that is cut off counts.
RepsUp == (SlotLen - (Prefix + Postfix) + trace.ofdm - 1) \div trace.ofdm

Offset  == IF opt.offset < 0 THEN Prefix ELSE opt.offset
Reps    == (SlotLen - (Prefix + Postfix)) \div trace.ofdm
Fits(o) == o + Reps * trace.ofdm <= SlotLen

\* Rows from a up to b of the estimates, of those frames.
Estimate(a, b, shifted) ==
  rows' = [k \in DOMAIN rows |->
             IF k - 1 \in a .. b - 1
             THEN [frame |-> frames[k], shifted |-> shifted] ELSE rows[k]]

Full == N \div ChunkSize

CsiKeeps == UNCHANGED <<trace, opt, frames, asked, ref, nodes, begins, factors,
                        shown, pairs>>

\* A pilot that does not fit its slot ends the script in the first chunk.  The
\* first chunk of several is taken as a shifted one, whatever the trace is.
CsiFirst ==
  /\ phase = "csi" /\ chunk = 0
  /\ IF ~Fits(Offset) THEN Stop("window") /\ UNCHANGED <<rows, chunk>>
     ELSE IF N <= ChunkSize
     THEN Estimate(0, N, trace.shifted) /\ chunk' = 0 /\ Goto("show")
     ELSE Estimate(0, ChunkSize, TRUE) /\ chunk' = 1 /\ Goto("csi")
  /\ CsiKeeps

CsiNext ==
  /\ phase = "csi" /\ chunk \in 1 .. Full - 1
  /\ Estimate(chunk * ChunkSize, chunk * ChunkSize + ChunkSize, trace.shifted)
  /\ chunk' = chunk + 1
  /\ Goto("csi")
  /\ CsiKeeps

\* Mutant: what is left over is forgotten.
CsiDropRest ==
  /\ phase = "csi" /\ chunk > 0 /\ chunk >= Full
  /\ UNCHANGED rows
  /\ chunk' = 0
  /\ Goto("show")
  /\ CsiKeeps

CsiRest ==
  /\ phase = "csi" /\ chunk > 0 /\ chunk >= Full
  /\ IF N > Full * ChunkSize
     THEN Estimate(Full * ChunkSize, N, trace.shifted)
     ELSE UNCHANGED rows
  /\ chunk' = 0
  /\ Goto("show")
  /\ CsiKeeps

\* A calibration first shows the samples of its two slots and of the reference
\* user's, now one of the clients.
Samples ==
  /\ phase = "samples"
  /\ IF ref = N THEN Stop("frame") /\ UNCHANGED shown
     ELSE IF opt.user >= Len(trace.on) THEN Stop("user") /\ UNCHANGED shown
     ELSE shown' = shown \cup {Show("pilot", "pilot", ref)} /\ Goto("calib")
  /\ UNCHANGED <<trace, opt, frames, asked, ref, nodes, begins, chunk, rows,
                 factors, pairs>>

\* It divides the estimates of its two pilots, in chunks of its own.
Calibrate ==
  LET start == chunk * ChunkSize
      stop  == Min({start + ChunkSize, N})
  IN  /\ phase = "calib"
      /\ IF ~Fits(UpOffset) THEN Stop("window") /\ UNCHANGED <<chunk, factors>>
         ELSE IF opt.symbol >= Reps
         THEN Stop("symbol") /\ UNCHANGED <<chunk, factors>>
         ELSE IF ~Fits(DownOffset)
         THEN Stop("window") /\ UNCHANGED <<chunk, factors>>
         ELSE /\ factors' = [k \in DOMAIN factors |->
                               IF k - 1 \in start .. stop - 1 THEN frames[k]
                               ELSE factors[k]]
              /\ IF stop = N THEN chunk' = 0 /\ Goto("factors")
                 ELSE chunk' = chunk + 1 /\ Goto("calib")
      /\ UNCHANGED <<trace, opt, frames, asked, ref, nodes, begins, rows, shown, pairs>>

\* The calibration leaves out the reference node, the last antenna, unless it
\* is excluded already.
Plotted == IF trace.calib THEN nodes \ {trace.antennas - 1} ELSE nodes

\* The factors are plotted, and the pilots of the clients are cut into as many
\* slots as the recorder's configuration has clients, whatever the file holds.
ShowFactors ==
  /\ phase = "factors"
  /\ IF opt.ant >= Cardinality(Plotted) THEN Stop("antenna") /\ UNCHANGED shown
     ELSE /\ shown' = shown \cup {Show("factors", "factors", ref)}
          /\ IF num_cl = Len(trace.on) THEN Goto("csi") ELSE Stop("clients")
  /\ UNCHANGED <<trace, opt, frames, asked, ref, nodes, begins, chunk, rows,
                 factors, pairs>>
-----------------------------------------------------------------------------
(* Figures *)

\* The estimates of the reference frame; plot_csi labels the users with the
\* list of the antennas.
ShowPilots ==
  /\ phase = "show"
  /\ IF ref = N THEN Stop("frame") /\ UNCHANGED shown
     ELSE IF Len(trace.on) > Cardinality(Plotted) \/ opt.ant >= Cardinality(Plotted)
     THEN Stop("antenna") /\ UNCHANGED shown
     ELSE /\ shown' = shown \cup {Show("pilot", "pilot", ref)}
          /\ Goto("analyze")
  /\ UNCHANGED <<trace, opt, frames, asked, ref, nodes, begins, chunk, rows,
                 factors, pairs>>

\* Achievable rates.  The noise is that of all antennas, and its product with
\* the weights of those kept exists only when none is left out; with the weights
\* of the reference frame the rates are shown, and then those with the weights of
\* each frame, which are taken from the second of the pilot's symbols.
Analyze ==
  /\ phase = "analyze"
  /\ IF ~(opt.analyze /\ trace.noise /\ ~trace.calib)
     THEN Goto("uplink") /\ UNCHANGED shown
     ELSE IF nodes # 0 .. trace.antennas - 1
     THEN Stop("nodes") /\ UNCHANGED shown
     ELSE /\ shown' = shown \cup {Show("rates", "pilot", ref)}
          /\ IF Reps = 1 THEN Stop("repetition") ELSE Goto("uplink")
  /\ UNCHANGED <<trace, opt, frames, asked, ref, nodes, begins, chunk, rows,
                 factors, pairs>>

\* Mutant: a file is taken to be of one antenna.
TxDataPerFile ==
  [u \in 0 .. trace.own + opt.files - 1 |-> [file |-> u, channel |-> 0]]

\* The data the clients sent: a file per radio, those of the configuration and
\* those of the command line behind them, with the channels of the radio one
\* after the other.
TxData ==
  [u \in 0 .. num_cl + trace.chan * opt.files - 1 |->
     [file |-> u \div trace.chan, channel |-> u % trace.chan]]

\* The sent data is repeated over the frames; received frames are taken from
\* the first client's first frame on, and leave the last client's delay out.
Useful     == IF trace.sent > 1 THEN N - Max(Range(begins)) ELSE N
FrameStart == IF trace.sent = 1 THEN 0 ELSE Min(Range(begins))

Demodulate ==
  pairs' = {[rx |-> f, user |-> u, data |-> TxData[u]] :
              f \in FrameStart .. FrameStart + Useful - 1, u \in Clients}

SentFrame(p) == (p.rx - FrameStart) % trace.sent

\* Uplink data is plotted at the frame that was asked for; without pilots'
\* estimates there is nothing to demodulate with, and the data must be of as
\* many clients as have a pilot.
Uplink ==
  /\ phase = "uplink"
  /\ UNCHANGED <<trace, opt, frames, asked, ref, nodes, begins, chunk, rows, factors>>
  /\ IF ~trace.up THEN Goto("downlink") /\ UNCHANGED <<shown, pairs>>
     ELSE /\ shown' = shown \cup {Show("uplink", "uplink", asked)}
          /\ IF opt.demod = "" THEN Goto("downlink") /\ UNCHANGED pairs
             ELSE IF trace.calib THEN Stop("estimates") /\ UNCHANGED pairs
             ELSE IF opt.demod = "mmse" /\ ~trace.noise
             THEN Stop("noise") /\ UNCHANGED pairs
             ELSE IF DOMAIN TxData # Clients
             THEN Stop("users") /\ UNCHANGED pairs
             ELSE Demodulate /\ Goto("downlink")

\* Mutant: frames are counted from 1.
DownlinkBefore == Min({asked - opt.start, N}) - 1

\* The frame is counted from the start of the file, and may be negative.
DownlinkRef == Min({asked - opt.start, N})

\* The users are those of the recorder's configuration, and the antenna is one of
\* the downlink slots kept.  With pilots in the downlink plot_csi is called
\* without one of its arguments.
Downlink ==
  /\ phase = "downlink"
  /\ UNCHANGED <<trace, opt, frames, asked, ref, nodes, begins, chunk, rows,
                 factors, pairs>>
  /\ IF trace.down = 0 THEN Goto("end") /\ UNCHANGED shown
     ELSE IF opt.user >= num_cl THEN Stop("user") /\ UNCHANGED shown
     ELSE IF DownlinkRef \notin -N .. N - 1 THEN Stop("frame") /\ UNCHANGED shown
     ELSE IF opt.ant >= Cardinality((0 .. trace.down - 1) \ opt.exclude)
     THEN Stop("slot") /\ UNCHANGED shown
     ELSE /\ shown' = shown \cup {Show("downlink", "downlink", DownlinkRef % N)}
          /\ IF trace.dlPilots THEN Stop("call") ELSE Goto("end")

Next == Open \/ Pilots \/ Deep \/ CsiFirst \/ CsiNext \/ CsiRest \/ Samples
        \/ Calibrate \/ ShowFactors \/ ShowPilots \/ Analyze \/ Uplink \/ Downlink

Spec == Init /\ [][Next]_vars
-----------------------------------------------------------------------------
(* Properties *)

\* Once the loops over the chunks have ended, every frame of the slice has its
\* estimate, of its own samples and in the subcarrier order of the trace, and
\* a calibration its factor: the loops cut the frames in different ways.  Only
\* the order of the first chunk of several is not the trace's.
EveryFrameEstimated ==
  phase = "show" =>
    /\ \A k \in DOMAIN rows :
         /\ rows[k].frame = frames[k]
         /\ \/ rows[k].shifted = trace.shifted
            \/ k <= ChunkSize /\ N > ChunkSize
    /\ trace.calib => factors = frames

\* Clients that begin together within the slice, each with its first frame of
\* data, are compared with the frame of data they sent, in every received
\* frame the demodulation takes: the first frames are found in the pilots, the
\* data is repeated and the frames are cut at both ends.  An antenna is compared
\* with its own data: of no other, and of its radio's file.
ComparedWithSent ==
  /\ \A p, q \in pairs :
       /\ p.user # q.user => p.data # q.data
       /\ p.data.file = q.data.file <=> p.user \div trace.chan = q.user \div trace.chan
  /\ \A p \in pairs :
       (trace.sent > 1 /\ opt.step = 1
          /\ \A u \in Clients :
               /\ trace.on[u + 1] = trace.on[1]
               /\ trace.on[1] \in frames[1] .. frames[N])
       => /\ p.rx < N
          /\ frames[p.rx + 1] >= trace.on[1]
          /\ SentFrame(p) = (frames[p.rx + 1] - trace.on[1]) % trace.sent

\* The figures of one run show the same frame, from the start of the file on:
\* each plot takes its reference frame in a way of its own.
OneFrameShown ==
  opt.start = 0 => \A s, t \in shown : s.frame = t.frame

\* The tool gets to its end unless the frame, the antenna, the user or the symbol
\* asked for is not there, an offset beyond the prefix moves the pilots out of the
\* slot, the antennas are fewer than the users, the analysis is asked for with
\* antennas left out or with pilots of one symbol, the demodulation lacks its
\* noise, the data of all clients or, after a calibration, its estimates, a
\* calibration has clients the recorder's configuration does not know, or the
\* downlink has pilots.
StopsOnlyFor ==
  phase = "stopped" =>
    CASE why = "frame"     -> asked >= N \/ asked < opt.start
      [] why = "user"      -> opt.user >= IF trace.down > 0 THEN num_cl
                                          ELSE Len(trace.on)
      [] why = "antenna"   -> Max({opt.ant + 1, Len(trace.on)}) > Cardinality(Plotted)
      [] why = "slot"      -> /\ trace.down > 0
                              /\ opt.ant >= Cardinality((0 .. trace.down - 1) \ opt.exclude)
      [] why = "window"    -> Max({opt.offset, IF trace.calib
                                               THEN Max({UpOffset, DownOffset})
                                               ELSE 0}) > Prefix
      [] why = "symbol"    -> trace.calib /\ opt.symbol >= Reps
      [] why = "clients"   -> trace.calib /\ num_cl < Len(trace.on)
      [] why = "nodes"     -> opt.analyze /\ opt.exclude \cap 0 .. trace.antennas - 1 # {}
      [] why = "repetition" -> opt.analyze /\ Reps = 1
      [] why = "estimates" -> trace.calib /\ opt.demod # ""
      [] why = "noise"     -> ~trace.noise /\ opt.demod = "mmse"
      [] why = "users"     -> opt.files * trace.chan # Len(trace.on) - num_cl
      [] why = "call"      -> trace.dlPilots
=============================================================================
