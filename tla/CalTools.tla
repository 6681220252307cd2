------------------------------ MODULE CalTools ------------------------------
(***************************************************************************)
(* Two calibrations of a base station: sample_offset_cal.py ("offset")     *)
(* aligns the sample counters of the boards, WB_CAL_DEMO.py                *)
(* ("reciprocity") compares the channels of each antenna with those of a   *)
(* reference antenna, frame after frame, until the user interrupts.        *)
(*                                                                         *)
(* The correlations are abstracted to what the tools do with their result: *)
(* an index that is right, one of an echo a sample later, or none.         *)
(***************************************************************************)
EXTENDS IrisRadio

CONSTANTS
  CalTx,       \* num_cal_tx and num_ver_tx
  MaxDelay,    \* bound: offset of a board after SYNC_DELAYS
  MaxRetries,  \* bound: failed calibrations
  BufferSamps, \* NUM_BUFFER_SAMPS
  CalRounds    \* bound: rounds before the user gives up

ASSUME CalAssumption == CalTx \in Nat \ {0, 1} /\ BufferSamps \in Nat
-----------------------------------------------------------------------------
(* sample_offset_cal.py: the boards other than the reference node, in order *)

Offset == tool.name = "offset"
Boards == 1 .. tool.boards

OffsetMain ==
  /\ Offset /\ phase = "start"
  /\ phase' = "offset_open"
  /\ job' = [retries |-> 0, delay |-> [b \in Boards |-> 0]]
  /\ UNCHANGED <<tool, dev, round, out>>

\* The boards are opened and synchronized, to within their offsets.
OffsetOpen ==
  /\ Offset /\ phase = "offset_open"
  /\ phase' = "offset_cal"
  /\ \E d \in [Boards -> 0 .. MaxDelay] : job' = [job EXCEPT !.delay = d]
  /\ dev' = [r \in Radios |-> IF r \in Boards THEN [dev[r] EXCEPT !.mode = "once", !.active = TRUE]
                                              ELSE dev[r]]
  /\ UNCHANGED <<tool, round, out>>

\* How often the indexes of a board were right, and how often an echo's; the
\* other frames were lost or had no peak, and NaNs do not add up.
Tallies == {t \in [right : 0 .. CalTx, echo : 0 .. CalTx] : t.right + t.echo <= CalTx}

\* The most frequent index, given by its error, and how often it occurs.
NaN    == -1
Errors == {0, 1, NaN}
Count(t, e) == CASE e = 0 -> t.right [] e = 1 -> t.echo
                 [] e = NaN -> IF t.right + t.echo < CalTx THEN 1 ELSE 0
Occurrences(t) == Max({Count(t, e) : e \in Errors})
MostCommon(t)  == {e \in Errors : Count(t, e) = Occurrences(t)}

\* Mutant: half of the frames are enough.
PassesHalf(t) == 2 * Occurrences(t) >= CalTx

\* pass_thresh: 80 % of the frames.
Passes(t) == 10 * Occurrences(t) >= 8 * CalTx

OffsetClosed == [r \in Radios |-> IF r \in Boards THEN Closed(Stopped(dev[r])) ELSE dev[r]]

\* Too few frames agree at some board: everything again, from the opening.
OffsetRetry ==
  /\ Offset /\ phase = "offset_cal" /\ job.retries < MaxRetries
  /\ \E b \in Boards, t \in Tallies : ~Passes(t)
  /\ phase' = "offset_open" /\ dev' = OffsetClosed
  /\ job' = [job EXCEPT !.retries = @ + 1]
  /\ UNCHANGED <<tool, round, out>>

\* calibrate: every board but the first moves by its distance from the first.
Moved(error) ==
  [b \in Boards |-> LET idx(c) == job.delay[c] + error[c]
                    IN  IF b = 1 THEN job.delay[1] ELSE job.delay[b] + idx(1) - idx(b)]

OffsetCalibrate ==
  /\ Offset /\ phase = "offset_cal"
  /\ \E t \in [Boards -> {u \in Tallies : Passes(u)}] :
     \E error \in [Boards -> Errors] :
       /\ \A b \in Boards : error[b] \in MostCommon(t[b])
       /\ job' = [job EXCEPT !.delay = Moved(error)]
       /\ out' = [sure |-> \A b \in Boards : 10 * t[b].echo < 8 * CalTx]
  /\ phase' = "offset_ver"
  /\ UNCHANGED <<tool, dev, round>>

\* The boards are measured again, however few frames agree this time.
OffsetVerify ==
  /\ Offset /\ phase = "offset_ver"
  /\ \E error \in [Boards -> Errors] :
       out' = [sure |-> out.sure, error |-> error,
               failed |-> \/ \E b \in Boards : error[b] = NaN
                          \/ \E b \in Boards : job.delay[b] + error[b] # job.delay[1] + error[1]]
  /\ phase' = "over" /\ dev' = OffsetClosed
  /\ UNCHANGED <<tool, job, round>>
-----------------------------------------------------------------------------
(* WB_CAL_DEMO.py *)

Recip == tool.name = "reciprocity"
Ants  == 1 .. tool.sdrs * (IF tool.both THEN 2 ELSE 1)
Pairs == {p \in Ants \X Ants : p[1] # p[2]}

\* A frequency is missing, or a gain is out of range: nothing is done.
RecipMain ==
  /\ Recip /\ phase = "start"
  /\ phase' = IF tool.valid THEN "recip_open" ELSE "over"
  /\ job' = [running |-> TRUE, handler |-> FALSE, samps |-> [p \in Pairs |-> 0],
             buffered |-> 0, fresh |-> 0, take |-> 0, prev_take |-> 0, first |-> TRUE]
  /\ UNCHANGED <<tool, dev, round, out>>

RecipOpen ==
  /\ Recip /\ phase = "recip_open"
  /\ phase' = "recip_plot"
  /\ dev' = [r \in Radios |-> IF r <= tool.sdrs THEN [Stopped(dev[r]) EXCEPT !.active = TRUE] ELSE dev[r]]
  /\ UNCHANGED <<tool, job, round, out>>

\* The plots of a single antenna are no matrix of plots; the handler comes last.
RecipPlot ==
  /\ Recip /\ phase = "recip_plot"
  /\ phase' = IF Cardinality(Ants) = 1 THEN "stopped" ELSE "recip_loop"
  /\ job' = [job EXCEPT !.handler = Cardinality(Ants) > 1]
  /\ UNCHANGED <<tool, dev, round, out>>

\* Each radio sends in turn, the others read; a failed read leaves the array as
\* it was, and the second antenna of a radio has nobody who reads it.
Read(lost) ==
  [p \in Pairs |-> IF p \notin lost /\ p[1] <= tool.sdrs /\ p[2] <= tool.sdrs
                   THEN round + 1 ELSE job.samps[p]]

AtMostOne(S) == {{}} \cup {{x} : x \in S}

\* A pair without a peak, or with one too early, spoils the whole round.
RecipSkip ==
  /\ Recip /\ phase = "recip_loop" /\ job.running /\ round < CalRounds
  /\ \E lost \in AtMostOne(Pairs) : job' = [job EXCEPT !.samps = Read(lost)]
  /\ round' = round + 1
  /\ UNCHANGED <<tool, phase, dev, out>>

take_num == job.take - job.prev_take

\* list[-take_num:], which is the whole list for a take_num of 0.
Window(n) == IF take_num = 0 THEN n ELSE Min({take_num, n})

\* A good round adds an entry; when the duration of a take has passed, the
\* entries since the last report are averaged and reported.
RecipTake ==
  /\ Recip /\ phase = "recip_loop" /\ job.running /\ round < CalRounds
  /\ \E lost \in AtMostOne(Pairs), due \in BOOLEAN :
       LET samps == Read(lost)
           n     == Min({job.buffered + 1, BufferSamps})
       IN  /\ job' = [job EXCEPT !.samps = samps, !.buffered = n, !.take = @ + 1,
                                 !.fresh = IF due THEN 0 ELSE @ + 1,
                                 !.prev_take = IF due THEN job.take ELSE @,
                                 !.first = @ /\ ~due]
           /\ out' = [samps |-> samps, lost |-> lost, reported |-> due, first |-> job.first,
                      fresh |-> job.fresh + 1, window |-> Window(n)]
  /\ round' = round + 1
  /\ UNCHANGED <<tool, phase, dev>>

RecipEnd ==
  /\ Recip /\ phase = "recip_loop" /\ ~job.running
  /\ phase' = "over"
  /\ dev' = [r \in Radios |-> IF r <= tool.sdrs THEN Closed(dev[r]) ELSE dev[r]]
  /\ UNCHANGED <<tool, job, round, out>>

\* signal_handler of WB_CAL_DEMO.py.
RecipHandler ==
  /\ Recip /\ phase = "recip_loop" /\ job.running
  /\ job' = [job EXCEPT !.running = FALSE]
  /\ UNCHANGED <<tool, phase, dev, round, out>>

\* An interrupt nobody handles leaves the radios as they are.
CalKilled ==
  /\ phase \in {"offset_open", "offset_cal", "offset_ver", "recip_open", "recip_plot"}
  /\ phase' = "stopped"
  /\ UNCHANGED <<tool, job, dev, round, out>>

CalNext ==
  \/ OffsetMain \/ OffsetOpen \/ OffsetRetry \/ OffsetCalibrate \/ OffsetVerify
  \/ RecipMain \/ RecipOpen \/ RecipPlot \/ RecipSkip \/ RecipTake \/ RecipEnd
  \/ RecipHandler \/ CalKilled
-----------------------------------------------------------------------------
(* Properties *)

\* The sample counters of the boards agree at the end, unless a board answered
\* with an echo in 80 % of the frames; and the verification says so, or says
\* that it measured an echo.  A report averages exactly what was measured since
\* the last one, as far as it is buffered, but for the first report, which leaves
\* out the first take; and what a pair contributes is of that round unless a
\* read of that pair failed in it.
Calibrated ==
  /\ Offset /\ phase = "over" =>
       LET agree == \A b \in Boards : job.delay[b] = job.delay[1]
       IN  /\ out.sure => agree
           /\ (\A b \in Boards : out.error[b] = 0) => (out.failed <=> ~agree)
  /\ Recip /\ out # <<>> =>
       /\ out.reported =>
            out.window = Min({BufferSamps,
                              out.fresh - IF out.first /\ out.fresh > 1 THEN 1 ELSE 0})
       /\ ~tool.both => \A p \in Pairs :
            \/ p \in out.lost
            \/ out.samps[p] # 0 /\ \A q \in Pairs \ out.lost : out.samps[p] = out.samps[q]
=============================================================================
