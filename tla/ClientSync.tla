----------------------------- MODULE ClientSync -----------------------------
(***************************************************************************)
(* The beacon synchronisation of a client (Receiver::clientSyncTxRx,       *)
(* clientSyncBeacon and clientAdjustRx): the search for the beacon, the    *)
(* samples thrown away to align the reads with the frames of the base      *)
(* station, and the resynchronisation in slot 0 of a frame.                *)
(*                                                                         *)
(* Time is counted in samples.  Every position is kept modulo the frame    *)
(* and relative to the frames of the base station: the client is aligned   *)
(* when a frame of reads starts at position 0.  The clocks drift and reads *)
(* may return short, by MaxSlip samples in all.  The correlator finds a    *)
(* beacon that lies in the window at its place, or misses it; it finds     *)
(* nothing else, that is neither noise nor, behind a short read of slot 0, *)
(* a beacon among the samples an earlier read left in the buffer, which    *)
(* syncSearch is shown too (receiver.cc:1012).                             *)
(***************************************************************************)
EXTENDS Integers

CONSTANTS
  Slot,        \* samps_per_slot
  Slots,       \* slot_per_frame
  Prefix,      \* prefix: zeros before the beacon
  Beacon,      \* beacon_size
  Window,      \* beacon_detect_window
  Continuous,  \* frame_mode is continuous_resync
  Period,      \* resync_period, in frames
  RetryMax,    \* resync_retry_max
  MaxSlip      \* bound of the model: samples of drift and of short reads

FrameLen == Slot * Slots

\* The beacon fits into its slot, and a window leaves at least the prefix of a
\* frame: it is 2.33 slots of a frame that is no shorter.
ASSUME SyncAssumption ==
  /\ Slot \in Nat /\ Slots \in Nat /\ Slots > 1
  /\ Prefix \in Nat /\ Beacon \in Nat \ {0} /\ Prefix + Beacon <= Slot
  /\ Window \in Nat /\ Slot <= Window /\ Window + Prefix <= FrameLen
  /\ Continuous \in BOOLEAN /\ Period \in Nat \ {0} /\ RetryMax \in Nat
  /\ MaxSlip \in Nat

VARIABLES
  pc,        \* where the client's thread is
  running,   \* config_->running()
  pos,       \* position of the next sample the radio delivers
  left,      \* discard_samples
  syncs,     \* sync_count
  slot,      \* slot_id
  age,       \* frame_id - last_resync
  resync,    \* resync
  retries,   \* resync_retry_cnt
  adjust,    \* beacon_adjust
  base,      \* rx_beacon_time: position the transmissions are timed from
  slips,     \* samples of MaxSlip used up
  slack,     \* history: samples slipped since the beacon was found last
  carried    \* history: beacon_adjust that shortened slot 0 of this frame,
             \* unless the beacon was found in it

syncVars == <<syncs, slot, age, resync, retries, adjust, base, carried>>
vars == <<pc, running, pos, left, slips, slack, syncVars>>

Init ==
  /\ pc = "search" /\ running = TRUE
  /\ pos \in 0 .. FrameLen - 1
  /\ left = 0 /\ syncs = 0 /\ slot = 0 /\ age = 0
  /\ resync = TRUE /\ retries = 0 /\ adjust = 0 /\ base = 0
  /\ slips = 0 /\ slack = 0 /\ carried = 0

\* The places, relative to the window's start, at which a frame of the base
\* station may start so that its beacon lies in n samples read at pos.
Visible(n) ==
  {o \in -Prefix .. n - Prefix - Beacon : (pos + o) % FrameLen = 0}

Advance(n) == pos' = (pos + n) % FrameLen

\* A read of n samples returns k short of it.
Slip(k) == slips + k <= MaxSlip /\ slips' = slips + k
-----------------------------------------------------------------------------
(* The search before the main loop *)

\* clientSyncBeacon reads too few samples and does not look at them.  (A read
\* that fails changes nothing.)
SearchShort ==
  /\ pc = "search" /\ running
  /\ \E n \in 1 .. Window - 1 : Advance(n)
  /\ UNCHANGED <<pc, running, left, slips, slack, syncVars>>

SearchMiss ==
  /\ pc = "search" /\ running
  /\ Advance(Window)
  /\ UNCHANGED <<pc, running, left, slips, slack, syncVars>>

\* Mutant: alignment_samples is left out.
SearchFoundBare ==
  /\ pc = "search" /\ running
  /\ \E o \in Visible(Window) :
       /\ left' = o
       /\ pc' = IF left' < 0 THEN "fault" ELSE "align"
  /\ Advance(Window)
  /\ slack' = 0
  /\ UNCHANGED <<running, slips, syncVars>>

\* The rest of the frame the beacon was found in is to be thrown away.
SearchFound ==
  /\ pc = "search" /\ running
  /\ \E o \in Visible(Window) :
       /\ left' = FrameLen - Window + o
       /\ pc' = IF left' < 0 THEN "fault" ELSE "align"
  /\ Advance(Window)
  /\ slack' = 0
  /\ UNCHANGED <<running, slips, syncVars>>

SearchStopped ==
  /\ pc = "search" /\ ~ running
  /\ pc' = "done"
  /\ UNCHANGED <<running, pos, left, slips, slack, syncVars>>

\* clientAdjustRx, in as many reads as it takes.
Discard ==
  /\ pc \in {"align", "discard"} /\ running /\ left > 0
  /\ \E n \in 1 .. left : Advance(n) /\ left' = left - n
  /\ UNCHANGED <<pc, running, slips, slack, syncVars>>

\* Two beacons make the client enter its main loop.
Aligned ==
  /\ pc = "align" /\ (left = 0 \/ ~ running)
  /\ syncs' = syncs + 1
  /\ pc' = IF syncs + 1 = 2 \/ ~ running THEN "frame" ELSE "search"
  /\ left' = 0
  /\ UNCHANGED <<running, pos, slips, slack, slot, age, resync, retries, adjust,
                 base, carried>>
-----------------------------------------------------------------------------
(* The main loop: slot 0 *)

\* running is false, max_frame is reached, or the read fails.
FrameEnds ==
  /\ pc = "frame"
  /\ running' = FALSE
  /\ pc' = "done"
  /\ UNCHANGED <<pos, left, slips, slack, syncVars>>

Due == age >= Period

\* Whether this frame looks for the beacon.
Looks == IF Due THEN Continuous ELSE resync

\* The read of slot 0, k samples short, and the turn of the period.
ReadBeacon(k) ==
  /\ pc = "frame" /\ running
  /\ k < Slot - adjust /\ Slip(k)
  /\ Advance(Slot - adjust - k)
  /\ age' = IF Due THEN 0 ELSE age

FrameQuiet ==
  /\ ~ Looks
  /\ \E k \in 0 .. MaxSlip : ReadBeacon(k) /\ slack' = slack + k
  /\ base' = pos /\ adjust' = 0 /\ carried' = adjust
  /\ resync' = FALSE
  /\ pc' = "transmit"
  /\ UNCHANGED <<running, left, syncs, slot, retries>>

\* Mutant: the time of the transmissions is not moved.
FrameFoundLate ==
  /\ Looks
  /\ \E k \in 0 .. MaxSlip : \E o \in Visible(Slot - adjust - k) :
       /\ ReadBeacon(k) /\ slack' = k
       /\ base' = pos
       /\ adjust' = IF o < 0 THEN -o ELSE 0
       /\ left' = IF o > 0 THEN o ELSE 0
       /\ pc' = IF o > 0 THEN "discard" ELSE "transmit"
  /\ carried' = 0 /\ resync' = FALSE /\ retries' = 0
  /\ UNCHANGED <<running, syncs, slot>>

\* Mutant: an early read is shortened once more.
FrameFoundTwice ==
  /\ Looks
  /\ \E k \in 0 .. MaxSlip : \E o \in Visible(Slot - adjust - k) :
       /\ ReadBeacon(k) /\ slack' = k
       /\ base' = (pos + o) % FrameLen
       /\ adjust' = IF o < 0 THEN -o ELSE o
       /\ left' = IF o > 0 THEN o ELSE 0
       /\ pc' = IF o > 0 THEN "discard" ELSE "transmit"
  /\ carried' = 0 /\ resync' = FALSE /\ retries' = 0
  /\ UNCHANGED <<running, syncs, slot>>

\* The beacon is found: the transmissions move with it; reads that are early
\* are made up for at once, reads that are late in slot 0 of the next frame.
FrameFound ==
  /\ Looks
  /\ \E k \in 0 .. MaxSlip : \E o \in Visible(Slot - adjust - k) :
       /\ ReadBeacon(k) /\ slack' = k
       /\ base' = (pos + o) % FrameLen
       /\ adjust' = IF o < 0 THEN -o ELSE 0
       /\ left' = IF o > 0 THEN o ELSE 0
       /\ pc' = IF o > 0 THEN "discard" ELSE "transmit"
  /\ carried' = 0 /\ resync' = FALSE /\ retries' = 0
  /\ UNCHANGED <<running, syncs, slot>>

\* Mutant: the misses are not counted.
FrameMissOn ==
  /\ Looks
  /\ \E k \in 0 .. MaxSlip : ReadBeacon(k) /\ slack' = slack + k
  /\ base' = pos /\ adjust' = 0 /\ carried' = adjust
  /\ resync' = TRUE /\ pc' = "transmit"
  /\ UNCHANGED <<retries, running, left, syncs, slot>>

\* The beacon is missed: again in the next frame, or never when too many were.
FrameMiss ==
  /\ Looks
  /\ \E k \in 0 .. MaxSlip : ReadBeacon(k) /\ slack' = slack + k
  /\ base' = pos /\ adjust' = 0 /\ carried' = adjust
  /\ IF retries + 1 > RetryMax
       THEN resync' = FALSE /\ retries' = 0 /\ running' = FALSE /\ pc' = "done"
       ELSE resync' = TRUE /\ retries' = retries + 1 /\ pc' = "transmit"
            /\ UNCHANGED running
  /\ UNCHANGED <<left, syncs, slot>>

Discarded ==
  /\ pc = "discard" /\ (left = 0 \/ ~ running)
  /\ left' = 0
  /\ pc' = "transmit"
  /\ UNCHANGED <<running, pos, slips, slack, syncVars>>
-----------------------------------------------------------------------------
(* The main loop: transmissions and the other slots *)

\* clientTxData or clientTxPilots, with times counted from base.
Transmit ==
  /\ pc = "transmit"
  /\ slot' = 1
  /\ pc' = "slots"
  /\ UNCHANGED <<running, pos, left, slips, slack, syncs, age, resync, retries,
                 adjust, base, carried>>

ReadSlot ==
  /\ pc = "slots" /\ slot < Slots
  /\ \E k \in 0 .. MaxSlip :
       k < Slot /\ Slip(k) /\ Advance(Slot - k) /\ slack' = slack + k
  /\ slot' = slot + 1
  /\ UNCHANGED <<pc, running, left, syncs, age, resync, retries, adjust, base, carried>>

\* A read fails: the rest of the frame is left out.
SlotFails ==
  /\ pc = "slots" /\ slot < Slots
  /\ running' = FALSE
  /\ slot' = Slots
  /\ UNCHANGED <<pc, pos, left, slips, slack, syncs, age, resync, retries, adjust,
                 base, carried>>

\* frame_id++
NextFrame ==
  /\ pc = "slots" /\ slot = Slots
  /\ age' = age + 1 /\ slot' = 0
  /\ pc' = "frame"
  /\ UNCHANGED <<running, pos, left, slips, slack, syncs, resync, retries, adjust,
                 base, carried>>
-----------------------------------------------------------------------------
(* The environment *)

\* The clock of the base station gains or loses a sample against the client's.
Drift ==
  /\ pc # "done" /\ slips < MaxSlip
  /\ \E d \in {-1, 1} :
       pos' = (pos + d) % FrameLen /\ base' = (base + d) % FrameLen
  /\ slips' = slips + 1 /\ slack' = slack + 1
  /\ UNCHANGED <<pc, running, left, syncs, slot, age, resync, retries, adjust, carried>>

\* The main thread or another thread of the program stops the run.
StopRun ==
  /\ running /\ running' = FALSE
  /\ UNCHANGED <<pc, pos, left, slips, slack, syncVars>>

Client ==
  \/ SearchShort \/ SearchMiss \/ SearchFound \/ SearchStopped \/ Discard \/ Aligned
  \/ FrameEnds \/ FrameQuiet \/ FrameFound \/ FrameMiss \/ Discarded
  \/ Transmit \/ ReadSlot \/ SlotFails \/ NextFrame

Next == Client \/ Drift \/ StopRun

Spec == Init /\ [][Next]_vars

\* The thread is scheduled and radioRx returns samples now and then; a beacon
\* that is in the window again and again is found at last.
FairSpec == Spec /\ WF_vars(Client) /\ SF_vars(SearchFound)
-----------------------------------------------------------------------------
(* Properties *)

\* The types of the variables; a shortened slot 0 keeps its beacon.
TypeOK ==
  /\ pc \in {"search", "align", "frame", "discard", "transmit", "slots", "done", "fault"}
  /\ running \in BOOLEAN /\ resync \in BOOLEAN
  /\ pos \in 0 .. FrameLen - 1 /\ base \in 0 .. FrameLen - 1
  /\ left \in 0 .. FrameLen \/ pc = "fault"
  /\ syncs \in 0 .. 2 /\ slot \in 0 .. Slots /\ age \in 0 .. Period
  /\ retries \in 0 .. RetryMax /\ adjust \in 0 .. Prefix /\ carried \in 0 .. Prefix
  /\ slips \in 0 .. MaxSlip /\ slack \in 0 .. MaxSlip

\* The distance of a position from the start of the nearest frame.
Distance(x) ==
  LET p == x % FrameLen IN IF 2 * p > FrameLen THEN FrameLen - p ELSE p

\* Where the next read should start.
Expected ==
  CASE pc = "align"    -> 0 - left
    [] pc = "frame"    -> adjust
    [] pc = "discard"  -> Slot - left
    [] pc = "transmit" -> Slot + adjust
    [] pc = "slots"    -> slot * Slot + adjust
    [] OTHER           -> pos

\* From the first beacon on, every read starts where the frame of the base
\* station has it, up to what has slipped since a beacon was found last and up
\* to a late start that slot 0 of the next frame makes up for: neither search
\* loses or repeats samples (receiver.cc:936-956, 1035-1043, 1134-1210).
ReadsAligned == running => Distance(pos - Expected) <= slack

\* The exception "Unexpected alignment" is never thrown (receiver.cc:948-951).
NoUnexpectedAlignment == pc # "fault"

\* The transmissions of a frame are timed from the start of the base station's
\* frame, up to what has slipped since the beacon was found, except in the
\* frame that makes up for a late start: its time is taken when slot 0 is read,
\* before that read is back in step (receiver.cc:989-992, 1019, 1064).
TxAlignedButCarried ==
  running /\ pc = "transmit" => Distance(base - carried) <= slack

\* Every search ends: the one before the main loop, and one in the main loop
\* with the beacon or with the run (receiver.cc:1044-1056, 1134, "Blocking
\* function for beacon detected or exit()").
SearchesEnd ==
  /\ <>(pc \notin {"search", "align"})
  /\ resync /\ pc = "frame" ~> ~ resync \/ pc = "done"
=============================================================================
