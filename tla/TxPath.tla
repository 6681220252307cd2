------------------------------- MODULE TxPath -------------------------------
(***************************************************************************)
(* The transmit path: the reader thread (Hdf5Reader::DoReading, ReadFrame) *)
(* that reads a frame of samples from a radio's file into the radio's      *)
(* transmit ring, the events that travel between it and the radio's        *)
(* thread, and baseTxData or clientTxData, which send what is read.        *)
(*                                                                         *)
(* The thread of a radio asks for the frame it will send Delta frames      *)
(* later.  The file holds FrameNum frames and is read in a circle; only a  *)
(* frame that is a multiple of FrameNum seeks, every other frame reads on  *)
(* where the last one ended.  Nothing checks that a place of the ring is   *)
(* free: its in-use bits are cleared and never set.                        *)
(***************************************************************************)
EXTENDS Integers, Sequences, FiniteSets, SequencesExt

CONSTANT Sites  \* the radios and files to model, as records:
  \* side    "base", the radios of the one cell, or "client"
  \* radios  how many
  \* delta   txFrameDelta_: frames between reading and sending
  \* file    frames of the file: dl_data_frame_num, ul_data_frame_num
  \* per     packets of a frame: its slots times the channels
  \* places  packets of a transmit ring
  \* skip    the frames of the base station are numbered by its radios, with
  \*         gaps (hardware framer); a client counts its frames itself
  \* last    bound of the model: the last frame of a radio's thread

\* TIME_DELTA_MS is rounded up to at least one frame; a ring holds at least
\* one frame.
ASSUME TxAssumption ==
  \A s \in Sites :
    /\ s.side \in {"base", "client"} /\ s.skip \in BOOLEAN
    /\ {s.radios, s.delta, s.file, s.per} \subseteq Nat \ {0}
    /\ s.places \in Nat /\ s.per <= s.places /\ s.last \in Nat

VARIABLES
  site,      \* whose radios these are
  pc,        \* per radio: where its thread is
  frame,     \* per radio: frame_id of its thread
  hand,      \* per radio: the event it sends, as a sequence of at most one
  at,        \* per radio: packets of that event it has sent
  requests,  \* new-frame events in the message queue
  readQ,     \* event_queue_ of the reader, behind the frames it reads at first
  reading,   \* the request in the reader's hand, a sequence of at most one
  done,      \* packets of it that are read
  offset,    \* per radio: the reader's place in the ring
  file,      \* per radio: position in its file, in packets
  ring,      \* per radio: the transmit ring
  reads,     \* read events in the message queue: one producer, so in order
  txQ,       \* per radio: its transmit queue
  sent,      \* history: per radio, the frames sent, in order
  wrong,     \* history: per radio, frames sent with a packet of another place
  newest,    \* history: per radio, the frame the reader read last, or -1
  slipped,   \* history: per radio, frames read out of step with the file
  crowded    \* history: per radio, more frames were under way than fit

threadVars == <<pc, frame, hand, at, sent, wrong>>
readerVars == <<reading, done, offset, file, ring, newest, slipped, crowded>>
vars       == <<site, threadVars, requests, readQ, readerVars, reads, txQ>>

Radios   == 0 .. site.radios - 1
Delta    == site.delta
FrameNum == site.file
PerFrame == site.per
Places   == site.places
Frames   == 0 .. site.last
Asked    == 0 .. site.last + Delta

\* A client asks before it sends, the base station after it.
Client == site.side = "client"
Gaps   == site.skip /\ ~ Client

\* The events that may ask for a frame at some site.
Request == UNION {[radio : 0 .. s.radios - 1, frame : s.delta .. s.last + s.delta] : s \in Sites}

\* The packet of the file that is right for packet k of frame f.
Right(f, k) == (f % FrameNum) * PerFrame + k

\* The reader's first txFrameDelta frames, radio by radio.
Initially ==
  [n \in 1 .. Delta * site.radios |->
     [radio |-> (n - 1) % site.radios, frame |-> (n - 1) \div site.radios]]

Init ==
  /\ site     \in Sites
  /\ pc       = [r \in Radios |-> "begin"]
  /\ frame    \in [Radios -> IF Gaps THEN Frames ELSE {0}]
  /\ hand     = [r \in Radios |-> <<>>]
  /\ at       = [r \in Radios |-> 0]
  /\ requests = {}
  /\ readQ    = Initially
  /\ reading  = <<>>
  /\ done     = 0
  /\ offset   = [r \in Radios |-> 0]
  /\ file     = [r \in Radios |-> 0]
  /\ ring     = [r \in Radios |-> [i \in 0 .. Places - 1 |-> [frame |-> -1, data |-> -1]]]
  /\ reads    = <<>>
  /\ txQ      = [r \in Radios |-> <<>>]
  /\ sent     = [r \in Radios |-> <<>>]
  /\ wrong    = [r \in Radios |-> {}]
  /\ newest   = [r \in Radios |-> -1]
  /\ slipped  = [r \in Radios |-> {}]
  /\ crowded  = [r \in Radios |-> FALSE]
-----------------------------------------------------------------------------
(* The thread of a radio: slot 0 of a frame *)

Goto(r, to) == pc' = [pc EXCEPT ![r] = to]

\* Slot 0 of the frame is received.
BeginFrame(r) ==
  /\ pc[r] = "begin"
  /\ Goto(r, IF Client THEN "request" ELSE "drain")
  /\ UNCHANGED <<frame, hand, at, sent, wrong, requests, readQ, readerVars, reads, txQ>>

\* Mutant: asks for the frame at hand.
AskFrameNow(r) ==
  /\ pc[r] = "request"
  /\ requests' = requests \cup {[radio |-> r, frame |-> frame[r]]}
  /\ Goto(r, IF Client THEN "drain" ELSE "end")
  /\ UNCHANGED <<frame, hand, at, sent, wrong, readQ, readerVars, reads, txQ>>

\* notifyPacket(.., frame_id + txFrameDelta_, 0, ..)
AskFrame(r) ==
  /\ pc[r] = "request"
  /\ requests' = requests \cup {[radio |-> r, frame |-> frame[r] + Delta]}
  /\ Goto(r, IF Client THEN "drain" ELSE "end")
  /\ UNCHANGED <<frame, hand, at, sent, wrong, readQ, readerVars, reads, txQ>>

\* try_dequeue_from_producer succeeds.
TakeRead(r) ==
  /\ pc[r] = "drain" /\ hand[r] = <<>> /\ txQ[r] # <<>>
  /\ hand' = [hand EXCEPT ![r] = <<Head(txQ[r])>>]
  /\ txQ'  = [txQ EXCEPT ![r] = Tail(@)]
  /\ at'   = [at EXCEPT ![r] = 0]
  /\ UNCHANGED <<pc, frame, sent, wrong, requests, readQ, readerVars, reads>>

\* One packet of the event goes to the radio; the event is sent with its last
\* packet.
SendPacket(r) ==
  /\ pc[r] = "drain" /\ hand[r] # <<>>
  /\ LET e == hand[r][1]
         p == ring[r][(e.off + at[r]) % Places]
     IN  /\ wrong' = IF p.data = Right(e.frame, at[r]) THEN wrong
                     ELSE [wrong EXCEPT ![r] = @ \cup {e.frame}]
         /\ at' = [at EXCEPT ![r] = @ + 1]
         /\ IF at[r] + 1 < PerFrame
              THEN UNCHANGED <<hand, sent>>
              ELSE /\ hand' = [hand EXCEPT ![r] = <<>>]
                   /\ sent' = [sent EXCEPT ![r] = Append(@, e.frame)]
  /\ UNCHANGED <<pc, frame, requests, readQ, readerVars, reads, txQ>>

\* try_dequeue_from_producer fails: no more to send in this frame.
Drained(r) ==
  /\ pc[r] = "drain" /\ hand[r] = <<>> /\ txQ[r] = <<>>
  /\ Goto(r, IF Client THEN "end" ELSE "request")
  /\ UNCHANGED <<frame, hand, at, sent, wrong, requests, readQ, readerVars, reads, txQ>>

\* The rest of the frame; the next slot 0 is that of the next frame, or of a
\* later one if the radio lost it.
NextFrame(r) ==
  /\ pc[r] = "end"
  /\ \E f \in Frames :
       /\ f > frame[r] /\ (f # frame[r] + 1 => Gaps)
       /\ frame' = [frame EXCEPT ![r] = f]
  /\ Goto(r, "begin")
  /\ UNCHANGED <<hand, at, sent, wrong, requests, readQ, readerVars, reads, txQ>>
-----------------------------------------------------------------------------
(* The main thread hands events on *)

\* Mutant: an event of the bulk is overwritten before it is handed on.
DispatchReadLost(e) ==
  /\ e \in requests
  /\ requests' = requests \ {e}
  /\ UNCHANGED <<threadVars, readQ, readerVars, reads, txQ>>

\* kEventRxSymbol with slot 0.  notifyPacket makes a producer token for each
\* event, so the dequeues find the events in any order.
DispatchRead(e) ==
  /\ e \in requests
  /\ requests' = requests \ {e}
  /\ readQ' = Append(readQ, e)
  /\ UNCHANGED <<threadVars, readerVars, reads, txQ>>

\* Mutant: the events behind the first of the bulk are dropped.
DispatchTxFirst ==
  /\ reads # <<>>
  /\ LET e == Head(reads) IN txQ' = [txQ EXCEPT ![e.radio] = Append(@, e)]
  /\ reads' = <<>>
  /\ UNCHANGED <<threadVars, requests, readQ, readerVars>>

\* kTaskRead.
DispatchTx ==
  /\ reads # <<>>
  /\ LET e == Head(reads) IN txQ' = [txQ EXCEPT ![e.radio] = Append(@, e)]
  /\ reads' = Tail(reads)
  /\ UNCHANGED <<threadVars, requests, readQ, readerVars>>
-----------------------------------------------------------------------------
(* The reader thread *)

Count(q, r) == Cardinality({k \in DOMAIN q : q[k].radio = r})

\* Frames of a radio that are read and not sent yet.
UnderWay(r) == Count(reads, r) + Len(txQ[r]) + Len(hand[r])

\* The ring holds one more frame of the radio.
Fits(r) == (UnderWay(r) + 1) * PerFrame <= Places

Rewinds(f) == f > 0 /\ f % FrameNum = 0

\* The file stands where the frame begins: the reader seeks, or the frame
\* follows one that was read in step.
InStep(e) ==
  \/ Rewinds(e.frame)
  \/ e.frame = newest[e.radio] + 1 /\ newest[e.radio] \notin slipped[e.radio]

\* Mutant: the file is not rewound.
BeginReadOn ==
  /\ reading = <<>> /\ readQ # <<>>
  /\ LET e == Head(readQ) IN
       /\ reading' = <<e>>
       /\ newest' = [newest EXCEPT ![e.radio] = e.frame]
       /\ slipped' = IF InStep(e) THEN slipped
                     ELSE [slipped EXCEPT ![e.radio] = @ \cup {e.frame}]
       /\ crowded' = [crowded EXCEPT ![e.radio] = @ \/ ~ Fits(e.radio)]
  /\ readQ' = Tail(readQ)
  /\ done' = 0
  /\ UNCHANGED <<threadVars, requests, offset, file, ring, reads, txQ>>

\* ReadFrame begins: seek to the start of the file at the first frame of it.
BeginRead ==
  /\ reading = <<>> /\ readQ # <<>>
  /\ LET e == Head(readQ) IN
       /\ reading' = <<e>>
       /\ file' = IF Rewinds(e.frame) THEN [file EXCEPT ![e.radio] = 0] ELSE file
       /\ newest' = [newest EXCEPT ![e.radio] = e.frame]
       /\ slipped' = IF InStep(e) THEN slipped
                     ELSE [slipped EXCEPT ![e.radio] = @ \cup {e.frame}]
       /\ crowded' = [crowded EXCEPT ![e.radio] = @ \/ ~ Fits(e.radio)]
  /\ readQ' = Tail(readQ)
  /\ done' = 0
  /\ UNCHANGED <<threadVars, requests, offset, ring, reads, txQ>>

\* fread of one packet; at the end of the file the samples stay what they were.
ReadPacket ==
  /\ reading # <<>> /\ done < PerFrame
  /\ LET e == reading[1]
         r == e.radio
         more == file[r] < FrameNum * PerFrame
     IN  /\ ring' = [ring EXCEPT ![r][offset[r]] =
                       [frame |-> e.frame, data |-> IF more THEN file[r] ELSE @.data]]
         /\ file' = IF more THEN [file EXCEPT ![r] = @ + 1] ELSE file
         /\ offset' = [offset EXCEPT ![r] = (@ + 1) % Places]
  /\ done' = done + 1
  /\ UNCHANGED <<threadVars, requests, readQ, reading, newest, slipped, crowded,
                 reads, txQ>>

\* The read_complete event, with the place of the frame's first packet.
FinishRead ==
  /\ reading # <<>> /\ done = PerFrame
  /\ LET e == reading[1] IN
       reads' = Append(reads, [radio |-> e.radio, frame |-> e.frame,
                               off |-> (offset[e.radio] - PerFrame) % Places])
  /\ reading' = <<>>
  /\ UNCHANGED <<threadVars, requests, readQ, done, offset, file, ring, newest,
                 slipped, crowded, txQ>>
-----------------------------------------------------------------------------
Thread(r) ==
  \/ BeginFrame(r) \/ AskFrame(r) \/ TakeRead(r) \/ SendPacket(r) \/ Drained(r)
  \/ NextFrame(r)

Reader == BeginRead \/ ReadPacket \/ FinishRead

\* The bound of the model: the threads end with their last frame.
Finished ==
  /\ \A r \in Radios : pc[r] = "end" /\ frame[r] = site.last
  /\ UNCHANGED vars

Next ==
  \/ /\ UNCHANGED site
     /\ \/ \E r \in Radios : Thread(r)
        \/ \E e \in requests : DispatchRead(e)
        \/ DispatchTx \/ Reader
  \/ Finished

Spec == Init /\ [][Next]_vars

\* The main thread and the reader are scheduled, and no event of the message
\* queue is passed over for ever.
FairSpec ==
  /\ Spec
  /\ \A e \in Request : WF_vars(DispatchRead(e) /\ UNCHANGED site)
  /\ WF_vars(DispatchTx /\ UNCHANGED site) /\ WF_vars(Reader /\ UNCHANGED site)
-----------------------------------------------------------------------------
(* Properties *)

\* The frames of a radio in a queue, in order: after each of its events.
FramesUpTo(q, r) ==
  LET frames[k \in 0 .. Len(q)] ==
        IF k = 0 THEN <<>>
        ELSE IF q[k].radio = r THEN Append(frames[k - 1], q[k].frame)
        ELSE frames[k - 1]
  IN  frames

FramesIn(q, r) == FramesUpTo(q, r)[Len(q)]

\* The frames of a radio in the order of their way: the sent ones first, the
\* ones that wait for the reader last.
Pipe(r) == sent[r] \o FramesIn(hand[r] \o txQ[r] \o reads \o reading \o readQ, r)

\* From the reader's queue to the air the frames of a radio keep their order,
\* across three queues and three threads, and none is lost or doubled: what is
\* on the way only grows at its end (scheduler.cc:257-290, receiver.cc:253).
KeepsOrder == [][\A r \in Radios : IsPrefix(Pipe(r), Pipe(r)')]_vars

\* Every frame that was asked for is once on the way or sent, and so are the
\* frames the reader starts with: the first txFrameDelta frames and those the
\* thread asks for leave no gap and do not overlap (hdf5_reader.cc:168-171,
\* receiver.cc:527), unless the radio itself lost a frame.
OnceEach ==
  \A r \in Radios :
    LET waiting == {e.frame : e \in {q \in requests : q.radio = r}}
        asked   == pc[r] = "end" \/ (Client /\ pc[r] = "drain")
    IN  /\ IsInjective(Pipe(r)) /\ ToSet(Pipe(r)) \cap waiting = {}
        /\ ~ Gaps => ToSet(Pipe(r)) \cup waiting =
                          0 .. frame[r] + Delta - (IF asked THEN 0 ELSE 1)

\* A frame that was read in step with the file is sent with its own samples,
\* although the ring has no flow control, as long as no more frames were under
\* way than the ring holds (hdf5_reader.cc:101-125, receiver.cc:267-272).
SentIsRight == \A r \in Radios : crowded[r] \/ wrong[r] \subseteq slipped[r]

\* A frame that was asked for is put into its radio's transmit queue
\* (scheduler.cc:226-290, hdf5_reader.cc:208-222).
AskedIsQueued ==
  \A e \in Request :
    e \in requests ~>
      /\ e.radio \in Radios
      /\ e.frame \in ToSet(sent[e.radio] \o FramesIn(hand[e.radio] \o txQ[e.radio], e.radio))
=============================================================================
