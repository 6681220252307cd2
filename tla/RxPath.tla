------------------------------- MODULE RxPath -------------------------------
(***************************************************************************)
(* The receive path of the sounder: the base-station receive threads       *)
(* (Receiver::loopRecv), the message queue, the dispatch loop of           *)
(* Scheduler::do_it with its shutdown, and the recorder threads            *)
(* (RecorderThread::DoRecording / HandleEvent).                            *)
(*                                                                         *)
(* Every receive thread owns a ring of Chunk packet buffers and one        *)
(* "in use" bit per buffer.  The thread sets the bit before the radio      *)
(* writes the samples, hands the offset of the buffer to the main thread   *)
(* in an event, the main thread hands it to the recorder of the packet's   *)
(* antenna, and the recorder clears the bit after it wrote the packet.     *)
(* Nothing but those bits keeps a buffer from being overwritten while it   *)
(* waits, and nothing but the offset says which buffer an event means.     *)
(***************************************************************************)
EXTENDS Integers, Sequences, FiniteSets

CONSTANTS
  NumCells,      \* number of cells
  Agg,           \* n_bs_sdrs_agg: Agg[c] radios are in the cells before c
  NumThreads,    \* bs_rx_thread_num
  NumCh,         \* channels of a base-station radio
  Chunk,         \* packet buffers of one receive thread
  NumRecorders,  \* recorder_thread_num
  Bulk,          \* KDequeueBulkSize
  SlotPerFrame,  \* slots of a frame
  RxSlots,       \* per radio, the pilot and uplink slots of its schedule
  TxSlot,        \* per radio, the slot whose reception triggers the downlink
  HwFramer,      \* bs_hw_framer: the radio stamps packets with frame and slot
  DlPresent,     \* dl_data_slot_present
  TxFrameDelta,  \* frames between reading a frame and sending it
  MaxFrame       \* bound of the model: the last frame that is received

NumRadios == Agg[NumCells]
Radios    == 0 .. NumRadios - 1
Threads   == 0 .. NumThreads - 1
Recorders == 0 .. NumRecorders - 1
Slots     == 0 .. SlotPerFrame - 1
Frames    == 0 .. MaxFrame
Index     == 0 .. Chunk - 1
Offsets   == 0 .. NumThreads * Chunk - 1

\* n_bs_sdrs_agg holds the partial sums of the radios of the cells.
ASSUME CellAssumption ==
  /\ NumCells \in Nat \ {0}
  /\ Agg \in [0 .. NumCells -> Nat]
  /\ Agg[0] = 0
  /\ \A c, d \in 0 .. NumCells : c <= d => Agg[c] <= Agg[d]
  /\ \A it \in Radios :
       \E c \in 0 .. NumCells - 1 : Agg[c] <= it /\ it < Agg[c + 1]

\* At most one receive thread per radio, at least one recorder, one or two
\* channels, and a ring that holds a whole number of radio reads.
ASSUME SizeAssumption ==
  /\ NumThreads \in Nat \ {0}
  /\ NumThreads <= NumRadios
  /\ NumCh \in {1, 2}
  /\ Chunk \in Nat \ {0}
  /\ Chunk % NumCh = 0
  /\ NumRecorders \in Nat \ {0}
  /\ Bulk \in Nat \ {0}
  /\ MaxFrame \in Nat

\* Slot 0 is the beacon slot: no radio records it.  The hardware framer
\* triggers on the first pilot, the software framer on slot 0.
ASSUME ScheduleAssumption ==
  /\ SlotPerFrame \in Nat \ {0}
  /\ HwFramer \in BOOLEAN
  /\ DlPresent \in BOOLEAN
  /\ TxFrameDelta \in Nat
  /\ RxSlots \in [Radios -> SUBSET (Slots \ {0})]
  /\ TxSlot \in [Radios -> Slots]
  /\ ~HwFramer => \A it \in Radios : TxSlot[it] = 0
-----------------------------------------------------------------------------
VARIABLES
  running,   \* Config::running_
  pc,        \* per receive thread: where it is in loopRecv
  radio,     \* per receive thread: the radio it serves
  ch,        \* per receive thread: the channel its inner loop is at
  frame,     \* per receive thread: frame_id
  slot,      \* per receive thread: slot_id
  cursor,    \* per receive thread: next buffer of the ring
  last,      \* per radio: the time stamp of its last packet (hardware framer)
  inuse,     \* per receive thread: pkt_buf_inuse
  ring,      \* per receive thread: the packet buffers
  msgQ,      \* message_queue_
  batch,     \* events_list: events taken and not yet dispatched
  mainpc,    \* where Scheduler::do_it is
  nextRec,   \* the recorder its shutdown loops are at
  recQ,      \* per recorder: event_queue_
  recpc,     \* per recorder: where it is in DoRecording
  cur,       \* per recorder: the offset it is handling
  readReqs,  \* read tasks handed to the base-station Hdf5Reader
  recorded,  \* history: what each recorder wrote to its file
  fault      \* "none", or the exception that ended the process

rxVars   == <<pc, radio, ch, frame, slot, cursor, last>>
bufVars  == <<inuse, ring>>
mainVars == <<batch, mainpc, nextRec>>
recVars  == <<recpc, cur, recorded>>
vars     == <<running, rxVars, bufVars, msgQ, mainVars, recQ, recVars,
              readReqs, fault>>
-----------------------------------------------------------------------------
(* Data *)

\* The cell of a radio, and the id of the radio within its cell.
CellOf(it)  == CHOOSE c \in 0 .. NumCells - 1 : Agg[c] <= it /\ it < Agg[c + 1]
LocalId(it) == it - Agg[CellOf(it)]

\* The consecutive radios that receive thread t serves.
RadioStart(t) == (t * NumRadios) \div NumThreads
RadioEnd(t)   == ((t + 1) * NumRadios) \div NumThreads

\* A packet buffer holds nothing yet, samples without a header, or a packet.
Empty   == [frame |-> -1, slot |-> -1, cell |-> -1, ant |-> -1]
Samples == [frame |-> -2, slot |-> -2, cell |-> -2, ant |-> -2]
Antennas == 0 .. NumRadios * NumCh - 1
Packet ==
  [frame : Frames, slot : Slots, cell : 0 .. NumCells - 1, ant : Antennas]
Content == Packet \cup {Empty, Samples}

\* An event of the message queue.  Slot 0 announces a new frame; any other
\* slot says that the buffer at off holds a packet.  radio is a history
\* field: the radio the event is about.
Event == [radio : Radios, frame : Nat, slot : Slots, ant : Antennas,
          off : Offsets]

IsPacket(e) == e.slot # 0

\* The owner and the place of a buffer offset.
BufferId(off)     == off \div Chunk
BufferOffset(off) == off - BufferId(off) * Chunk

\* Mutants: the place in the ring alone; the first channel of the read.
OffsetAlone(t, i) == i
OffsetFirst(t, i) == i - (i % NumCh) + t * Chunk

Offset(t, i)      == i + t * Chunk

\* kThreadTermination in a recorder's queue, and "nothing in hand".
Terminate == -1
Nothing   == -2

\* Antennas are spread over the recorders in blocks of this size.
TotalAntennas  == NumRadios * NumCh
ThreadAntennas ==
  (TotalAntennas \div NumRecorders)
    + (IF TotalAntennas % NumRecorders # 0 THEN 1 ELSE 0)
RecorderOf(ant) == ant \div ThreadAntennas

InRange(r, ant) ==
  /\ ant >= r * ThreadAntennas
  /\ ant <= r * ThreadAntennas + ThreadAntennas - 1

\* The hardware time stamp of a frame and a slot.
Stamp(f, s) == f * SlotPerFrame + s
-----------------------------------------------------------------------------
Init ==
  /\ running  = TRUE
  /\ pc       = [t \in Threads |-> IF HwFramer THEN "top" ELSE "sync"]
  /\ radio    = [t \in Threads |-> RadioStart(t)]
  /\ ch       = [t \in Threads |-> 0]
  /\ frame    = [t \in Threads |-> 0]
  /\ slot     = [t \in Threads |-> 0]
  /\ cursor   = [t \in Threads |-> 0]
  /\ last     = [it \in Radios |-> -1]
  /\ inuse    = [t \in Threads |-> [i \in Index |-> FALSE]]
  /\ ring     = [t \in Threads |-> [i \in Index |-> Empty]]
  /\ msgQ     = {}
  /\ batch    = {}
  /\ mainpc   = "loop"
  /\ nextRec  = 0
  /\ recQ     = [r \in Recorders |-> <<>>]
  /\ recpc    = [r \in Recorders |-> "idle"]
  /\ cur      = [r \in Recorders |-> Nothing]
  /\ readReqs = {}
  /\ recorded = [r \in Recorders |-> {}]
  /\ fault    = "none"
-----------------------------------------------------------------------------
(* Receive threads: Receiver::loopRecv *)

Goto(t, to) == pc' = [pc EXCEPT ![t] = to]

\* Before its loop a thread with the software framer reads every radio of its
\* own into a scratch buffer until the radio answers.  This is the read that
\* succeeds; one that fails changes nothing, and running is not looked at.
SyncRead(t) ==
  /\ pc[t] = "sync"
  /\ IF radio[t] + 1 < RadioEnd(t)
       THEN radio' = [radio EXCEPT ![t] = @ + 1] /\ UNCHANGED pc
       ELSE radio' = [radio EXCEPT ![t] = RadioStart(t)] /\ Goto(t, "top")
  /\ UNCHANGED <<running, ch, frame, slot, cursor, last, bufVars, msgQ,
                 mainVars, recQ, recVars, readReqs, fault>>

\* The top of the while loop: leave when running is false, else wrap the
\* host's slot counter (software framer) and start with the first radio.
Leave(t) ==
  /\ pc[t] = "top" /\ ~running
  /\ Goto(t, "left")
  /\ UNCHANGED <<running, radio, ch, frame, slot, cursor, last, bufVars, msgQ,
                 mainVars, recQ, recVars, readReqs, fault>>

WrapsFrame(t) == ~HwFramer /\ slot[t] = SlotPerFrame

BeginSlot(t) ==
  /\ pc[t] = "top" /\ running
  /\ WrapsFrame(t) => frame[t] < MaxFrame
  /\ frame' = IF WrapsFrame(t) THEN [frame EXCEPT ![t] = @ + 1] ELSE frame
  /\ slot'  = IF WrapsFrame(t) THEN [slot EXCEPT ![t] = 0] ELSE slot
  /\ radio' = [radio EXCEPT ![t] = RadioStart(t)]
  /\ ch'    = [ch EXCEPT ![t] = 0]
  /\ Goto(t, "reserve")
  /\ UNCHANGED <<running, cursor, last, bufVars, msgQ, mainVars, recQ, recVars,
                 readReqs, fault>>

\* Set the in-use bit of the next channel's buffer; a bit that is already
\* set ends the process.
Reserve(t) ==
  /\ pc[t] = "reserve"
  /\ LET i == cursor[t] + ch[t] IN
       /\ inuse' = [inuse EXCEPT ![t][i] = TRUE]
       /\ IF inuse[t][i]
            THEN /\ fault' = "full"
                 /\ UNCHANGED <<pc, ch>>
            ELSE /\ fault' = fault
                 /\ IF ch[t] + 1 = NumCh
                      THEN Goto(t, "receive") /\ ch' = [ch EXCEPT ![t] = 0]
                      ELSE UNCHANGED pc /\ ch' = [ch EXCEPT ![t] = @ + 1]
  /\ UNCHANGED <<running, radio, frame, slot, cursor, last, ring, msgQ,
                 mainVars, recQ, recVars, readReqs>>

\* Mutants: the radio writes one buffer too many; it writes to the start of the
\* ring.
WindowLong(t)  == cursor[t] .. cursor[t] + NumCh
WindowStart(t) == 0 .. NumCh - 1

\* The buffers of the radio read that is under way.
Window(t) == cursor[t] .. cursor[t] + NumCh - 1

Fill(t) ==
  ring' = [ring EXCEPT ![t] =
             [i \in Index |-> IF i \in Window(t) THEN Samples ELSE @[i]]]

\* Mutants: a slot that is not recorded keeps its buffers; every slot triggers
\* the downlink.
AfterReadKeeps(t, s) ==
  Goto(t, IF s = TxSlot[radio[t]] /\ DlPresent THEN "request"
          ELSE IF s \in RxSlots[radio[t]] THEN "notify" ELSE "top")
AfterReadTriggers(t, s) == Goto(t, IF DlPresent THEN "request" ELSE "notify")

\* Where a receive thread goes after a read of slot s of its radio.
AfterRead(t, s) ==
  Goto(t, IF s = TxSlot[radio[t]] /\ DlPresent THEN "request"
          ELSE IF s \in RxSlots[radio[t]] THEN "notify" ELSE "free")

\* radioRx with the software framer: the host counts frames and slots, and
\* only a pilot or an uplink slot is read into the ring.
SwRead(t) ==
  /\ pc[t] = "receive" /\ ~HwFramer
  /\ IF slot[t] \in RxSlots[radio[t]] THEN Fill(t) ELSE UNCHANGED ring
  /\ AfterRead(t, slot[t])
  /\ UNCHANGED <<running, radio, ch, frame, slot, cursor, last, inuse, msgQ,
                 mainVars, recQ, recVars, readReqs, fault>>

\* radioRx with the hardware framer: the radio delivers the slots of its
\* schedule in the order of their time stamps; some may be lost.
HwRead(t) ==
  /\ pc[t] = "receive" /\ HwFramer
  /\ \E f \in Frames, s \in RxSlots[radio[t]] :
       /\ Stamp(f, s) > last[radio[t]]
       /\ last'  = [last EXCEPT ![radio[t]] = Stamp(f, s)]
       /\ frame' = [frame EXCEPT ![t] = f]
       /\ slot'  = [slot EXCEPT ![t] = s]
       /\ AfterRead(t, s)
  /\ Fill(t)
  /\ UNCHANGED <<running, radio, ch, cursor, inuse, msgQ, mainVars, recQ,
                 recVars, readReqs, fault>>

\* radioRx fails: running becomes false and the thread breaks out of its
\* loops.  The buffers it reserved stay marked.
ReadError(t) ==
  /\ pc[t] = "receive"
  /\ running' = FALSE
  /\ Goto(t, "failed")
  /\ UNCHANGED <<radio, ch, frame, slot, cursor, last, bufVars, msgQ, mainVars,
                 recQ, recVars, readReqs, fault>>

\* notifyPacket for a new downlink frame.
RequestFrame(t) ==
  /\ pc[t] = "request"
  /\ msgQ' = msgQ \cup
       {[radio |-> radio[t], frame |-> frame[t] + TxFrameDelta, slot |-> 0,
         ant |-> LocalId(radio[t]), off |-> 0]}
  /\ Goto(t, IF slot[t] \in RxSlots[radio[t]] THEN "notify" ELSE "free")
  /\ UNCHANGED <<running, radio, ch, frame, slot, cursor, last, bufVars,
                 mainVars, recQ, recVars, readReqs, fault>>

\* The thread is done with a radio: the next one, or the next slot.
NextRadio(t) ==
  IF radio[t] + 1 < RadioEnd(t)
    THEN /\ radio' = [radio EXCEPT ![t] = @ + 1]
         /\ Goto(t, "reserve")
         /\ UNCHANGED slot
    ELSE /\ slot' = IF HwFramer THEN slot ELSE [slot EXCEPT ![t] = @ + 1]
         /\ Goto(t, "top")
         /\ UNCHANGED radio

\* The end of an inner loop over the channels.
NextChannel(t) ==
  IF ch[t] + 1 = NumCh
    THEN ch' = [ch EXCEPT ![t] = 0] /\ NextRadio(t)
    ELSE ch' = [ch EXCEPT ![t] = @ + 1] /\ UNCHANGED <<radio, slot, pc>>

\* A slot that is not recorded: give the buffers back, one channel at a time;
\* a bit that is already clear ends the process.
FreeUnused(t) ==
  /\ pc[t] = "free"
  /\ LET i == cursor[t] + ch[t] IN
       /\ inuse' = [inuse EXCEPT ![t][i] = FALSE]
       /\ IF inuse[t][i]
            THEN fault' = fault /\ NextChannel(t)
            ELSE fault' = "free" /\ UNCHANGED <<radio, slot, pc, ch>>
  /\ UNCHANGED <<running, frame, cursor, last, ring, msgQ, mainVars, recQ,
                 recVars, readReqs>>

\* What the thread received on the channel it is at.
PacketOf(t) ==
  [frame |-> frame[t], slot |-> slot[t], cell |-> CellOf(radio[t]),
   ant |-> LocalId(radio[t]) * NumCh + ch[t]]

\* A recorded slot: write the header into the channel's buffer and tell the
\* main thread where it is.  The cursor moves with the channels; it is kept
\* at the start of the read here and moved behind the last channel.
Notify(t) ==
  /\ pc[t] = "notify"
  /\ ring' = [ring EXCEPT ![t][cursor[t] + ch[t]] = PacketOf(t)]
  /\ msgQ' = msgQ \cup
       {[radio |-> radio[t], frame |-> frame[t], slot |-> slot[t],
         ant |-> PacketOf(t).ant,
         off |-> Offset(t, (cursor[t] + ch[t]) % Chunk)]}
  /\ cursor' = IF ch[t] + 1 = NumCh
                 THEN [cursor EXCEPT ![t] = (@ + NumCh) % Chunk] ELSE cursor
  /\ NextChannel(t)
  /\ UNCHANGED <<running, frame, last, inuse, mainVars, recQ, recVars,
                 readReqs, fault>>
-----------------------------------------------------------------------------
(* Main thread: the loop and the shutdown of Scheduler::do_it *)

\* A bulk of events, in an order that the queue does not promise: every
\* notifyPacket uses a producer token of its own.
Dequeue ==
  /\ mainpc = "loop" /\ running
  /\ \E b \in SUBSET msgQ :
       /\ b # {} /\ Cardinality(b) <= Bulk
       /\ batch' = b
       /\ msgQ' = msgQ \ b
  /\ mainpc' = "dispatch"
  /\ UNCHANGED <<running, rxVars, bufVars, nextRec, recQ, recVars, readReqs,
                 fault>>

\* The batch is handled event by event; then the loop tests running again.
AfterDispatch(e) ==
  /\ batch' = batch \ {e}
  /\ mainpc' = IF batch = {e} THEN "loop" ELSE "dispatch"

DispatchRead(e) ==
  /\ mainpc = "dispatch" /\ ~IsPacket(e)
  /\ readReqs' = readReqs \cup {[radio |-> e.radio, frame |-> e.frame]}
  /\ AfterDispatch(e)
  /\ UNCHANGED <<running, rxVars, bufVars, msgQ, nextRec, recQ, recVars, fault>>

\* recorders_.at(thread_index)->DispatchWork(do_record_task)
DispatchRecord(e) ==
  /\ mainpc = "dispatch" /\ IsPacket(e)
  /\ LET r == RecorderOf(e.ant) IN
       IF r \in Recorders
         THEN recQ' = [recQ EXCEPT ![r] = Append(@, e.off)] /\ fault' = fault
         ELSE recQ' = recQ /\ fault' = "range"
  /\ AfterDispatch(e)
  /\ UNCHANGED <<running, rxVars, bufVars, msgQ, nextRec, recVars, readReqs>>

\* SIGINT, or running was set to false by a receive thread.
LeaveLoop ==
  /\ mainpc' = "join"
  /\ running' = FALSE
  /\ UNCHANGED <<rxVars, bufVars, msgQ, batch, nextRec, recQ, recVars, readReqs,
                 fault>>
ExitSignal == mainpc = "loop" /\ LeaveLoop
StopLoop   == mainpc = "loop" /\ ~running /\ LeaveLoop

\* completeRecvThreads: join every receive thread.
JoinReceivers ==
  /\ mainpc = "join"
  /\ \A t \in Threads : pc[t] \in {"left", "failed"}
  /\ mainpc' = "stop"
  /\ UNCHANGED <<running, rxVars, bufVars, msgQ, batch, nextRec, recQ, recVars,
                 readReqs, fault>>

\* Mutant: Stop sends nothing.
SendNothing == UNCHANGED recQ

SendTerminate == recQ' = [recQ EXCEPT ![nextRec] = Append(@, Terminate)]
NextRecorder(here, next) ==
  IF nextRec + 1 = NumRecorders
    THEN nextRec' = 0 /\ mainpc' = next
    ELSE nextRec' = nextRec + 1 /\ mainpc' = here

\* recorder->Stop() for every recorder, then delete recorder: its destructor
\* calls Finalize, which stops the recorder again and joins its thread.
StopRecorder ==
  /\ mainpc = "stop"
  /\ SendTerminate
  /\ NextRecorder("stop", "finalize")
  /\ UNCHANGED <<running, rxVars, bufVars, msgQ, batch, recVars, readReqs, fault>>
FinalizeRecorder ==
  /\ mainpc = "finalize"
  /\ SendTerminate
  /\ mainpc' = "joinrec"
  /\ UNCHANGED <<running, rxVars, bufVars, msgQ, batch, nextRec, recVars,
                 readReqs, fault>>

\* Mutant: the recorder's thread is detached, not joined.
DetachRecorder ==
  /\ mainpc = "joinrec"
  /\ NextRecorder("finalize", "done")
  /\ UNCHANGED <<running, rxVars, bufVars, msgQ, batch, recQ, recVars, readReqs, fault>>

JoinRecorder ==
  /\ mainpc = "joinrec"
  /\ recpc[nextRec] = "exited"
  /\ NextRecorder("finalize", "done")
  /\ UNCHANGED <<running, rxVars, bufVars, msgQ, batch, recQ, recVars, readReqs,
                 fault>>
-----------------------------------------------------------------------------
(* Recorder threads: RecorderThread::DoRecording and HandleEvent *)

Take(r) ==
  /\ recpc[r] = "idle"
  /\ recQ[r] # <<>>
  /\ recQ' = [recQ EXCEPT ![r] = Tail(@)]
  /\ IF Head(recQ[r]) = Terminate
       THEN recpc' = [recpc EXCEPT ![r] = "exited"] /\ UNCHANGED cur
       ELSE /\ recpc' = [recpc EXCEPT ![r] = "record"]
            /\ cur'   = [cur EXCEPT ![r] = Head(recQ[r])]
  /\ UNCHANGED <<running, rxVars, bufVars, msgQ, mainVars, recorded, readReqs,
                 fault>>

\* What the buffer in hand holds.
InHand(r) == ring[BufferId(cur[r])][BufferOffset(cur[r])]

\* RecorderWorker::record: the packet is read from the ring; an antenna of
\* another recorder fails its assertion.
Record(r) ==
  /\ recpc[r] = "record"
  /\ IF InRange(r, InHand(r).ant)
       THEN /\ recorded' = [recorded EXCEPT ![r] = @ \cup {InHand(r)}]
            /\ recpc'    = [recpc EXCEPT ![r] = "free"]
            /\ fault'    = fault
       ELSE UNCHANGED <<recorded, recpc>> /\ fault' = "antenna"
  /\ UNCHANGED <<running, rxVars, bufVars, msgQ, mainVars, recQ, cur, readReqs>>

\* Mutant: the bit is not cleared.
ReleaseForgets(r) ==
  /\ recpc[r] = "free"
  /\ recpc' = [recpc EXCEPT ![r] = "idle"]
  /\ cur'   = [cur EXCEPT ![r] = Nothing]
  /\ UNCHANGED <<running, rxVars, bufVars, msgQ, mainVars, recQ, recorded, readReqs, fault>>

\* Free the buffer: clear its bit, whatever it was.
Release(r) ==
  /\ recpc[r] = "free"
  /\ inuse' = [inuse EXCEPT ![BufferId(cur[r])][BufferOffset(cur[r])] = FALSE]
  /\ recpc' = [recpc EXCEPT ![r] = "idle"]
  /\ cur'   = [cur EXCEPT ![r] = Nothing]
  /\ UNCHANGED <<running, rxVars, ring, msgQ, mainVars, recQ, recorded,
                 readReqs, fault>>
-----------------------------------------------------------------------------
Receive(t) ==
  \/ SyncRead(t) \/ Leave(t) \/ BeginSlot(t) \/ Reserve(t)
  \/ SwRead(t) \/ HwRead(t) \/ ReadError(t)
  \/ RequestFrame(t) \/ FreeUnused(t) \/ Notify(t)

Main ==
  \/ Dequeue \/ StopLoop
  \/ \E e \in batch : DispatchRead(e) \/ DispatchRecord(e)
  \/ JoinReceivers \/ StopRecorder \/ FinalizeRecorder \/ JoinRecorder

Recorder(r) == Take(r) \/ Record(r) \/ Release(r)

\* An exception nobody catches, or a failed assertion, ends the process.
Alive == fault = "none"

Finished == ~Alive \/ mainpc = "done"
Stutter  == Finished /\ UNCHANGED vars

Next ==
  \/ /\ Alive
     /\ \/ \E t \in Threads : Receive(t)
        \/ Main
        \/ ExitSignal
        \/ \E r \in Recorders : Recorder(r)
  \/ Stutter

Spec == Init /\ [][Next]_vars

\* Threads are scheduled, radioRx returns, and the condition variables wake
\* the recorders.  No fairness on SyncRead: a radio may fail every dummy read.
\* None on ExitSignal: nobody has to press Ctrl-C.
Fairness ==
  /\ \A t \in Threads : WF_vars(Alive /\ pc[t] # "sync" /\ Receive(t))
  /\ WF_vars(Alive /\ Main)
  /\ \A r \in Recorders : WF_vars(Alive /\ Recorder(r))

FairSpec == Spec /\ Fairness
-----------------------------------------------------------------------------
(* Properties *)

\* Type correctness of the state of the receive path (receiver.cc,
\* scheduler.cc, recorder_thread.cc).
TypeOK ==
  /\ running \in BOOLEAN
  /\ pc \in [Threads -> {"sync", "top", "reserve", "receive", "request", "free",
                         "notify", "left", "failed"}]
  /\ radio \in [Threads -> Radios]
  /\ ch \in [Threads -> 0 .. NumCh - 1]
  /\ frame \in [Threads -> Frames]
  /\ slot \in [Threads -> 0 .. SlotPerFrame]
  /\ cursor \in [Threads -> Index]
  /\ last \in [Radios -> Int]
  /\ inuse \in [Threads -> [Index -> BOOLEAN]]
  /\ ring \in [Threads -> [Index -> Content]]
  /\ msgQ \subseteq Event
  /\ batch \subseteq Event
  /\ mainpc \in {"loop", "dispatch", "join", "stop", "finalize", "joinrec",
                 "done"}
  /\ nextRec \in Recorders
  /\ recQ \in [Recorders -> Seq(Offsets \cup {Terminate})]
  /\ recpc \in [Recorders -> {"idle", "record", "free", "exited"}]
  /\ cur \in [Recorders -> Offsets \cup {Nothing}]
  /\ readReqs \subseteq [radio : Radios, frame : Nat]
  /\ recorded \in [Recorders -> SUBSET Content]
  /\ fault \in {"none", "full", "free", "range", "antenna"}

\* The buffers a receive thread holds: reserved and not yet handed over.
Held(t) ==
  CASE pc[t] = "reserve" -> cursor[t] .. cursor[t] + ch[t] - 1
    [] pc[t] \in {"receive", "request", "failed"} -> Window(t)
    [] pc[t] \in {"free", "notify"} -> cursor[t] + ch[t] .. cursor[t] + NumCh - 1
    [] OTHER -> {}

\* The buffer offsets in the hands of the main thread and of the recorders.
Packets       == {e \in msgQ \cup batch : IsPacket(e)}
WithMain      == {e.off : e \in Packets}
Queued(r)     == {recQ[r][k] : k \in DOMAIN recQ[r]} \ {Terminate}
WithRecorders == UNION {Queued(r) \cup ({cur[r]} \ {Nothing}) : r \in Recorders}
Handed        == WithMain \cup WithRecorders

\* The in-use bit of a buffer is set exactly as long as somebody still needs
\* the buffer: no bit is cleared under a packet that waits to be recorded and
\* no buffer leaks out of the ring (receiver.cc:471-482, 530-546,
\* recorder_thread.cc:147-151).
InUseExact ==
  Alive => \A t \in Threads, i \in Index :
             inuse[t][i] <=> (i \in Held(t) \/ Offset(t, i) \in Handed)

NoRepeat(q) ==
  \A j, k \in DOMAIN q : q[j] = q[k] /\ q[j] # Terminate => j = k

\* A buffer has one owner: it is not held by its receive thread and handed on
\* at once, no two events mean the same buffer, no recorder queue holds it
\* twice, and no two recorders, or a recorder and the main thread, share it.
SingleOwner ==
  /\ \A t \in Threads : \A i \in Held(t) : Offset(t, i) \notin Handed
  /\ \A e \in msgQ \cap batch : ~IsPacket(e)
  /\ \A e, f \in Packets : e.off = f.off => e = f
  /\ WithMain \cap WithRecorders = {}
  /\ \A r \in Recorders : NoRepeat(recQ[r])
  /\ \A r \in Recorders : cur[r] \notin Queued(r)
  /\ \A r, s \in Recorders : r # s =>
       (Queued(r) \cup {cur[r]}) \cap (Queued(s) \cup {cur[s]}) \subseteq {Nothing}

\* Nobody writes a buffer that somebody else needs, and nobody keeps one that
\* nobody needs: the in-use bits are exact and every buffer has one owner
\* (receiver.cc:471-482, 530-546, recorder_thread.cc:147-151).
Ownership == InUseExact /\ SingleOwner

\* The event of a packet still finds that packet: the buffer at its offset
\* holds the frame, the slot, the cell and the antenna the event was made for.
EventMatchesBuffer ==
  \A e \in Packets :
    ring[BufferId(e.off)][BufferOffset(e.off)] =
      [frame |-> e.frame, slot |-> e.slot, cell |-> CellOf(e.radio),
       ant |-> e.ant]

\* A buffer is never written between the moment its packet is handed over and
\* the moment the packet is recorded (the ring is overwritten only behind the
\* in-use bits).
NoOverwrite ==
  [][\A t \in Threads, i \in Index :
       Offset(t, i) \in Handed => ring'[t][i] = ring[t][i]]_vars

\* A recorder writes a packet once: no packet is recorded again, neither from
\* a second event nor from a stale buffer.
RecordsNew ==
  \A r \in Recorders :
    recpc[r] = "record" /\ recpc'[r] = "free" =>
      \A s \in Recorders : InHand(r) \notin recorded[s]

\* The process dies of a full ring only: the "freed buffer when already free"
\* exception, the out-of-range recorder index and the recorder's antenna
\* assertion never happen (receiver.cc:536-541, scheduler.cc:244-252,
\* recorder_worker.cc:295-300).
OnlyOverrunKills == fault \in {"none", "full"}

\* A full ring means a backlog: the buffer the receive thread wanted still
\* waits for the main thread or for a recorder; it was not leaked.
OverrunIsBacklog ==
  fault = "full" =>
    \E t \in Threads : pc[t] = "reserve" /\ Offset(t, cursor[t] + ch[t]) \in Handed

\* The process dies of nothing but a backlog (receiver.cc:477-482, 536-541,
\* scheduler.cc:244-252, recorder_worker.cc:295-300).
DiesOfBacklog == OnlyOverrunKills /\ OverrunIsBacklog

\* The downlink of a frame is requested once per radio, so that the reader
\* advances its file by one frame per frame (receiver.cc:519-524, 573-581).
Requests == {[radio |-> e.radio, frame |-> e.frame] :
               e \in {f \in msgQ \cup batch : ~IsPacket(f)}} \cup readReqs
RequestsNew ==
  \A t \in Threads :
    pc[t] = "request" /\ pc'[t] # "request" =>
      [radio |-> radio[t], frame |-> frame[t] + TxFrameDelta] \notin Requests

\* What a symbol sets off happens once: its packet is recorded once, and the
\* downlink is requested once (recorder_thread.cc:141-147, receiver.cc:573-581).
TakenOnce == [][RecordsNew /\ RequestsNew]_vars

\* When do_it returns, the recorders have worked off all they were given: the
\* comment at scheduler.cc:297 ("Force the recorders to process all of the
\* data they have left and exit cleanly").  Packets still in message_queue_
\* are lost: nothing reads it after the loop.
ShutdownDrains ==
  mainpc = "done" =>
    /\ WithRecorders = {}
    /\ \A r \in Recorders : recpc[r] = "exited"
    /\ \A t \in Threads : \A i \in Index :
         inuse[t][i] => (pc[t] = "failed" /\ i \in Held(t)) \/ Offset(t, i) \in WithMain

\* Once running is false, by a signal or by a radio error, do_it returns,
\* unless a receive thread is still at the dummy reads before its loop and its
\* radio never answers: that loop does not look at running, and the join waits
\* for it (receiver.cc:425-429, scheduler.cc:290-306).
Terminates ==
  <>[](\A t \in Threads : pc[t] # "sync") => (~running ~> Finished)
-----------------------------------------------------------------------------
(* The inductive invariant of the proofs *)

\* Where a receive thread stands: the cursor is at the start of a radio read,
\* the radio is one of the thread's own, and only recorded slots are notified.
ThreadInv ==
  \A t \in Threads :
    /\ cursor[t] % NumCh = 0
    /\ radio[t] \in RadioStart(t) .. RadioEnd(t) - 1
    /\ (pc[t] \notin {"top", "left"} \/ HwFramer) => slot[t] \in Slots
    /\ pc[t] \in {"sync", "top", "receive", "request", "failed"} => ch[t] = 0
    /\ pc[t] = "notify" => slot[t] \in RxSlots[radio[t]]

\* A recorder has a buffer in hand exactly while it records and frees it.
RecorderInv ==
  \A r \in Recorders : recpc[r] \in {"record", "free"} <=> cur[r] # Nothing

\* The main thread works off a batch before it does anything else.
MainInv == mainpc # "dispatch" => batch = {}

\* A packet in the queue or in the hands of a recorder is of an antenna of that
\* recorder (the check at recorder_worker.cc:295-300).
RoutedToOwner ==
  \A r \in Recorders : \A o \in Queued(r) \cup ({cur[r]} \ {Nothing}) :
    InRange(r, ring[BufferId(o)][BufferOffset(o)].ant)

IInv ==
  /\ TypeOK /\ ThreadInv /\ RecorderInv /\ MainInv
  /\ InUseExact /\ SingleOwner /\ EventMatchesBuffer /\ RoutedToOwner
  /\ OnlyOverrunKills /\ OverrunIsBacklog
=============================================================================
