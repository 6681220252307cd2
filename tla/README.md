# HoudiniLab: TLA+ models, model checking and proofs

This directory holds a verification development for the repository: the channel
sounder under `CC/Sounder`, and the Python programs under `PYTHON` and `MATLAB`
that drive the radios or read the sounder's traces. It models the concurrent
core of the sounder (threads, rings of packet buffers, queues, start and
shutdown, files, radio bring-up, beacon synchronisation), the state machine of
the gain control, the experiments as sequences of calls on radios that lose
symbols, and the index arithmetic of the trace tools. TLC checks all of it on
small instances; TLAPS proves the safety results of the sounder, of the gain
control, of the health monitor, of the trace tools and of the experiments for
every value of the parameters.

Line numbers below refer to files of `CC/Sounder` unless a path says otherwise.

## 1. The system

| Component | State it keeps | Operations | Source |
|---|---|---|---|
| Scheduler (main thread) | message queue, recorders, readers, transmit queues, rings | constructor, `do_it` (start threads, dispatch loop, shutdown), `gc` | `scheduler.cc` |
| Receiver, base station | per receive thread: frame, slot, cursor into its ring | `startRecvThreads`, `loopRecv`, `notifyPacket`, `baseTxBeacon`, `baseTxData`, `completeRecvThreads` | `receiver.cc:38-616` |
| Receiver, clients | per client thread: frame, ring offset, resync state, read alignment | `clientTxRx`, `clientSyncTxRx`, `clientSyncBeacon`, `clientAdjustRx`, `clientTxPilots`, `clientTxData` | `receiver.cc:618-1210` |
| Recorder thread | event queue, mutex, condition, `running_` | `Start`, `DispatchWork`, `Stop`, `Finalize`, `DoRecording`, `HandleEvent` | `recorder_thread.cc` |
| Trace file | extents and handles of the datasets, target size | `init`, `record`, `finalize`; `createDataset`, `openDataset`, `closeDataset`, `extendDataset`, `writeDataset` | `recorder_worker.cc`, `hdf5_lib.cc` |
| Reader thread | event queue, file positions, offsets into the transmit rings | `Start`, `DispatchWork`, `Stop`, `Finalize`, `DoReading`, `ReadFrame` | `hdf5_reader.cc` |
| Radio sets | radios per cell, the counter of the init threads | constructors, destructors, `init`, `configure`, `radioStart/Stop/Rx/Tx` | `BaseRadioSet.cc`, `ClientRadioSet.cc` |
| `main` | the number of tries | retry loop | `main.cc:47-76` |
| Configuration | schedules, antenna and thread counts, `running_` | constructor, slot queries | `config.cc` |
| Drivers, calibration, signal processing, data generation | none that is shared | | `Radio*.cc`, `BaseRadioSet-calibrate-*.cc`, `comms-lib*.cc`, `data_generator.cc` |
| AGC | state, stage, counters, gain; flags of the thread | `newSample` with its callbacks, the frame loop of the demo | `PYTHON/IrisUtils/agc_fsm_iris.py`, `PYTHON/DEMOS/AGC_SIM_DEMO.py` |
| Health monitor | radios under test, the two logs | discovery, receiver and transmitter test, cutting of the logs | `PYTHON/IrisUtils/iris_health_monitor.py` |
| Trace tools | slice of the trace, estimates, figures | `get_data`, `samps2csi_large`, `demodulate`, `verify_hdf5`, `plot_csi` | `PYTHON/IrisUtils/plot_hdf5.py`, `hdf5_lib.py`, `plot_lib.py` |
| MIMO driver | radios, triggers, arrays of the call | `txrx_uplink`, `txrx_downlink`, `txrx_dl_sound`, `txrx_refnode`, `set_opt_gains`, `close` | `MATLAB/mimo_driver.py`, `iris_py.py` |
| Demos | radios, arrays, files, handlers | bursts, calibrations, sounder, beacon sweep, OFDM, generator and receiver of a single radio | `PYTHON/DEMOS`, `PYTHON/IrisUtils/sample_offset_cal.py` |
| Other tools, web interface | | | `PYTHON`, `MATLAB`, `WEBGUI` |

How they interact:

* A **receive thread** owns a ring of packet buffers and one "in use" bit per
  buffer. It sets the bits of a read, lets the radio fill the buffers, and puts
  one event per packet, with the buffer's offset, on `message_queue_`.
* The **main thread** takes events in bulk. Slot 0 means a new downlink frame:
  a read task for the **reader thread**. Any other slot is a packet: a record
  task for the **recorder thread** of the packet's antenna. A finished read
  comes back through the same queue and goes to the transmit queue of its radio.
* A **recorder thread** writes the packet to its **trace file** and clears the
  bit. So one bit is shared by two threads and the buffer by three, with no
  lock; only the protocol keeps a waiting packet from being overwritten.
* The **shutdown** sets `running_`, joins the receive threads, sends each
  recorder a stop event, and joins each recorder in its destructor.
* The **radio set** is built with one thread per radio; a radio that is missing
  makes the constructor of Scheduler fail and `main` try once more.
* `do_it` starts client threads, readers and receive threads, lets the receive
  threads go with one broadcast, and at the end joins only the receive threads
  while `gc` and the destructors delete what all of them use.
* A **Python tool** is one thread (the sounder demo and the generator have two, and a handler for
  Ctrl-C) above radios that play a schedule of slots when they are triggered or
  hear a beacon. A read that finds no symbol times out; most results of reads
  are not checked, so what an array holds depends on every read before.

What is hard: three kinds of threads with lock-free queues whose order is not
promised (every `notifyPacket` uses a producer token of its own), a condition
variable whose predicate reads a queue the mutex does not protect, a counter
decremented by a load and a store, rings and files that are at their limit,
radio errors in the middle of a slot, and a shutdown with work in every queue;
in the Python tools lost symbols, missed beacons, retries, interrupts, state
that is carried from one frame to the next, and indices that several functions
rescale on their own.
`PROJECT.json` lists these hazards at their lines.

What makes each component correct:

* receive path: the in-use bit is exact, a buffer has one owner, an event finds
  its packet, a packet is recorded once and never overwritten before, only a
  backlog may end the process, the shutdown drains the recorders;
* recorder thread: a work queue (all events, once, in order, until the stop
  event), no lost wake-up, a join that returns;
* trace file: every write fits its dataset, nothing recorded is cut off, the
  file ends at the limit, and faults have the causes one knows of;
* bring-up: the constructor waits for all of its threads; the missing radios are
  stripped and no other; what a missing radio leads to is known;
* life of the threads: only threads nobody joins can use what is deleted, and
  the end is reached unless a thread came late to the barrier or a radio never
  answers the dummy reads;
* transmit path: every frame that is asked for is read and sent once, in
  order, and with its own samples as long as the ring is not crowded and the
  file was in step;
* client synchronisation: from the first beacon on the reads and the
  transmissions are aligned with the frame of the base station, and every search
  ends;
* gain control: the table always has a row, a frame that is left unfinished has
  one known cause, and a tuned frame ends near the target;
* health monitor: one verdict per channel, the test fails if one of them does,
  plots show the radio they name;
* trace tools: every frame has its estimate, received data is compared with the
  data that was sent, the figures of one run agree;
* experiments: what is kept as good is of one try, from the right senders and in
  its place; calibration aligns; files stay in step; no radio is left on the air.

## 2. Modules

| Module | Models | Built on |
|---|---|---|
| `RxPath` | `loopRecv`, `notifyPacket`, the dispatch loop and shutdown of `do_it`, the recorders' effect on the rings | |
| `MCRxPath` | instances of `RxPath` for TLC | `RxPath` |
| `RxPathProofs` | theorems about `RxPath` | `RxPath`, TLAPS |
| `WorkQueue` | abstract: what a worker thread promises | |
| `RecorderThread` | `recorder_thread.cc` at the grain of the mutex and the condition variable; refines `WorkQueue` | `WorkQueue` |
| `TraceFile` | `RecorderWorker::record` and `finalize` on `Hdf5Lib` | |
| `RecorderProofs` | theorems about `RecorderThread` and `TraceFile` | `RecorderThread`, `TraceFile`, TLAPS |
| `TxPath` | `Hdf5Reader::DoReading` and `ReadFrame`, the transmit rings and queues, the part of `do_it` that hands events on, `baseTxData`, `clientTxData` and the requests of both sides | |
| `MCTxPath` | instances of `TxPath` for TLC | `TxPath` |
| `TxPathProofs` | theorems about `TxPath` | `TxPath`, TLAPS |
| `ClientSync` | beacon search, alignment and resynchronisation of `clientSyncTxRx`, `clientSyncBeacon`, `clientAdjustRx` | |
| `ClientSyncProofs` | theorems about `ClientSync` | `ClientSync`, TLAPS |
| `RadioInit` | constructor, threads and destructor of `BaseRadioSet`, the retry of `main` | |
| `RadioInitProofs` | theorems about `RadioInit` and `Lifecycle` | `Lifecycle`, TLAPS |
| `MCRadioInit` | instance of `RadioInit` for TLC | `RadioInit` |
| `Lifecycle` | `do_it` after the bring-up: start of the threads, barrier, dispatch, joins, deletions | `RadioInit` |
| `MCLifecycle` | instance of `Lifecycle` for TLC | `Lifecycle` |
| `Agc` | `AutomaticGainControl` and the thread of the demo | |
| `MCAgc` | the constants of the code | `Agc` |
| `Ordered` | numbers of a set in their order | |
| `HealthMonitor` | discovery, the two tests, the cutting of the logs | `Ordered` |
| `MCHealthMonitor` | a network of three Irises, command lines | `HealthMonitor` |
| `IrisUtilsProofs` | theorems about `Agc` and `HealthMonitor` | `Agc`, `HealthMonitor`, TLAPS |
| `VerifyTrace` | slicing, estimation, demodulation and plots as index arithmetic | |
| `MCVerifyTrace` | traces and command lines | `VerifyTrace` |
| `VerifyTraceProofs` | theorems about `VerifyTrace` | `VerifyTrace`, TLAPS |
| `IrisRadio` | external: what the tools rely on in the radios | `Ordered` |
| `MimoDriver` | `mimo_driver.py` on `iris_py.py` | `IrisRadio` |
| `PilotTools` | `SISO_TXRX_TDD.py`, `NB_CAL_DEMO.py` | `IrisRadio` |
| `CalTools` | `sample_offset_cal.py`, `WB_CAL_DEMO.py` | `IrisRadio` |
| `FreeTools` | `SOUNDER_TXRX.py`, `BEACON_SWEEP.py`, `SISO_OFDM.py`, `SISO_TX.py`, `SISO_RX.py` | `IrisRadio` |
| `IrisLab` | a laboratory: one tool at a time has the radios, its command line says which | the four above |
| `MCIrisTools` | a small laboratory, command lines | `IrisLab` |
| `IrisToolsProofs` | theorems about the tools | `IrisLab`, TLAPS |

Definitions that follow a comment `Mutant` are plausible wrong versions of the
definition below them. No specification uses them; replacing the definition by
one of them makes a property fail, which shows that the property says
something about the code.

### RxPath

State: per receive thread its place in `loopRecv` (`pc`), the radio and the
channel its loops are at, `frame_id`, `slot_id`, `cursor`; `inuse` is
`pkt_buf_inuse` (one Boolean per bit) and `ring` the packet buffers; `msgQ` is
`message_queue_`, a set from which the main thread takes any events, because
the queue promises no order between producer tokens and `notifyPacket` makes a
new one per event; `batch` is `events_list`; `recQ`, `recpc` and `cur` are the
recorders. `readReqs` and `recorded` are history.

A receive thread reserves its buffers one channel at a time, reads the radio,
then, again one channel at a time, gives the buffers back (a slot that is not
recorded) or writes the header and puts an event. Each of these steps touches
one shared bit or one queue and is an action; so every interleaving with the
main thread and the recorders that the code has is in the model. The cursor is
kept at the start of the read until the last channel is notified; the code
moves it per channel, which nobody else sees.

With the software framer the host counts frames and slots and reads every slot;
with the hardware framer the radio delivers the slots of its schedule with
increasing time stamps, and may lose some. A radio read may fail in every
state. An exception nobody catches ends the process: `fault` says which one, and
nothing happens after it.

With the software framer a thread first reads each of its radios into a scratch
buffer until the radio answers (`receiver.cc:408-431`): place "sync", action
`SyncRead`, which is the read that succeeds. A read that fails changes nothing,
and this loop looks neither at `running` nor at a count, so a radio that never
answers keeps the thread there for ever, and the join of the shutdown with it.
`Terminates` says so: it promises an end to the runs in which no thread stays at
"sync".

Not in this module: the client threads, internal measurement (its mapping of
slots and the reference node), the start barrier (`Lifecycle`), what is sent (`baseTxData`),
pinning of cores, logging.

### RecorderThread and WorkQueue

`recorder_thread.cc` statement by statement: the main thread constructs the
thread and sets `running_` under the mutex, enqueues, locks and unlocks the
mutex around nothing, notifies, and joins; the worker waits for `running_`,
polls without the lock, then waits with a predicate that takes an event. A poll
may miss the newest event as long as its dispatcher has not gone through the
mutex (`Missed`): that is what the lock-free queue promises without the mutex,
and what the empty critical section is for. Wake-ups may be spurious.

`WorkQueue` is the promise: events given are handled once, in order, until the
stop event. The refinement maps `given` to handled, in hand and waiting events,
and `closed` to the worker being past its loop.

### TraceFile

`dims` is the primary dimension of each dataset, `target` the target size,
`open` whether the handles are valid, `file` whether the file is open,
`written` the frames written and not cut off. `record` closes all datasets for
a packet beyond the limit; otherwise it closes, grows and reopens them at the
target size, grows the dataset of the packet by one step if needed, and writes.
`limit` (`max_frame`) and `beyond` (whether the host counts frames past it) are
chosen at the start and stay. `MaxGap` bounds how far ahead of the newest frame
of its dataset a packet may be. Every growth is cut at the limit, as `extendDataset` does.
`RecorderWorker`'s destructor finalizes again; by then the file is null and
nothing happens.

### TxPath

Per radio: the thread's place in its frame (`pc`, `frame`), the event it sends
(`hand`, `at`), its transmit queue `txQ`, its ring, the reader's `offset` in the
ring and the position of its `file`. Between them `requests`, a set like `msgQ`
in `RxPath` because every request has a producer token of its own; `readQ`, the
reader's queue, which starts with the first `txFrameDelta_` frames of every
radio; and `reads`, in order because one thread produces them. A packet of the
ring is a pair: the frame in its header and the packet of the file its samples
are.

`site` says whose radios these are; `Sites` holds the instances, from which the
initial state picks one. The thread of the base station sends what
is in its queue and then asks for the frame `txFrameDelta_` ahead
(`receiver.cc:520-527`); the thread of a client asks first
(`receiver.cc:1000-1004`, `1064`). The reader rewinds a file at a frame that is
a multiple of the frames in the file and nowhere else, so a frame the radio lost
there leaves the file out of step (`slipped`). Nothing checks that a place of
the ring is free; `crowded` records that more frames were under way than fit.
`sent`, `wrong`, `newest`, `slipped` and `crowded` are history.

The module has one cell: the main thread indexes the transmit queues by radio,
and the mapping of radios to cells is that of `RxPath`. Packing the samples,
time stamps beyond the frame number, and the pilots and beacons (whose buffers
do not change) are left out.

### ClientSync

Positions are samples modulo the frame, relative to the base station: 0 is
where a frame starts. `pos` is where the next sample of the radio lies; `left`
are samples to throw away; `syncs`, `slot`, `age`, `resync`, `retries`, `adjust`
and `base` are `sync_count`, `slot_id`, the frames since `last_resync`,
`resync`, `resync_retry_cnt`, `beacon_adjust` and `rx_beacon_time`. `slack` and
`carried` are history: what slipped since the beacon was found, and the late
start that slot 0 of this frame makes up for.

The clocks drift by a sample at any time, and a read of a slot may be short;
`MaxSlip` bounds both together. The correlator finds a beacon that is whole in
the window at its place, or misses it. That it may find something else, and the
threshold that loosens with every retry (`corr_scale + resync_retry_cnt`), are
signal processing and not in the model. Behind a read of slot 0 that came short,
`syncSearch` is shown the full slot all the same (`receiver.cc:1012-1015`), the
end of which is what an earlier read left there; a beacon among these old
samples would have to be whole, so the read would be short by more than a
beacon, and the model leaves it out too. A read that fails in the search leaves
all as it is; in the main loop it ends the frame.

### RadioInit

The constructor visits the cells; for each it starts one thread per radio,
spins until the counter is zero, strips missing radios, writes the number of
radios back into the configuration, and starts the configure threads. A thread
counts down in two steps, `Load` and `Store`. A missing radio ends the loop
over the cells; then the receiver deletes the set and `main` tries again.

### Lifecycle

`Lifecycle` goes on where `RadioInit` reaches `running`; until then the rest
does nothing. `dpc` is the main thread from `do_it` to the end of the
destructor of `Scheduler`, `rpc`, `kpc` and `hpc` the receive threads, the
client threads and the readers. A receive thread that waits at the barrier is
`asleep` until the broadcast or a spurious wake-up. `gone` is what has been
deleted, in the order of the destructors; `hurt` records which kind of thread
used what afterwards, `late` which receive threads came to wait after the
broadcast. A thread that is released is at the dummy reads ("sync", `SyncRead`)
when the host frames, else at its loop (`Released`). Client threads and readers take single steps, each of which names
what it uses.

### Agc

One action per rule of the machine, one step per sample. The callbacks run
inside the call that changes the state, so "wait" is left in the step that enters
it. The level of the packet and the sample at which it begins are chosen per
frame; a reading is the level plus the gain, clipped by the register. Readings
are not whole decibels: levels are in steps, `Unit` to a decibel, and
`int(rssiDiff)` (`agc_fsm_iris.py:199`) is `Truncate`, which cuts towards zero.
The control counts in rows of the gain table and takes a row for a decibel;
`Table` is what the chain gets for a row, LNA, TIA and PGA together
(`agc_fsm_iris.py:171`, `213`). In the table of the code
(`data_in/gainTable_07-20-18.csv`) that is the row less 12 up to row 61 (`Knee`),
and 57, 58 and 61 dB in rows 62 to 64; its first column, by which rows are looked
up, is the number of the row. `base`,
`carried`, `tunes`, `firstTune` and `lastDrop` are history.

### HealthMonitor, VerifyTrace

`HealthMonitor` goes through the radios under test, for each through the sweep
of the gain with two measurements per step whose result (above the limit or not,
per channel) is free. The logs are the rows the code writes, without the
numbers; the lists for the plots are cut from them as the code does.
`VerifyTrace` keeps, in place of samples, which frame and antenna they are of.
Estimates are computed chunk by chunk into `rows`; `pairs` are the received and
the sent data that `demodulate` compares, `shown` the frame each figure shows.
`TxData` are the files of sent data in the order in which `load_tx_data` puts
them: a trace knows the radios of the recorder's own configuration (`own`) and
their channels (`chan`), the command line may add files for clients that ran
apart. An index out of range, an unbound name or a call that does not fit is
phase "stopped" with its reason, in the order in which the code meets them:
`--ref-user` of a user without a slot (`plot_hdf5.py:140`); noise that is not cut
to the antennas left in (`plot_hdf5.py:234-239`, `channel_analysis.py:105`) and a
second pilot symbol that is not there (`channel_analysis.py:172`) in the
analysis; clients the recorder's configuration does not know in a calibration.
`StopsOnlyFor` lists them all. Options taken from the command line are the ones
that select frames, antennas, users, symbols, offset, files and what to do;
`--ref-ul-slot`, `--ref-cell`, `--corr-thresh`, `--legacy` and negative numbers are left
at values that are there. Two cases numpy lets pass or fail by its own rules are
not in the model either: a pilot that sticks out of its slot by all but one
sample, which is broadcast, and an FFT size that the pilots do not have. A
calibration is of a trace with clients.

### IrisRadio and the tools on it

A symbol is the frame, the slot and the set of radios that sent in it. A trigger
plays one frame: radios with a schedule send or receive, those that wait for the
beacon do so if they hear it, and a symbol may be lost on the way to the host.
`dev` holds per radio its mode, schedule, stream, correlator, count of triggers
and the symbols that wait to be read. A tool sees the radios only through these,
and `out` is what it keeps: so that a symbol that was lost, left over or sent by
the wrong radio can be told in `out`. Each tool has its own labels in `phase`;
an interrupt may come between any two of them. `IrisLab` puts the tools
together: `Labs` is the set of command lines, of which `Init` takes one.

## 3. Runs

| Run | Instance | Checks |
|---|---|---|
| `RxPathSw` | software framer, 2 radios, 2 receive threads, 2 recorders, rings of 2 buffers, frames 0..2, fairness | `Ownership`, `DiesOfBacklog`, `ShutdownDrains`, `NoOverwrite`, `Terminates` |
| `RxPathHw` | hardware framer, 2 cells with 1 radio, 1 receive thread for both, 2 channels, rings of 4 buffers, downlink, frames 0..1 | `EventMatchesBuffer`, `TakenOnce` |
| `RecorderThreadWait` | 3 tasks, wait signal | `NoLostWakeup`, `WorksAsQueue`, `JoinReturns` |
| `TraceFile` | 2 datasets, initial size 4, step 2, frames 0..9; no limit, limit 7, limit 2; with and without packets beyond it | `FaultsExplained`, `FileIsTheRun` |
| `TxPath` | either side; 2 radios, 1 frame ahead, files of 2 frames, and 1 radio, 2 frames ahead, frames of 2 packets, rings of 3 frames, frames 0..3 with gaps (with 2 radios 0..1); fairness | `OnceEach`, `SentIsRight`, `KeepsOrder`, `AskedIsQueued` |
| `ClientSync` | frames of 4 slots of 4 samples, a window of 9, period 3, 1 retry, 3 slips, fairness | `ReadsAligned`, `NoUnexpectedAlignment`, `TxAlignedButCarried`, `SearchesEnd` |
| `Lifecycle` | cells of 3 and 1 radios, 2 tries; 2 receive threads, a client, a reader; fairness | `StartsCovered`, `StripExact`, `MissingRadios`, `OnlyUnjoinedHurt`, `EndsUnlessLate` |
| `RadioInitWait` | 3 radios in 1 cell, 2 tries, fairness | violation of `WaitEnds` |
| `Agc` | the constants and the gain table of the code, a quarter of a decibel per step, 3 frames, 12 levels, packets that begin at any sample | `GainTableFits`, `LeftOverExplained`, `Settles` |
| `HealthMonitor` | 3 Irises on two boards, the golden one anywhere, the command lines that differ | `OneVerdictEach`, `PlotsOwnRows` |
| `VerifyTrace` | traces of 1 and 5 frames, chunks of 2, 1 or 2 clients with 1 or 2 antennas that begin together, apart or never, some outside the recorder's configuration, pilots of 1 or 2 symbols, antennas left out, users without a slot, each way to slice and to look | `EveryFrameEstimated`, `ComparedWithSent`, `OneFrameShown`, `StopsOnlyFor` |
| `IrisTools` | 10 experiments, up to 4 radios, a lost symbol per frame, missed beacons, interrupts | `GoodFramesHeard`, `KeptInPlace`, `Calibrated`, `QuietWhenOver`, `InStep`, `DecodedWhole` |

Bounds. A ring of one or two radio reads is the smallest, so it wraps and
overruns within two frames; two threads and two recorders give every pair of
actors that can meet at a buffer; more of either is covered by the proofs.
`MaxFrame` bounds the frames received, in the guard of `BeginSlot` and the
frames `HwRead` chooses. `MaxTasks` bounds dispatches; three tasks and the stop
events already fill and empty the queue around a sleep. In `TraceFile` the
constants keep the order of the code's (`MAX_FRAME_INC` 2000, `kDsExtendStep`
400) and `LastFrame` is past two target sizes. In `TxPath` two radios meet at
the reader and at both queues of the main thread; the instances with one radio
run past two rewinds of the file and a turn of the ring, with every gap, and the
ring gets crowded. In `ClientSync` the window is longer than two slots, as in
the code (2.33), and shorter than a frame; the period is longer than the
retries, as the code has it up to about 98,000 samples per frame. In `Lifecycle`
three radios are enough for two gaps around a radio in the strip loop, a second
cell is one that is not reached, and two receive threads let one be late while
the other is not. In `Agc` the three frames are a frame that is left unfinished,
the one that catches up, and one more; the proofs cover any number. In
`VerifyTrace` five frames in chunks of two are a first, a middle and a cut last
chunk. In `IrisTools` `Frames` and `MaxCalls` are 2, so that whatever a call or
a frame leaves behind meets another one; `PilotRounds`, `CalRounds` and
`FreeRounds` (when the user gives up) are long enough for a loss, the rounds it
spoils and a good round after them, and `CalRounds` fills the rings of
`BufferSamps` takes; `MaxTry` 2 is a failed try and a last one; `AvgLen` is the
length of the receiver's average (10 in the code, `SISO_RX.py:97`), shorter than the snapshots
so that its ring turns; `MaxDelay` and `MaxRetries` bound the offset of a board and the refused calibrations. At most
one symbol is lost in a frame; every frame may lose one.

`CHECK_DEADLOCK FALSE` where the system stops: the client's thread, the frames of
`Agc`, and the tools, which end.

Fairness. Receive threads, the main thread and the recorders are threads the
operating system schedules, and `radioRx` returns (it has a timeout): weak
fairness for each thread. A dummy read may fail every time, so `SyncRead` is not
fair in `RxPath` and `Lifecycle`. Nothing makes a user press Ctrl-C: `ExitSignal` is
not fair. In `RecorderThread` the main thread need not dispatch, but a stop in
progress goes on; strong fairness on `Publish` says that a thread waiting for a
mutex that is free again and again gets it, and on `PollHit` that a poll that
can succeed again and again does at last. In `RadioInit` every started thread
runs and making a radio returns. In `Lifecycle` the main thread and the receive
threads run; that a sleeping thread wakes for nothing is not fair, and client
threads and readers are not either. In `TxPath` the main thread and the reader
run, and no request is passed over for ever by `try_dequeue_bulk`; the radio
threads are not fair, because a radio may deliver nothing. In `ClientSync` the
client's thread runs, and a beacon that is in the window of the search again and
again is found at last (strong fairness on `SearchFound`): without a base
station the search does go on for ever. The Python modules have no fairness:
their properties are safety.

### What the code does against its words

`RadioInitWait`: the countdown `store(load() - 1)` (`BaseRadioSet.cc:389`, `416`,
`ClientRadioSet.cc:316`) loses decrements; the wait of the constructor, "Wait
for init", does not end. `StartsCovered` shows the other half: it never ends too
early.

Properties that hold say the following of the code, which a reader may not
expect:

* the number of radios found overwrites the number configured
  (`BaseRadioSet.cc:95`), so the retry asks for fewer, or for none, and with
  several cells the destructor of a set that was given up reaches for radios
  that were never made (`BaseRadioSet.cc:342`). With the two tries of
  `main.cc:48` only the last cell can run with fewer radios than were
  configured; a third try would allow it for a cell that only empty ones
  follow, which TLC's instance has no tries for and the proof showed:
  `MissingRadios`;
* packets beyond `max_frame` close the datasets again and again
  (`recorder_worker.cc:317`) against the assertion at `hdf5_lib.cc:140`:
  `FaultsExplained`;
* a receive thread that locks the mutex of the barrier after the broadcast
  sleeps for ever, and client threads and readers use what was deleted:
  `EndsUnlessLate`, `OnlyUnjoinedHurt`;
* the dummy reads before the receive loop go on until the radio answers,
  whatever `running` says (`receiver.cc:425`): with a radio that never does, the
  process does not end: `Terminates`, `EndsUnlessLate`;
* the gain control's reset is late by a frame when the last sample of the search
  saturates, and the frame after it is not controlled: `LeftOverExplained`; a
  reading of the fine adjustment that is not negative ends the thread with an
  exception ("THIS SHOULDN'T HAPPEN", `PYTHON/IrisUtils/agc_fsm_iris.py:195`);
  a tuned frame is as near to the target as the last whole decibel, and in the
  top three rows of the table, where a row is not a decibel, only within their
  rise: `Settles`;
* the first chunk of several is estimated without the order of the subcarriers
  (`PYTHON/IrisUtils/hdf5_lib.py:264`): `EveryFrameEstimated`; a downlink with
  pilots, a calibration with demodulation, MMSE without a noise slot, and an
  analysis with antennas left out or pilots of one symbol end the
  trace tool: `StopsOnlyFor`;
* a reference radio keeps its schedule after `txrx_refnode` and sends in later
  calls, so its signal can pass for that of a user who missed the beacon:
  `GoodFramesHeard`;
* a symbol the reference radio loses leaves the nodes read after it with the
  wrong symbols of that round (`PYTHON/DEMOS/NB_CAL_DEMO.py:198`): `KeptInPlace`;
  a read that fails leaves an earlier round's samples, and the first report of
  the wide-band calibration leaves out the first take: `Calibrated`;
* one lost symbol puts the sounder's two files out of step for good, and the
  reader ends in the middle of a frame: `InStep`;
* the senders of `SISO_OFDM.py` and `SISO_TX.py` are never stopped:
  `QuietWhenOver` exempts them, and its part about tools that are cut short is
  about schedules: a `SISO_TX.py` that ends by an exception, or by an interrupt
  before its handler is there, leaves its radio sending;
* a preamble that begins with the first sample of the snapshot is whole, yet
  called too early: line 311 of `SISO_OFDM.py` says "If beginning of frame was not
  captured in current buffer", line 312 tests the peak, the preamble's last
  sample, against its length, while line 320 takes its first sample to be one
  later: `DecodedWhole` names this place as the exception; preambles with a prefix other than 32 are never
  decoded, and a training sequence whose length is not a multiple of 160 (1024,
  the default, is not) is repeated together with what the memory behind it held
  (`PYTHON/DEMOS/SISO_TX.py:159`): `DecodedWhole`.

Options that end a tool at once because a name is not bound
(`--both-channels` and `--tx-power-loop` of `SOUNDER_TXRX.py`, `--agc_en` of
`SISO_OFDM.py`), or because a call lacks arguments (recording and the gain
control in `SISO_RX.py`), are steps to "stopped" in the models. A Ctrl-C that
`SISO_TX.py` gets between its handler and `signal.pause`
(`PYTHON/DEMOS/SISO_TX.py:187-191`) is used up, and the user has to press it again.

Model checking also shows what is *not* promised: packets still in
`message_queue_` when the loop ends are lost (`ShutdownDrains` says so), and
buffers that a thread had reserved when its radio failed stay marked. When a
resynchronisation finds the reads late, `rx_beacon_time` is moved for that frame
(`receiver.cc:1019`), but slot 0 of the next frame starts as late as before and
sets it to its start (`receiver.cc:989-992`): the transmissions of that one frame
are late, and `TxAlignedButCarried` states how late. When `resync_period` is not
longer than the retries, the next search can fall into the frame whose slot 0 is
being shortened; it sees the old offset and `beacon_adjust` makes up for it a
second time. `PeriodIsLong` is the condition under which this cannot happen.

## 4. Proofs

All theorems hold for every value of the constants under the named
assumptions of the modules (`CellAssumption`, `SizeAssumption`,
`ScheduleAssumption`, `ThreadAssumption`, `FileAssumption`, `TxAssumption`,
`SyncAssumption`, `InitAssumption`, `AgcAssumption`, `HealthAssumption`,
`VerifyAssumption`, `RadiosAssumption`, `CalAssumption`, `FreeAssumption`,
`LabAssumption`). The last says what command lines allow and that the radios
they name are there.

* `RxPathProofs`. `Inductive`: `Spec => []IInv`. `IInv` strengthens the
  properties by `ThreadInv` (where a receive thread stands: the cursor is a
  multiple of the channels, the radio one of its own), `RecorderInv` (a recorder
  has a buffer in hand exactly while it records and frees it), `MainInv` (the
  batch is empty outside the dispatch) and `RoutedToOwner` (what waits for a
  recorder is of an antenna it owns). These are needed because ownership of a
  buffer passes from thread to queue to batch to recorder, and each hand-over
  keeps `InUseExact` and `SingleOwner` only together. The proof has a lemma per
  action. Lemmas on the arithmetic come first: `OffsetSplits` (an offset
  determines thread and place), `RadioPartition` (the receive threads' radios
  are disjoint and cover all), `AntennaPartition` (the recorder the main thread
  picks is the one whose assertion accepts the antenna). From it follow
  `TypeCorrect`, `InUseIsExact`, `OneOwner`, `BuffersOwned` (`Ownership`),
  `EventsMatch`, `OnlyBacklogKills` (`DiesOfBacklog`) and, as an action property,
  `NeverOverwritten`. `ShutdownIsOrderly` (`ShutdownDrains`) adds `DrainInv`: in
  the queue of every recorder the stop event is behind all packets (`Ending`),
  the receive threads are joined before the first stop event, and every recorder
  before the next (`JoinInv`). `TakenOnlyOnce` (`TakenOnce`) adds `TimeInv`, which
  measures all that was made of a radio against its `Clock`, the time stamp of
  the last slot read of it: no packet (`MadeInv`) and no request (`AskedInv`) is
  at or ahead of where its receive thread is in that slot, no packet is in two
  buffers, and one that is recorded is in a buffer only until it is freed
  (`FreshInv`). Clocks only move on, so nothing old is made again; that a radio
  has one thread (`RadiosApart`) is where the partition is needed once more.
* `RecorderProofs`, of `RecorderThread`. The invariant relates the mutex to the places of the
  two threads and says that a queue which a worker is about to sleep on is
  empty or has an event not yet published. It gives `WakeupsArrive`, and
  `Implements`: every step refines a step of `WorkQueue`.
* `RecorderProofs`, of `TraceFile`. The invariant bounds the extents from below by the newest
  frame and from above by the limit. It gives `EveryWriteFits`,
  `ClosedIsTrimmed`, `RunIsKept` (`FileIsTheRun`: no step takes a frame away that
  was recorded), `OpenUnlessBeyond` and `FaultsAreExplained`, the last from two of
  the others.
* `TxPathProofs`. What a radio has asked for is one sequence, its pipe: sent, in
  hand, in the transmit queue, in the reader's reports, in its queue.
  `OrderKept` (`KeepsOrder`) shows step by step that it only grows at its end;
  the lemmas on `FramesIn` say what taking, putting and passing over an event
  does to the frames of one radio. `EachOnce` (`OnceEach`) needs `AskInv`: pipe
  and requests hold every frame below the next one to be asked for (`Coming`)
  once, and none ahead of it. `SentRight` (`SentIsRight`) needs `RingInv`, for
  every radio: the file stands behind the newest frame unless that frame
  slipped (`InFile`), and while the ring is not crowded the packets of every
  frame on the way lie where its event says, with their own samples, counted
  back from the reader's offset (`InRing`). The offset turns modulo the ring, so
  what the proof adds are lemmas that packets less than a ring apart lie in
  different places.
* `ClientSyncProofs`. `TypeCorrect` and `NeverUnexpected` need only that an
  offset in the window is at least minus the prefix. Alignment needs positions
  modulo the frame: lemmas on multiples of the frame (`ModFrame`, `MultipleSum`)
  and on `Near(x, s)`, that x is within s of a multiple (`NearMoves`,
  `NearSlips`, `NearDistance`). The invariant is `AlignInv`: `ReadsNear` says
  where the next read starts, at each place of the thread; `TxNear` says the same
  of the time of transmissions; `Counting` says that a shortened slot 0 is never
  searched for the beacon. The last is where `PeriodIsLong`
  (`RetryMax + 1 < Period`) is needed, an assumption of the two theorems
  `ReadsStayAligned` and `TransmissionsAligned`; without it they are false.
* `RadioInitProofs`. `ConstructorWaits`: whatever decrements are lost, the
  constructor goes on only when all threads it started are done. The invariant
  is `ShapeInv` (types, and no cell has more radios than were configured) and
  `TeamInv`, whose part `Covering` is the argument: the counter is at least the
  number of threads not done, and a thread that has loaded it has seen at least
  as many, itself among them. A store of an old value can therefore only make
  the counter too large. The last radio that is there, which the strip loop moves,
  exists by well-founded induction on the places. `StripKeepsFound`
  (`StripExact`) needs `FoundInv`: before the loop every radio is at its own
  place (`AsMade`), in it each radio found is at exactly one place and none is
  missing before the place at hand (`Sifted`). `RunsWithRadios`
  (`MissingRadios`) needs `CellsInv`, that the cells before the one at hand are
  complete and those behind it empty, and `ConfigInv`, which says where the
  configuration may name fewer radios than at first, depending on the number of
  tries. `LifeKeepsInit`: a step of `Lifecycle` is a step of `RadioInit` or
  leaves it alone, so `LifeSpec => Spec` and all of the above holds of it
  (`LifeBringsUp`). `JoinedAreSafe` (`OnlyUnjoinedHurt`) needs `JoinInv`: nothing
  is deleted before the join, and behind it no receive thread runs.
* `IrisUtilsProofs`, of `Agc`. `TableFits` needs only that an idle machine has nothing left of an
  earlier frame (`IdleInv`). `UnfinishedIsLate` follows a frame through phases
  (`Waking`, `Searching`, `LastLook`, `Tuning`, `Done`, or `CatchUp` and `Idles`
  in the frame after one that was left unfinished), with one lemma per phase; it
  assumes `SearchIsLong`, that a search takes more than one sample and more than
  one sample counts as saturation. `TunedFramesSettle` adds `GainInv`, that the
  gain is that of the row `Virtual`, `MaxGain` less all adjustments, clipped once
  to the table, and that this row stays near the target once it was tuned
  (`Near`): a reading that is not clipped leaves an error of less than a decibel
  and the rise of the table beyond its rows (`StepNear`), and a second one, when
  the gain that is needed is in the even part of the table, less than a decibel
  (`StepEven`). It assumes `Readable`: the register reaches from the target down
  over the range of the gains and tells readings that are not negative, and the
  target is less than the even part of the table below full scale (of the code:
  73 of 84 dB, 15 of 61). It takes the sum of the first drops as a
  function given by its recursion equations (`IsSum`).
* `IrisUtilsProofs`, of `HealthMonitor`, for any network, boards, ranges of gains
  and command line. `HealthAlways` is the invariant `HealthInv`. The loops of a
  test go over radios, channels and gains, and the result is only there at
  their end; so `VerdictInv` says of every place in the loops which channels have
  a verdict already (`Judged`) and that these have exactly one, and `ResultInv`
  that the result so far is that of the rows so far. `BlockInv` says that the
  rows of a radio, for a transmitter those of each of its channels, follow each
  other in the order of the radios: the lists for the plots are cut where the
  serial, or for transmitters the channel, changes, and would otherwise mix
  radios. The loops that cut them are functions of the row (`TakenSoFar`), and
  `RxRight` and `TxRight` are what holds after each row; the step from one row to
  the next is a lemma, and a least number of rows after which it fails is led to
  a contradiction. From it follow
  `OneVerdictAlways` (`OneVerdictEach`) and `PlotsAlways` (`PlotsOwnRows`).
* `VerifyTraceProofs`, for traces of any length, chunks of any size and every
  command line. `ShapeInv` gives the arrays a row per frame of the slice.
  `AllEstimated` rests on `LoopInv`, that the rows below the chunk at hand are
  right, for the loop of the calibration, which cuts by the end of the slice, as
  for that of the estimates, which takes whole chunks and then what is left.
  `FiguresAgree` rests on `RefInv`. `OwnDataCompared` rests on `PairInv`: without
  gaps the slice is a run of consecutive frames (`SliceIsRun`), so the search
  finds `on[1] - frames[1]` for every client that begins with the others
  (`BeginFound`), the first index the demodulation takes is that one, and the
  data then repeats in step with the frames; that no two antennas share their
  data follows from quotient and remainder by the channels (`OwnData`).
  `StopsAsListed` (`StopsOnlyFor`) goes through the places where the tool can
  end, thirteen reasons in all; it needs `CauseInv`, that a reference frame which is not there was asked
  for beyond the slice and that only a calibration trace is calibrated, and the
  rules for cardinalities (`PlottedCount`).
* `IrisToolsProofs`, for any radios, laboratory and sizes. A step of `IrisLab` is a
  step of the tool that has the radios and leads to a phase of that tool
  (`Placed`, `OwnSteps`): the tools share radios and labels such as "over", so
  this comes before anything else. Then each property has its invariants, tool
  by tool.
  * `QuietAlways` (`QuietWhenOver`): `QuietInv` says which radios of a tool may have
    a mode (`ModesIn`), and that none counts triggers before the handler is there.
  * `DecodedAlways` (`DecodedWhole`): `OfdmInv` and `SiggenInv`; the rest is
    arithmetic on where slices end (`VerdictWhole`, `GeneratedWhole`).
  * `CalibratedAlways` (`Calibrated`): in `OffsetInv`, a board that is not an echo in
    80 % of the frames is measured right whichever of the most common values is
    taken (`RightIndex`), so the moves bring all to the delay of board 1. In
    `RecipInv`, the counts of takes, new and buffered, are related to each other.
  * `KeptAlways` (`KeptInPlace`) and `GoodFramesAlways` (`GoodFramesHeard`): a read
    that is not checked can return what an earlier round left; `BurstInv`,
    `ArrayInv` and, for the driver, `Settled` say that the queues are empty between
    rounds, so what is read is what this frame brought, in the order of the slots
    (`PlayedFifo`, `SymbolsAre`). The driver's invariant `DriverInv` adds that
    between calls no user waits for the beacon (`Deaf`), that within a call the
    radios have its schedule (`Planned` in `CallInv`), that the best gains so far are
    the last of those with the most triggers (`GainsInv`), and that what has been
    handed out is right (`OutInv`). A queue that holds as many symbols as the
    schedule has places holds all of them: this is a fact on cardinalities
    (`PlacesFinite`, `GoodRead`).
  * `InStepAlways` (`InStep`): nothing says at a read of the sounder which frame it
    is of; that follows only from everything read before. `SounderInv` has as its
    core, for as long as nothing was lost, a `Stream`: there are a frame `b`,
    numbers `F` and `N` and senders `X` such that the files hold `F` whole frames
    from `b + 1` on and the first `at` symbols of the next one, and the queue goes
    on exactly there for `N` frames up to the one that was played last. A frame
    on the air adds to the end of the queue (`StreamMore`), a read moves a symbol
    from its beginning to the right file (`StreamNext`). Where a frame begins in a
    file or queue is a product of its number and the symbols of a frame; these
    products are kept behind `Whole` and `Before`, of which the proofs use sums
    only (`FrameSums`). After the interrupt the queue is empty (`Finishing`) and
    the files grow behind the whole frames (`FilesKept`) by less than a frame. That
    the client sends where the base station reads is a fact about the two
    schedules (`SoundPlaces`). For the receiver's average `RecvInv` says of every
    place of the ring which frame it holds.

Only model-checked: everything under fairness (`Terminates`, the liveness of
`WorksAsQueue`, `JoinReturns`, `AskedIsQueued`, `SearchesEnd`, `EndsUnlessLate`),
because the proof system has no rules for ENABLED here. Every invariant and
every action property that a run checks is also a theorem.

## 5. Not modelled

* Signal processing, the calibration searches of the sounder
  (`BaseRadioSet-calibrate-*.cc`), data generation, and what the decoders and
  the correlators of the Python tools compute: numerics without shared state. A
  correlation is found, late or missed.
* `filter_pilots`, `frame_sanity` and `measure_snr` of the trace tools: statistics
  over the samples of a pilot. (`frame_sanity` counts a frame as good with one
  peak missing, `PYTHON/IrisUtils/hdf5_lib.py:532`, where its description asks for
  all; with no peaks modelled the project has no run for it.)
* The drivers and the vendored libraries: they appear as nondeterministic
  results (`radioRx`, `IrisRadio`), as a bag (the message queue) and as a file
  with extents.
* `deployment_tool.py`: it uses the class `hdf5_lib` as an earlier version had it.
* MATLAB scripts, numerical helpers and the web interface.
* The bring-up of client radios beyond the countdown it shares with the base
  station, and `config.cc`, which is evaluated once: its results are constants.
* Attributes and formatting of the trace file, logging, pinning of cores.

## 6. Plan

Done: the threads, queues, files and radios of the sounder (`RxPath`,
`RecorderThread`, `TraceFile`, `TxPath`, `ClientSync`, `RadioInit`, `Lifecycle`),
the gain control, the health monitor, the trace tools and the experiments, with
the proofs of section 4, which cover every safety property of the runs. Left, in
this order:

1. `Schedule`: slot maps and slot indices of `config.cc` against a reference
   definition; `RxPath`'s schedule assumption derived from it.
2. The packets of clients in the receive path (`scheduler.cc:244`) and the
   downlink they receive; the client side of `RadioInit`.
