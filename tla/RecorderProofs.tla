--------------------------- MODULE RecorderProofs ---------------------------
(***************************************************************************)
(* Proofs about a recorder.  Its thread, for any number of tasks, sleeping *)
(* or polling: no wake-up is lost, and the thread implements WorkQueue     *)
(* (the safety part; TLC checks its liveness).  Its trace file, for any    *)
(* increment, growth step, limit and number of datasets.                   *)
(***************************************************************************)
EXTENDS RecorderThread, TraceFile, TLAPS
-----------------------------------------------------------------------------
(* RecorderThread *)

Event == Task \cup {Stop}

\* Who holds the mutex, when there is an event in the worker's hand, and when
\* the worker waits for what.
Control ==
  /\ mutex = "worker" <=> cpc \in {"test", "block"}
  /\ mutex = "main" <=> ppc = "setrunning"
  /\ cpc = "none" <=> ppc = "create"
  /\ cpc = "none" => phase = "start"
  /\ ppc = "publish" => WaitSignal
  /\ event # <<>> <=> cpc = "handle"
  /\ phase = "start" => cpc \in {"none", "lock", "test", "block", "asleep"}
  /\ phase = "start" /\ cpc = "block" => ~running
  /\ phase # "start" /\ cpc \in {"lock", "test", "block", "asleep"} => WaitSignal

IInv == TypeOK /\ Control /\ NoLostWakeup

LEMMA InitInv == Init => IInv
<1> SUFFICES ASSUME Init PROVE IInv
  OBVIOUS
<1>1. TypeOK
  <2>1. sent \in 0 .. MaxTasks /\ stops \in 0 .. 2
    BY ThreadAssumption DEF Init
  <2>2. queue \in Seq(Task \cup {Stop}) /\ handled \in Seq(Task \cup {Stop})
    BY DEF Init
  <2>3. QED
    BY <2>1, <2>2, Zenon DEF Init, TypeOK
<1>2. Control /\ NoLostWakeup
  BY DEF Init, Control, NoLostWakeup
<1>3. QED
  BY <1>1, <1>2 DEF IInv

\* The head and the rest of a queue that is not empty.
LEMMA TakeTypes ==
  ASSUME queue \in Seq(Event), Take
  PROVE  /\ queue' \in Seq(Event)
         /\ event' \in {<<e>> : e \in Event}
         /\ event' # <<>>
<1>1. Head(queue) \in Event /\ Tail(queue) \in Seq(Event)
  BY DEF Take
<1>2. QED
  BY <1>1 DEF Take

LEMMA MainStep == IInv /\ MainThread => IInv'
<1> SUFFICES ASSUME IInv, MainThread PROVE IInv'
  OBVIOUS
<1>1. CASE Create
  BY <1>1 DEF IInv, TypeOK, Control, NoLostWakeup, Create
<1>2. CASE SetRunning
  BY <1>2 DEF IInv, TypeOK, Control, NoLostWakeup, SetRunning, workerVars
<1>3. CASE DispatchTask
  <2>1. sent + 1 \in Task /\ sent' \in 0 .. MaxTasks
    BY <1>3, ThreadAssumption DEF IInv, TypeOK, DispatchTask, Task
  <2>2. queue' \in Seq(Event) /\ queue' # <<>>
    BY <1>3, <2>1 DEF IInv, TypeOK, DispatchTask, Enqueue, Event
  <2>3. ppc' \in {"publish", "idle", "join"} /\ (ppc' = "publish" <=> WaitSignal)
    BY <1>3 DEF DispatchTask, Dispatched
  <2>4. /\ UNCHANGED <<mutex, running, cpc, phase, event, handled>> /\ ppc = "idle"
        /\ sent' \in 0 .. MaxTasks /\ stops' \in 0 .. 2
    BY <1>3, <2>1 DEF DispatchTask, Enqueue, workerVars, IInv, TypeOK
  <2>5. TypeOK'
    BY <2>2, <2>3, <2>4, Zenon DEF IInv, TypeOK, Event
  <2>6. Control'
    BY <2>3, <2>4 DEF IInv, Control
  <2>7. NoLostWakeup'
    BY <2>3, <2>4 DEF IInv, Control, NoLostWakeup
  <2>8. QED
    BY <2>5, <2>6, <2>7 DEF IInv
<1>4. CASE DispatchStop
  <2>1. stops' \in 0 .. 2
    BY <1>4 DEF IInv, TypeOK, DispatchStop
  <2>2. queue' \in Seq(Event) /\ queue' # <<>>
    BY <1>4 DEF IInv, TypeOK, DispatchStop, Enqueue, Event
  <2>3. ppc' \in {"publish", "idle", "join"} /\ (ppc' = "publish" <=> WaitSignal)
    BY <1>4 DEF DispatchStop, Dispatched
  <2>4. /\ UNCHANGED <<mutex, running, cpc, phase, event, handled>> /\ ppc = "idle"
        /\ sent' \in 0 .. MaxTasks /\ stops' \in 0 .. 2
    BY <1>4, <2>1 DEF DispatchStop, Enqueue, workerVars, IInv, TypeOK
  <2>5. TypeOK'
    BY <2>2, <2>3, <2>4, Zenon DEF IInv, TypeOK, Event
  <2>6. Control'
    BY <2>3, <2>4 DEF IInv, Control
  <2>7. NoLostWakeup'
    BY <2>3, <2>4 DEF IInv, Control, NoLostWakeup
  <2>8. QED
    BY <2>5, <2>6, <2>7 DEF IInv
<1>5. CASE Publish
  BY <1>5 DEF IInv, TypeOK, Control, NoLostWakeup, Publish, workerVars
<1>6. CASE Notify
  BY <1>6 DEF IInv, TypeOK, Control, NoLostWakeup, Notify
<1>7. CASE Join
  BY <1>7 DEF IInv, TypeOK, Control, NoLostWakeup, Join, workerVars
<1>8. QED
  BY <1>1, <1>2, <1>3, <1>4, <1>5, <1>6, <1>7 DEF MainThread

LEMMA WorkerStep == IInv /\ (Worker \/ SpuriousWake) => IInv'
<1> SUFFICES ASSUME IInv, Worker \/ SpuriousWake PROVE IInv'
  OBVIOUS
<1>1. CASE PollHit \/ WaitHit
  <2>1. Take
    BY <1>1 DEF PollHit, WaitHit
  <2>2. queue' \in Seq(Event) /\ event' \in {<<e>> : e \in Event} /\ event' # <<>>
    BY <2>1, TakeTypes DEF IInv, TypeOK, Event
  <2>3. QED
    BY <1>1, <2>2 DEF IInv, TypeOK, Control, NoLostWakeup, PollHit, WaitHit, WorkerAt,
       mainVars, Event
<1>2. CASE PollMiss
  BY <1>2 DEF IInv, TypeOK, Control, NoLostWakeup, PollMiss, WorkerAt, mainVars
<1>3. CASE Lock
  BY <1>3 DEF IInv, TypeOK, Control, NoLostWakeup, Lock, WorkerAt, mainVars
<1>4. CASE Started
  BY <1>4 DEF IInv, TypeOK, Control, NoLostWakeup, Started, WorkerAt, mainVars
<1>5. CASE WaitMiss
  BY <1>5 DEF IInv, TypeOK, Control, NoLostWakeup, WaitMiss, Missed, WorkerAt, mainVars
<1>6. CASE Block
  BY <1>6 DEF IInv, TypeOK, Control, NoLostWakeup, Block, WorkerAt, mainVars
<1>7. CASE SpuriousWake
  BY <1>7 DEF IInv, TypeOK, Control, NoLostWakeup, SpuriousWake, WorkerAt, mainVars
<1>8. CASE HandleEvent
  <2>1. event \in Seq(Event)
    <3>1. \A e \in Event : <<e>> \in Seq(Event)
      OBVIOUS
    <3>2. <<>> \in Seq(Event)
      OBVIOUS
    <3>3. event = <<>> \/ \E e \in Event : event = <<e>>
      BY Zenon DEF IInv, TypeOK, Event
    <3>4. QED
      BY <3>1, <3>2, <3>3
  <2>2. handled' \in Seq(Event)
    BY <1>8, <2>1 DEF IInv, TypeOK, HandleEvent, Event
  <2>3. QED
    BY <1>8, <2>2 DEF IInv, TypeOK, Control, NoLostWakeup, HandleEvent, mainVars, Event
<1>9. CASE FinalizeFile
  BY <1>9 DEF IInv, TypeOK, Control, NoLostWakeup, FinalizeFile, WorkerAt, mainVars
<1>10. QED
  BY <1>1, <1>2, <1>3, <1>4, <1>5, <1>6, <1>7, <1>8, <1>9 DEF Worker

\* The inductive invariant.
THEOREM Inductive == Spec => []IInv
<1>1. IInv /\ [Next]_vars => IInv'
  <2> SUFFICES ASSUME IInv, [Next]_vars PROVE IInv'
    OBVIOUS
  <2>1. CASE UNCHANGED vars
    BY <2>1 DEF IInv, TypeOK, Control, NoLostWakeup, vars, mainVars, workerVars
  <2>2. QED
    BY <2>1, MainStep, WorkerStep DEF Next, Finished
<1>2. QED
  BY <1>1, InitInv, PTL DEF Spec

\* No wake-up is lost (recorder_thread.cc:77-82, 115-124).
THEOREM WakeupsArrive == Spec => []NoLostWakeup
<1>1. IInv => NoLostWakeup
  BY DEF IInv
<1>2. QED
  BY <1>1, Inductive, PTL
-----------------------------------------------------------------------------
(* The thread implements the work queue *)

\* Moving the head of a queue behind another queue leaves their concatenation.
LEMMA Concatenate ==
  ASSUME NEW a \in Seq(Event), NEW q \in Seq(Event)
  PROVE  /\ q # <<>> => a \o <<Head(q)>> \o Tail(q) = a \o q
         /\ a \o <<>> = a
         /\ \A e \in Event : a \o Append(q, e) = Append(a \o q, e)
<1>1. q # <<>> => a \o <<Head(q)>> \o Tail(q) = a \o q
  <2>1. SUFFICES ASSUME q # <<>> PROVE a \o <<Head(q)>> \o Tail(q) = a \o q
    OBVIOUS
  <2>2. /\ Head(q) = q[1] /\ Len(Tail(q)) = Len(q) - 1 /\ Len(q) \in Nat \ {0}
        /\ \A i \in 1 .. Len(q) - 1 : Tail(q)[i] = q[i + 1]
        /\ Head(q) \in Event /\ Tail(q) \in Seq(Event)
    BY <2>1
  <2> DEFINE b == a \o <<Head(q)>>
  <2>3. /\ b \in Seq(Event) /\ Len(b) = Len(a) + 1
        /\ \A i \in 1 .. Len(a) : b[i] = a[i]
        /\ b[Len(a) + 1] = q[1]
    BY <2>2
  <2> HIDE DEF b
  <2>4. Len(b \o Tail(q)) = Len(a \o q)
    BY <2>2, <2>3
  <2>5. \A i \in 1 .. Len(a \o q) : (b \o Tail(q))[i] = (a \o q)[i]
    BY <2>2, <2>3
  <2>6. b \o Tail(q) = a \o q
    BY <2>2, <2>3, <2>4, <2>5
  <2>7. QED
    BY <2>6 DEF b
<1>2. a \o <<>> = a
  OBVIOUS
<1>3. \A e \in Event : a \o Append(q, e) = Append(a \o q, e)
  <2>1. SUFFICES ASSUME NEW e \in Event PROVE a \o Append(q, e) = Append(a \o q, e)
    OBVIOUS
  <2>2. Len(a \o Append(q, e)) = Len(Append(a \o q, e))
    OBVIOUS
  <2>3. \A i \in 1 .. Len(a) + Len(q) + 1 : (a \o Append(q, e))[i] = Append(a \o q, e)[i]
    OBVIOUS
  <2>4. QED
    BY <2>2, <2>3
<1>4. QED
  BY <1>1, <1>2, <1>3

\* Every step of the two threads is a Dispatch, a Handle or a stutter of the
\* work queue.
LEMMA Simulates == IInv /\ [Next]_vars => [Promise!Next]_(Promise!vars)
<1> SUFFICES ASSUME IInv, [Next]_vars PROVE [Promise!Next]_(Promise!vars)
  OBVIOUS
<1> DEFINE Closed == cpc \in {"finalize", "exited"}
           Same == Given' = Given /\ handled' = handled /\ Closed' = Closed
<1>1. handled \in Seq(Event) /\ queue \in Seq(Event)
  BY DEF IInv, TypeOK, Event
<1>2. event = <<>> \/ \E e \in Event : event = <<e>>
  BY Zenon DEF IInv, TypeOK, Event
<1>3. Same => UNCHANGED Promise!vars
  BY Zenon DEF Promise!vars
<1>4. ASSUME NEW e \in Event, Enqueue(e) PROVE Promise!Dispatch
  <2>1. handled \o event \in Seq(Event)
    <3>1. CASE event = <<>>
      BY <1>1, <3>1
    <3>2. ASSUME NEW f \in Event, event = <<f>> PROVE handled \o event \in Seq(Event)
      BY <1>1, <3>2
    <3>3. QED
      BY <1>2, <3>1, <3>2
  <2>2. Given' = Append(Given, e)
    BY <1>1, <1>4, <2>1, Concatenate DEF Given, Enqueue, workerVars
  <2>3. handled' = handled /\ Closed' = Closed
    BY <1>4 DEF Enqueue, workerVars
  <2>4. QED
    BY <2>2, <2>3, Zenon DEF Promise!Dispatch, Event
<1>5. CASE DispatchTask \/ DispatchStop
  <2>1. \E e \in Event : Enqueue(e)
    <3>1. CASE DispatchTask
      <4>1. sent + 1 \in Event /\ Enqueue(sent + 1)
        BY <3>1, ThreadAssumption DEF DispatchTask, Event, Task, IInv, TypeOK
      <4>2. QED
        BY <4>1
    <3>2. CASE DispatchStop
      BY <3>2 DEF DispatchStop, Event
    <3>3. QED
      BY <1>5, <3>1, <3>2
  <2>2. QED
    BY <1>4, <2>1 DEF Promise!Next
<1>6. CASE PollHit \/ WaitHit
  <2>1. event = <<>> /\ queue # <<>> /\ event' = <<Head(queue)>> /\ queue' = Tail(queue)
        /\ handled' = handled /\ Closed' = Closed
    BY <1>6 DEF PollHit, WaitHit, WorkerAt, Take, IInv, Control
  <2>2. Given' = Given
    BY <1>1, <2>1, Concatenate DEF Given
  <2>3. QED
    BY <1>3, <2>1, <2>2
<1>7. CASE HandleEvent
  <2>1. PICK e \in Event : event = <<e>>
    BY <1>2, <1>7 DEF HandleEvent, IInv, Control
  <2>2. /\ handled' = handled \o <<e>> /\ event' = <<>> /\ queue' = queue
        /\ cpc = "handle" /\ cpc' = IF <<e>> = <<Stop>> THEN "finalize" ELSE "poll"
    BY <1>7, <2>1 DEF HandleEvent
  <2>3. handled \o <<e>> \in Seq(Event)
    BY <1>1
  <2>4. Given' = Given
    BY <2>1, <2>2, <2>3, Concatenate DEF Given
  <2>5. /\ Len(handled) < Len(Given) /\ Given[Len(handled) + 1] = e
        /\ handled \o <<e>> = Append(handled, e)
    BY <1>1, <2>1 DEF Given
  <2>6. ~Closed /\ (Closed' <=> e = Stop)
    BY <2>2
  <2>7. Closed' = (Given[Len(handled) + 1] = Stop)
    BY <2>5, <2>6
  <2>8. Promise!Handle
    BY <2>2, <2>4, <2>5, <2>6, <2>7, Zenon DEF Promise!Handle
  <2>9. QED
    BY <2>8 DEF Promise!Next
<1>8. CASE \/ Create \/ SetRunning \/ Publish \/ Notify \/ Join \/ PollMiss \/ Lock
           \/ Started \/ WaitMiss \/ Block \/ SpuriousWake \/ FinalizeFile
           \/ UNCHANGED vars
  <2>1. UNCHANGED <<handled, event, queue>> /\ Closed' = Closed
    BY <1>8 DEF Create, SetRunning, Publish, Notify, Join, PollMiss, Lock, Started,
       WaitMiss, Block, SpuriousWake, FinalizeFile, WorkerAt, workerVars, vars, IInv,
       Control
  <2>2. QED
    BY <1>3, <2>1 DEF Given
<1>9. QED
  BY <1>5, <1>6, <1>7, <1>8 DEF Next, MainThread, Worker, Finished

\* RecorderThread implements WorkQueue: every task is handled once, in the
\* order it was dispatched, and nothing after the first stop event.
THEOREM Implements == Spec => Promise!Spec
<1>1. Init => Promise!Init
  <2>1. SUFFICES ASSUME Init PROVE Promise!Init
    OBVIOUS
  <2>2. Given = <<>> /\ handled = <<>> /\ ~(cpc \in {"finalize", "exited"})
    BY <2>1 DEF Init, Given
  <2>3. QED
    BY <2>2 DEF Promise!Init
<1>2. QED
  BY <1>1, Simulates, Inductive, PTL DEF Spec, Promise!Spec
-----------------------------------------------------------------------------
(* TraceFile *)

\* The extents cover what was written, whatever is cut: the newest frame is
\* inside its dataset and inside the limit, a dataset that ever grew is inside
\* the limit, and the handles are lost to packets beyond the limit only.
ExtentInv ==
  /\ \A d \in Datasets :
       /\ newest[d] < dims[d]
       /\ \A f \in written[d] : f <= newest[d]
       /\ limit # 0 => newest[d] <= limit
       /\ limit # 0 => dims[d] = Inc \/ dims[d] <= limit + 1
  /\ target >= Inc
  /\ limit = 0 \/ ~beyond => open = file /\ fault # "null"

FileIInv == FileTypeOK /\ ExtentInv /\ Trimmed /\ WritesFit

\* One extension keeps every frame of the limit that was inside, reaches one
\* step further, and cuts at the limit when it extends at all.
LEMMA ExtendedBounds ==
  ASSUME NEW extent \in Nat, NEW size \in Nat, limit \in Nat
  PROVE  /\ Extended(extent, size) \in Nat
         /\ \A f \in Int : f < extent /\ (limit # 0 => f <= limit) => f < Extended(extent, size)
         /\ \A f \in Int : f < extent + Step /\ f <= size /\ (limit # 0 => f <= limit)
              => f < Extended(extent, size)
         /\ limit # 0 /\ (extent <= size \/ extent <= limit + 1)
              => Extended(extent, size) <= limit + 1
         /\ Extended(extent, size) = extent \/ (limit # 0 => Extended(extent, size) <= limit + 1)
BY FileAssumption DEF Extended, Smaller

LEMMA LimitIsNat == FileIInv => limit \in Nat
BY FileAssumption DEF FileIInv, FileTypeOK

\* Closing the datasets keeps the extents sound and trims them.
LEMMA CloseBounds ==
  ASSUME FileIInv
  PROVE  /\ CloseAll \in [Datasets -> Nat]
         /\ \A d \in Datasets :
              /\ newest[d] < CloseAll[d]
              /\ limit # 0 => CloseAll[d] <= limit + 1
<1> SUFFICES ASSUME NEW d \in Datasets
             PROVE  /\ CloseAll[d] \in Nat /\ newest[d] < CloseAll[d]
                    /\ limit # 0 => CloseAll[d] <= limit + 1
  BY DEF CloseAll
<1>1. /\ dims[d] \in Nat /\ target \in Nat /\ newest[d] \in Int /\ newest[d] < dims[d]
      /\ limit # 0 => newest[d] <= limit
      /\ limit # 0 => dims[d] = Inc \/ dims[d] <= limit + 1
      /\ Inc <= target
  BY FileAssumption, LimitIsNat DEF FileIInv, FileTypeOK, ExtentInv, Frames
<1>2. CloseAll[d] = Extended(dims[d], target)
  BY DEF CloseAll
<1>3. CloseAll[d] \in Nat /\ newest[d] < CloseAll[d]
  BY <1>1, <1>2, ExtendedBounds, LimitIsNat
<1>4. limit # 0 => CloseAll[d] <= limit + 1
  BY <1>1, <1>2, ExtendedBounds, LimitIsNat
<1>5. QED
  BY <1>3, <1>4

LEMMA FileInitInv == FileInit => FileIInv
BY FileAssumption, LimitIsNat DEF FileInit, FileIInv, FileTypeOK, ExtentInv, Trimmed, WritesFit, Frames

\* Closing the datasets, with or without the file.
LEMMA CloseStep ==
  ASSUME FileIInv, Resize(CloseAll), UNCHANGED <<target, newest, fault>>,
         open' = FALSE, file' \in BOOLEAN,
         limit = 0 \/ ~beyond => file' = FALSE, UNCHANGED config
  PROVE  FileIInv' /\ \A d \in Datasets : written'[d] = written[d]
<1>1. /\ dims' = CloseAll
      /\ written' = [d \in Datasets |-> Within(written[d], CloseAll[d])]
  BY DEF Resize
<1>2. \A d \in Datasets : written'[d] = written[d]
  <2>1. SUFFICES ASSUME NEW d \in Datasets, NEW f \in written[d] PROVE f < CloseAll[d]
    BY <1>1 DEF Within
  <2>2. f \in Int /\ newest[d] \in Int /\ f <= newest[d]
    BY DEF FileIInv, FileTypeOK, ExtentInv, Frames
  <2>3. QED
    BY <2>2, CloseBounds
<1>3. FileTypeOK'
  BY <1>1, CloseBounds, LimitIsNat DEF FileIInv, FileTypeOK, Within, config
<1>4. ExtentInv'
  BY <1>1, <1>2, CloseBounds, LimitIsNat DEF FileIInv, ExtentInv, config
<1>5. Trimmed' /\ WritesFit'
  BY <1>1, CloseBounds, LimitIsNat DEF FileIInv, Trimmed, WritesFit, config
<1>6. QED
  BY <1>2, <1>3, <1>4, <1>5 DEF FileIInv

LEMMA NullStep ==
  ASSUME FileIInv, NullHandle, limit # 0 /\ beyond, UNCHANGED config
  PROVE  FileIInv' /\ written' = written
BY DEF NullHandle, FileIInv, FileTypeOK, ExtentInv, Trimmed, WritesFit, config

\* A packet within the limit: the extent it finds, after a close or not,
\* grows enough to hold it if the gap is no longer than a step.
LEMMA WithinStep ==
  ASSUME FileIInv, NEW f \in Frames, NEW d \in Datasets, fault = "none", file,
         f <= newest[d] + MaxGap, RecordWithin(d, f), UNCHANGED config
  PROVE  FileIInv' /\ \A c \in Datasets : written[c] \subseteq written'[c]
<1>1. f \in Nat /\ (limit # 0 => f <= limit)
  BY FileAssumption, LimitIsNat DEF RecordWithin, Frames
<1>2. CASE ~open
  BY <1>2, NullStep DEF RecordWithin, FileIInv, ExtentInv
<1>3. CASE open
  <2> DEFINE e == IF f >= target THEN CloseAll ELSE dims
             g == [e EXCEPT ![d] = Extended(@, f)]
  <2>1. /\ Write(d, f, g)
        /\ target' = IF f >= target THEN target + Inc ELSE target
        /\ UNCHANGED <<open, file>>
    BY <1>3 DEF RecordWithin
  <2>2. /\ e \in [Datasets -> Nat]
        /\ \A c \in Datasets :
             /\ newest[c] < e[c]
             /\ limit # 0 => e[c] = Inc \/ e[c] <= limit + 1
    BY CloseBounds, LimitIsNat DEF FileIInv, FileTypeOK, ExtentInv
  <2> HIDE DEF e
  <2>3. \A c \in Datasets : newest[c] \in Int /\ (limit # 0 => newest[c] <= limit)
    BY DEF FileIInv, FileTypeOK, ExtentInv, Frames
  <2>4. /\ g \in [Datasets -> Nat] /\ g[d] = Extended(e[d], f)
        /\ \A c \in Datasets : c # d => g[c] = e[c]
    BY <1>1, <2>2, ExtendedBounds, LimitIsNat
  <2>5. \A c \in Datasets :
          /\ newest[c] < g[c]
          /\ limit # 0 => g[c] = Inc \/ g[c] <= limit + 1
    <3>1. newest[d] < g[d]
      BY <1>1, <2>2, <2>3, <2>4, ExtendedBounds, LimitIsNat
    <3>2. limit # 0 => g[d] = Inc \/ g[d] <= limit + 1
      BY <1>1, <2>2, <2>4, ExtendedBounds, LimitIsNat
    <3>3. QED
      BY <2>2, <2>4, <3>1, <3>2
  <2>6. MaxGap <= Step => f < g[d]
    <3>1. MaxGap <= Step => f < e[d] + Step
      BY <1>1, <2>2, <2>3, FileAssumption, LimitIsNat
    <3>2. QED
      BY <1>1, <2>2, <2>4, <3>1, ExtendedBounds, LimitIsNat
  <2> HIDE DEF g
  <2>7. \A c \in Datasets : Within(written[c], g[c]) = written[c]
    <3>1. SUFFICES ASSUME NEW c \in Datasets, NEW h \in written[c] PROVE h < g[c]
      BY DEF Within
    <3>2. h \in Int /\ h <= newest[c] /\ newest[c] \in Int /\ g[c] \in Int
      BY <2>4 DEF FileIInv, FileTypeOK, ExtentInv, Frames
    <3>3. QED
      BY <2>5, <3>2
  <2>8. target' \in Nat /\ target' >= Inc
    BY <2>1, FileAssumption, LimitIsNat DEF FileIInv, FileTypeOK, ExtentInv
  <2>9. dims' = g
    BY <2>1 DEF Write
  <2>10. CASE f < g[d]
    <3>1. /\ written' = [c \in Datasets |-> written[c] \cup (IF c = d THEN {f} ELSE {})]
          /\ newest' = [newest EXCEPT ![d] = IF f > @ THEN f ELSE @]
          /\ fault' = fault
      BY <2>1, <2>7, <2>10 DEF Write
    <3>2. FileTypeOK'
      BY <2>1, <2>4, <2>8, <2>9, <3>1 DEF FileIInv, FileTypeOK, config
    <3>3. \A c \in Datasets :
            /\ newest'[c] < g[c] /\ newest'[c] \in Int
            /\ newest[c] <= newest'[c] /\ (c = d => f <= newest'[c])
            /\ limit # 0 => newest'[c] <= limit
      BY <1>1, <2>3, <2>4, <2>5, <2>10, <3>1 DEF FileIInv, FileTypeOK
    <3>4. \A c \in Datasets : \A h \in written'[c] : h <= newest'[c]
      <4>1. SUFFICES ASSUME NEW c \in Datasets, NEW h \in written'[c] PROVE h <= newest'[c]
        OBVIOUS
      <4>2. (h \in written[c] /\ h <= newest[c] /\ h \in Int) \/ (c = d /\ h = f)
        BY <3>1, <4>1 DEF FileIInv, FileTypeOK, ExtentInv, Frames
      <4>3. QED
        BY <2>3, <3>3, <4>2
    <3>5. ExtentInv'
      BY <2>1, <2>5, <2>8, <2>9, <3>1, <3>3, <3>4 DEF FileIInv, ExtentInv, config
    <3>6. Trimmed' /\ WritesFit'
      BY <1>3, <2>1, <3>1 DEF Trimmed, WritesFit, FileIInv, config
    <3>7. QED
      BY <3>1, <3>2, <3>5, <3>6 DEF FileIInv
  <2>11. CASE ~(f < g[d])
    <3>1. written' = [c \in Datasets |-> written[c]] /\ newest' = newest /\ fault' = "extent"
      BY <2>1, <2>7, <2>11 DEF Write
    <3>2. FileTypeOK'
      BY <2>1, <2>4, <2>8, <2>9, <3>1 DEF FileIInv, FileTypeOK, config
    <3>3. ExtentInv'
      BY <2>1, <2>5, <2>8, <2>9, <3>1 DEF FileIInv, ExtentInv, config
    <3>4. Trimmed' /\ WritesFit'
      BY <1>3, <2>1, <2>6, <2>11 DEF Trimmed, WritesFit, config
    <3>5. QED
      BY <3>1, <3>2, <3>3, <3>4 DEF FileIInv
  <2>12. QED
    BY <2>10, <2>11
<1>4. QED
  BY <1>2, <1>3

LEMMA FileStep ==
  FileIInv /\ [FileNext]_fileVars => FileIInv' /\ \A d \in Datasets : written[d] \subseteq written'[d]
<1> SUFFICES ASSUME FileIInv, [FileNext]_fileVars
             PROVE  FileIInv' /\ \A d \in Datasets : written[d] \subseteq written'[d]
  OBVIOUS
<1>1. CASE UNCHANGED fileVars
  BY <1>1 DEF FileIInv, FileTypeOK, ExtentInv, Trimmed, WritesFit, fileVars, config
<1>2. CASE fault = "none" /\ Record /\ UNCHANGED config
  <2>1. PICK f \in Frames :
          /\ file /\ (limit # 0 /\ ~beyond => f <= limit)
          /\ \/ RecordBeyond(f)
             \/ \E d \in Datasets : f <= newest[d] + MaxGap /\ RecordWithin(d, f)
    BY <1>2 DEF Record
  <2>2. CASE RecordBeyond(f)
    <3>1. limit # 0 /\ beyond
      BY <2>1, <2>2, FileAssumption, LimitIsNat DEF RecordBeyond, Frames
    <3>2. CASE open
      BY <1>2, <2>2, <3>1, <3>2, CloseStep DEF RecordBeyond, FileIInv, FileTypeOK
    <3>3. CASE ~open
      BY <1>2, <2>2, <3>1, <3>3, NullStep DEF RecordBeyond
    <3>4. QED
      BY <3>2, <3>3
  <2>3. QED
    BY <1>2, <2>1, <2>2, WithinStep
<1>3. CASE fault = "none" /\ Finalize /\ UNCHANGED config
  <2>1. CASE open
    BY <1>3, <2>1, CloseStep DEF Finalize
  <2>2. CASE ~open
    BY <1>3, <2>2, NullStep, FileAssumption, LimitIsNat DEF Finalize, FileIInv, ExtentInv
  <2>3. QED
    BY <2>1, <2>2
<1>4. QED
  BY <1>1, <1>2, <1>3 DEF FileNext, FileFinished

\* The inductive invariant.
THEOREM FileInductive == FileSpec => []FileIInv
BY FileInitInv, FileStep, PTL DEF FileSpec

\* No write misses its dataset as long as no dataset goes without a packet for
\* more than kDsExtendStep frames (hdf5_lib.cc:160-178).
THEOREM EveryWriteFits == FileSpec => []WritesFit
<1>1. FileIInv => WritesFit
  BY DEF FileIInv
<1>2. QED
  BY <1>1, FileInductive, PTL

\* With a limit, a closed file is no longer than the run (hdf5_lib.cc:143).
THEOREM ClosedIsTrimmed == FileSpec => []Trimmed
<1>1. FileIInv => Trimmed
  BY DEF FileIInv
<1>2. QED
  BY <1>1, FileInductive, PTL

\* Nothing recorded is cut off by a later extension, and what is closed is no
\* longer than the run (hdf5_lib.cc:163-169).
THEOREM RunIsKept == FileSpec => FileIsTheRun
<1> DEFINE Kept == \A d \in Datasets : written[d] \subseteq written'[d]
<1>1. FileIInv /\ [FileNext]_fileVars => [Kept]_fileVars
  BY FileStep
<1>2. FileIInv' => Trimmed'
  BY DEF FileIInv
<1>3. FileIInv' /\ [Kept]_fileVars => [Trimmed' /\ Kept]_fileVars
  BY <1>2
<1>4. QED
  BY <1>1, <1>3, FileInductive, PTL DEF FileSpec, FileIsTheRun

\* Without packets beyond the limit the datasets are open whenever they are
\* closed (the assertion at hdf5_lib.cc:140).
THEOREM OpenUnlessBeyond == FileSpec => []OpenWithinLimit
<1>1. FileIInv => OpenWithinLimit
  BY DEF FileIInv, ExtentInv, OpenWithinLimit
<1>2. QED
  BY <1>1, FileInductive, PTL

\* The two faults of the recorder have the causes FaultsExplained names.
THEOREM FaultsAreExplained == FileSpec => []FaultsExplained
<1>1. WritesFit /\ OpenWithinLimit => FaultsExplained
  BY DEF FaultsExplained
<1>2. QED
  BY <1>1, EveryWriteFits, OpenUnlessBeyond, PTL
=============================================================================
