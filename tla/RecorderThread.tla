--------------------------- MODULE RecorderThread ---------------------------
(***************************************************************************)
(* One RecorderThread and the main thread that drives it, at the grain of  *)
(* the mutex sync_ and the condition variable condition_: Start,           *)
(* DispatchWork, Stop, Finalize on one side, DoRecording and HandleEvent   *)
(* on the other.                                                           *)
(*                                                                         *)
(* The predicate of the worker's wait takes the event out of a lock-free   *)
(* queue, so the mutex does not protect the queue.  DispatchWork locks and *)
(* unlocks it once, around nothing, between the enqueue and the            *)
(* notification; only that keeps a wake-up from being lost.                *)
(***************************************************************************)
EXTENDS Naturals, Sequences

CONSTANTS
  MaxTasks,    \* bound of the model: tasks that are dispatched
  WaitSignal   \* wait_signal_: sleep on the condition variable, do not poll

ASSUME ThreadAssumption == MaxTasks \in Nat /\ WaitSignal \in BOOLEAN

Task == 1 .. MaxTasks
Stop == 0

VARIABLES
  ppc,      \* where the main thread is
  sent,     \* tasks it has dispatched
  stops,    \* stop events it has dispatched: Stop, then Finalize's Stop
  queue,    \* event_queue_
  mutex,    \* sync_: "free", "main" or "worker"
  running,  \* running_
  cpc,      \* where the worker is; "none" before std::thread is constructed
  phase,    \* the wait the worker is at: "start" or "work"
  event,    \* the event in the worker's hand, as a sequence of at most one
  handled   \* history: the events handled

mainVars   == <<ppc, sent, stops>>
workerVars == <<cpc, phase, event, handled>>
vars       == <<mainVars, queue, mutex, running, workerVars>>

Init ==
  /\ ppc = "create" /\ sent = 0 /\ stops = 0
  /\ queue = <<>> /\ mutex = "free" /\ running = FALSE
  /\ cpc = "none" /\ phase = "start" /\ event = <<>> /\ handled = <<>>
-----------------------------------------------------------------------------
(* The main thread *)

\* Start: construct the thread and set running_ under the lock, then notify.
Create ==
  /\ ppc = "create" /\ mutex = "free"
  /\ mutex' = "main" /\ ppc' = "setrunning" /\ cpc' = "lock"
  /\ UNCHANGED <<sent, stops, queue, running, phase, event, handled>>

SetRunning ==
  /\ ppc = "setrunning"
  /\ running' = TRUE /\ mutex' = "free" /\ ppc' = "notify"
  /\ UNCHANGED <<sent, stops, queue, workerVars>>

\* DispatchWork: enqueue, lock and unlock, notify.  The queue takes the event
\* even at its limit (try_enqueue, then enqueue).
Enqueue(e) ==
  /\ queue' = Append(queue, e)
  /\ UNCHANGED <<mutex, running, workerVars>>

Dispatched(n) ==
  ppc' = IF WaitSignal THEN "publish" ELSE IF n = 2 THEN "join" ELSE "idle"

DispatchTask ==
  /\ ppc = "idle" /\ stops = 0 /\ sent < MaxTasks
  /\ Enqueue(sent + 1)
  /\ sent' = sent + 1 /\ stops' = stops
  /\ Dispatched(stops)

\* Stop of the shutdown, and the Stop that Finalize calls before it joins.
DispatchStop ==
  /\ ppc = "idle" /\ stops < 2
  /\ Enqueue(Stop)
  /\ sent' = sent /\ stops' = stops + 1
  /\ Dispatched(stops + 1)

\* Mutant: the notification without the lock before it.
PublishUnlocked ==
  /\ ppc = "publish"
  /\ ppc' = "notify"
  /\ UNCHANGED <<sent, stops, queue, mutex, running, workerVars>>

Publish ==
  /\ ppc = "publish" /\ mutex = "free"
  /\ ppc' = "notify"
  /\ UNCHANGED <<sent, stops, queue, mutex, running, workerVars>>

\* Mutant: a notification that wakes nobody.
NotifyNobody ==
  /\ ppc = "notify"
  /\ ppc' = IF stops = 2 THEN "join" ELSE "idle"
  /\ UNCHANGED <<sent, stops, queue, mutex, running, workerVars>>

\* notify_all wakes the worker if it sleeps; it must lock before it goes on.
Notify ==
  /\ ppc = "notify"
  /\ ppc' = IF stops = 2 THEN "join" ELSE "idle"
  /\ cpc' = IF cpc = "asleep" THEN "lock" ELSE cpc
  /\ UNCHANGED <<sent, stops, queue, mutex, running, phase, event, handled>>

Join ==
  /\ ppc = "join" /\ cpc = "exited"
  /\ ppc' = "joined"
  /\ UNCHANGED <<sent, stops, queue, mutex, running, workerVars>>
-----------------------------------------------------------------------------
(* The worker: DoRecording *)

WorkerAt(from, to) ==
  /\ cpc = from /\ cpc' = to
  /\ UNCHANGED <<mainVars, running, handled>>

\* try_dequeue that succeeds.
Take ==
  /\ queue # <<>>
  /\ event' = <<Head(queue)>>
  /\ queue' = Tail(queue)

\* The first try, without the lock: it may miss an event that another thread
\* has just put in.
PollHit ==
  /\ WorkerAt("poll", "handle")
  /\ Take
  /\ UNCHANGED <<mutex, phase>>

PollMiss ==
  /\ WaitSignal
  /\ WorkerAt("poll", "lock")
  /\ UNCHANGED <<queue, mutex, phase, event>>

\* condition_.wait(lock, predicate): lock, test, and on failure unlock and
\* sleep in one step of the condition variable.
Lock ==
  /\ WorkerAt("lock", "test")
  /\ mutex = "free" /\ mutex' = "worker"
  /\ UNCHANGED <<queue, phase, event>>

Started ==
  /\ phase = "start" /\ running
  /\ WorkerAt("test", "poll")
  /\ phase' = "work" /\ mutex' = "free"
  /\ UNCHANGED <<queue, event>>

WaitHit ==
  /\ phase = "work"
  /\ WorkerAt("test", "handle")
  /\ Take
  /\ mutex' = "free"
  /\ UNCHANGED phase

\* An event that its dispatcher has not published yet may be missed.
Missed == queue = <<>> \/ (Len(queue) = 1 /\ ppc = "publish")

WaitMiss ==
  /\ IF phase = "start" THEN ~running ELSE Missed
  /\ WorkerAt("test", "block")
  /\ UNCHANGED <<queue, mutex, phase, event>>

Block ==
  /\ WorkerAt("block", "asleep")
  /\ mutex' = "free"
  /\ UNCHANGED <<queue, phase, event>>

SpuriousWake ==
  /\ WorkerAt("asleep", "lock")
  /\ UNCHANGED <<queue, mutex, phase, event>>

\* Mutant: the stop event does not end the loop.
HandleGoesOn ==
  /\ cpc = "handle" /\ cpc' = "poll"
  /\ handled' = handled \o event
  /\ event' = <<>>
  /\ UNCHANGED <<mainVars, running, queue, mutex, phase>>

\* HandleEvent, and the loop's test of running_.
HandleEvent ==
  /\ cpc = "handle"
  /\ handled' = handled \o event
  /\ event' = <<>>
  /\ running' = (event # <<Stop>>)
  /\ cpc' = IF event = <<Stop>> THEN "finalize" ELSE "poll"
  /\ UNCHANGED <<mainVars, queue, mutex, phase>>

\* worker_.finalize() closes the trace file; then the thread ends.
FinalizeFile ==
  /\ WorkerAt("finalize", "exited")
  /\ UNCHANGED <<queue, mutex, phase, event>>
-----------------------------------------------------------------------------
MainThread ==
  \/ Create \/ SetRunning \/ DispatchTask \/ DispatchStop \/ Publish \/ Notify
  \/ Join

Worker ==
  \/ PollHit \/ PollMiss \/ Lock \/ Started \/ WaitHit \/ WaitMiss \/ Block
  \/ HandleEvent \/ FinalizeFile

Finished == ppc = "joined" /\ UNCHANGED vars

Next == MainThread \/ Worker \/ SpuriousWake \/ Finished

Spec == Init /\ [][Next]_vars

\* Both threads are scheduled; the main thread is free not to dispatch, but a
\* Finalize that has begun goes on.  An event in the queue is seen by one of
\* the polls at last.  A thread that waits for a mutex which is free again and
\* again gets it; only spurious wake-ups without end could prevent that.
Fairness ==
  /\ WF_vars(ppc # "idle" /\ MainThread)
  /\ WF_vars(stops = 1 /\ DispatchStop)
  /\ WF_vars(Worker)
  /\ SF_vars(PollHit)
  /\ SF_vars(Publish)

FairSpec == Spec /\ Fairness
-----------------------------------------------------------------------------
(* Properties *)

\* Type correctness of RecorderThread's members and of the two threads.
TypeOK ==
  /\ ppc \in {"create", "setrunning", "idle", "publish", "notify", "join",
              "joined"}
  /\ sent \in 0 .. MaxTasks
  /\ stops \in 0 .. 2
  /\ queue \in Seq(Task \cup {Stop})
  /\ mutex \in {"free", "main", "worker"}
  /\ running \in BOOLEAN
  /\ cpc \in {"none", "lock", "test", "block", "asleep", "poll", "handle",
              "finalize", "exited"}
  /\ phase \in {"start", "work"}
  /\ event \in {<<>>} \cup {<<e>> : e \in Task \cup {Stop}}
  /\ handled \in Seq(Task \cup {Stop})

\* No wake-up is lost: a worker that sleeps, or is about to, while its queue
\* holds an event will still be notified, because the dispatcher of that
\* event has not yet notified (recorder_thread.cc:77-82, 115-124; the
\* wait_signal_ comment in recorder_thread.h).
NoLostWakeup ==
  /\ cpc = "asleep" /\ phase = "work" /\ queue # <<>> => ppc \in {"publish", "notify"}
  /\ cpc = "block" /\ phase = "work" /\ queue # <<>> => ppc = "publish"
  /\ cpc = "asleep" /\ phase = "start" /\ running => ppc = "notify"

\* What was given: handled, in hand, waiting.
Given == handled \o event \o queue

\* The thread is a work queue: it implements WorkQueue, with its liveness.
Promise == INSTANCE WorkQueue WITH given <- Given, closed <- cpc \in {"finalize", "exited"}
WorksAsQueue == Promise!FairSpec

\* The shutdown of the thread ends: after the first stop event Finalize's join
\* returns (recorder_thread.cc:48-61).
JoinReturns == stops > 0 ~> ppc = "joined"
=============================================================================
