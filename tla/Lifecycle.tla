----------------------------- MODULE Lifecycle -----------------------------
(***************************************************************************)
(* What follows when the radios are up: do_it starts the threads of the    *)
(* clients, the readers and the receive threads of the base station, lets  *)
(* the receive threads go, and takes everything down again at the end.     *)
(*                                                                         *)
(* With clients, the receive threads wait on a condition that has no       *)
(* predicate; with the software framer they then read until every radio    *)
(* has answered once.  Only they are joined: client threads and readers    *)
(* go on while do_it and the destructor of the Scheduler delete what       *)
(* they use.                                                               *)
(***************************************************************************)
EXTENDS RadioInit

CONSTANTS
  Receivers,  \* receive threads of the base station
  HwFramer,   \* bs_hw_framer: no dummy reads before the receive loop
  Clients,    \* client threads
  Readers     \* Hdf5Reader threads

ASSUME LifeAssumption == Receivers # {} /\ HwFramer \in BOOLEAN

Nobody == "nobody"

\* Where a receive thread goes from the barrier.
Released == IF HwFramer THEN "loop" ELSE "sync"

VARIABLES
  running,  \* running of the configuration
  dpc,      \* where the main thread is from do_it on
  rpc,      \* per receive thread: where it is
  kpc,      \* per client thread: where it is
  hpc,      \* per reader: where it is
  gone,     \* what has been deleted
  late,     \* history: receive threads that came to wait after the broadcast
  hurt      \* history: which kind of thread has used what after its deletion

lifeVars == <<running, dpc, rpc, kpc, hpc, gone, late, hurt>>

LifeInit ==
  /\ Init
  /\ running = TRUE
  /\ dpc  = "clients"
  /\ rpc  = [t \in Receivers |-> "none"]
  /\ kpc  = [t \in Clients |-> "none"]
  /\ hpc  = [h \in Readers |-> "none"]
  /\ gone = {} /\ late = {} /\ hurt = {}

Uses(kind, things) == hurt' = hurt \cup {<<kind, w>> : w \in things \cap gone}
-----------------------------------------------------------------------------
(* The main thread *)

MainAt(from, to) ==
  /\ dpc = from /\ dpc' = to
  /\ UNCHANGED <<late, hurt>>

StartClients ==
  /\ MainAt("clients", "readers")
  /\ kpc' = [t \in Clients |-> "loop"]
  /\ UNCHANGED <<running, rpc, hpc, gone>>

\* Each begins by reading a few frames.
StartReaders ==
  /\ MainAt("readers", "receivers")
  /\ hpc' = [h \in Readers |-> "read"]
  /\ UNCHANGED <<running, rpc, kpc, gone>>

StartReceivers ==
  /\ MainAt("receivers", "broadcast")
  /\ rpc' = [t \in Receivers |-> "begin"]
  /\ UNCHANGED <<running, kpc, hpc, gone>>

\* Mutant: wakes one thread.
Signal ==
  /\ MainAt("broadcast", "go")
  /\ LET woken == IF \E t \in Receivers : rpc[t] = "asleep"
                  THEN CHOOSE t \in Receivers : rpc[t] = "asleep" ELSE Nobody
     IN  rpc' = [t \in Receivers |-> IF t = woken THEN Released ELSE rpc[t]]
  /\ UNCHANGED <<running, kpc, hpc, gone>>

\* After a second's sleep, without the mutex.
Broadcast ==
  /\ MainAt("broadcast", "go")
  /\ rpc' = [t \in Receivers |-> IF rpc[t] = "asleep" THEN Released ELSE rpc[t]]
  /\ UNCHANGED <<running, kpc, hpc, gone>>

\* radioStart: the hardware trigger.
Go ==
  /\ MainAt("go", "dispatch")
  /\ UNCHANGED <<running, rpc, kpc, hpc, gone>>

\* A new frame is handed to a reader that waits for work.
DispatchRead(h) ==
  /\ MainAt("dispatch", "dispatch") /\ hpc[h] = "idle"
  /\ hpc' = [hpc EXCEPT ![h] = "read"]
  /\ UNCHANGED <<running, rpc, kpc, gone>>

LeaveLoop ==
  /\ ~running /\ MainAt("dispatch", "join")
  /\ UNCHANGED <<running, rpc, kpc, hpc, gone>>

\* gotExitSignal
ExitSignal ==
  /\ running /\ MainAt("dispatch", "join")
  /\ running' = FALSE
  /\ UNCHANGED <<rpc, kpc, hpc, gone>>

\* Mutant: the threads are not joined.
JoinNobody ==
  /\ MainAt("join", "radios")
  /\ UNCHANGED <<running, rpc, kpc, hpc, gone>>

\* completeRecvThreads
JoinReceivers ==
  /\ MainAt("join", "radios")
  /\ \A t \in Receivers : rpc[t] = "left"
  /\ UNCHANGED <<running, rpc, kpc, hpc, gone>>

\* The destructor of Receiver, then of Scheduler: the radios of the base
\* station, those of the clients, the receiver, the rings, the message queue.
\* The transmit rings and the readers are never deleted.
Deletion == <<"radios", "client radios", "receiver", "rings", "queue">>

Delete ==
  \E k \in DOMAIN Deletion :
    /\ MainAt(Deletion[k], IF k = Len(Deletion) THEN "over" ELSE Deletion[k + 1])
    /\ gone' = gone \cup {Deletion[k]}
    /\ UNCHANGED <<running, rpc, kpc, hpc>>

MainStep ==
  \/ StartClients \/ StartReaders \/ StartReceivers \/ Broadcast \/ Go
  \/ LeaveLoop \/ JoinReceivers \/ Delete
-----------------------------------------------------------------------------
(* The other threads, until the process is over *)

\* loopRecv: the barrier, when there are clients.
Receiving(t, from, to) ==
  /\ dpc # "over" /\ rpc[t] = from
  /\ rpc' = [rpc EXCEPT ![t] = to]
  /\ UNCHANGED <<dpc, kpc, hpc, gone>>

Wait(t) ==
  /\ Receiving(t, "begin", IF Clients = {} THEN Released ELSE "asleep")
  /\ late' = IF dpc \in {"clients", "readers", "receivers", "broadcast"} THEN late
             ELSE late \cup {t}
  /\ UNCHANGED <<running, hurt>>

WakeForNothing(t) ==
  /\ Receiving(t, "asleep", Released)
  /\ UNCHANGED <<running, late, hurt>>

\* A dummy read: until the radio answers, whatever running says.
SyncRead(t) ==
  /\ Receiving(t, "sync", "sync") \/ Receiving(t, "sync", "loop")
  /\ Uses("receiver", {"receiver", "radios"})
  /\ UNCHANGED <<running, late>>

LoopTop(t) ==
  /\ Receiving(t, "loop", IF running THEN "receive" ELSE "left")
  /\ Uses("receiver", {"receiver"})
  /\ UNCHANGED <<running, late>>

\* A radio that fails ends the run.
Receive(t) ==
  /\ \/ Receiving(t, "receive", "notify") /\ UNCHANGED running
     \/ Receiving(t, "receive", "left") /\ running' = FALSE
  /\ Uses("receiver", {"receiver", "radios", "rings"})
  /\ UNCHANGED late

NotifyMain(t) ==
  /\ Receiving(t, "notify", "loop")
  /\ Uses("receiver", {"receiver", "rings", "queue"})
  /\ UNCHANGED <<running, late>>

ReceiverStep(t) == Wait(t) \/ LoopTop(t) \/ Receive(t) \/ NotifyMain(t)

\* clientSyncTxRx
OfClient(t, from, to) ==
  /\ dpc # "over" /\ kpc[t] = from
  /\ kpc' = [kpc EXCEPT ![t] = to]
  /\ UNCHANGED <<dpc, rpc, hpc, gone, late>>

ClientTop(t) ==
  /\ OfClient(t, "loop", IF running THEN "radio" ELSE "left")
  /\ Uses("client", {"receiver"})
  /\ UNCHANGED running

ClientRadio(t) ==
  /\ \/ OfClient(t, "radio", "notify") /\ UNCHANGED running
     \/ OfClient(t, "radio", "left") /\ running' = FALSE
  /\ Uses("client", {"receiver", "client radios", "rings"})

ClientNotify(t) ==
  /\ OfClient(t, "notify", "loop")
  /\ Uses("client", {"receiver", "queue"})
  /\ UNCHANGED running

ClientStep(t) == ClientTop(t) \/ ClientRadio(t) \/ ClientNotify(t)

\* DoReading reads a frame, puts the event that it is read into the message
\* queue and waits for the next.
ReaderStep(h) ==
  /\ dpc # "over" /\ hpc[h] = "read"
  /\ hpc' = [hpc EXCEPT ![h] = "idle"]
  /\ Uses("reader", {"queue"})
  /\ UNCHANGED <<running, dpc, rpc, kpc, gone, late>>
-----------------------------------------------------------------------------
LifeStep ==
  /\ mpc = "running"
  /\ \/ MainStep \/ ExitSignal
     \/ \E h \in Readers : DispatchRead(h)
     \/ \E t \in Receivers : ReceiverStep(t) \/ WakeForNothing(t) \/ SyncRead(t)
     \/ \E t \in Clients : ClientStep(t)
     \/ \E h \in Readers : ReaderStep(h)
  /\ UNCHANGED vars

LifeNext == (Next /\ UNCHANGED lifeVars) \/ LifeStep

LifeSpec == LifeInit /\ [][LifeNext]_<<vars, lifeVars>>

\* The main thread and the receive threads are scheduled, a bulk of events is
\* finite, and a radio call returns.  No fairness on SyncRead: a radio may
\* fail every dummy read.
LifeFairSpec ==
  /\ LifeSpec
  /\ WF_<<vars, lifeVars>>(mpc = "running" /\ MainStep /\ UNCHANGED vars)
  /\ \A t \in Receivers :
       WF_<<vars, lifeVars>>(mpc = "running" /\ ReceiverStep(t) /\ UNCHANGED vars)
-----------------------------------------------------------------------------
(* Properties *)

\* Whoever comes first at the end, the signal, a radio that fails or a client,
\* no receive thread of the base station uses anything that is deleted, and a
\* reader nothing but the message queue.  The clients, which nobody joins, may
\* use all that is deleted after the base station's radios (receiver.cc:97-112,
\* 198-203, scheduler.cc:110-117, 295-297).
OnlyUnjoinedHurt ==
  hurt \subseteq {<<"reader", "queue">>}
                 \cup ({"client"} \X {Deletion[k] : k \in 2 .. Len(Deletion)})

\* A run that has ended leads to the end of the process, unless the join waits
\* for ever: for a receive thread that came to the barrier after the broadcast,
\* which nothing wakes, or for one whose radio never answers its dummy reads,
\* which do not look at running (receiver.cc:194-195, 332-338, 425-429).
EndsUnlessLate ==
  <>[](\A t \in Receivers : rpc[t] # "sync") =>
    (mpc = "running" /\ ~running ~>
       dpc = "over" \/ \E t \in late : rpc[t] = "asleep")
=============================================================================
