----------------------------- MODULE MimoDriver -----------------------------
(***************************************************************************)
(* MIMODriver of mimo_driver.py, with Iris_py of iris_py.py below it: what *)
(* a MATLAB script (or main) calls to run uplink, downlink, sounding and   *)
(* reference-node frames over a lab of base-station radios, user radios    *)
(* and reference radios.  A try is one step: trigger, receive, verify.     *)
(***************************************************************************)
EXTENDS IrisRadio

CONSTANTS
  MaxTry,    \* max_try
  Frames,    \* num_frames of a call
  MaxCalls,  \* bound: calls of one session
  Gains      \* txgainvec and rxgainvec, the values in order

Driver == tool.name = "mimo"

BS  == 1 .. tool.bs
UE  == tool.bs + 1 .. tool.bs + tool.ue
Ref == tool.bs + tool.ue + 1 .. tool.bs + tool.ue + tool.ref

n_users == tool.ue * tool.ueChan

\* Iris_py.__init__ and close.
Opened(d)    == [Stopped(d) EXCEPT !.active = FALSE]
IrisClose(d) == Stopped(Closed(d))

\* The radios are opened one by one; a list of gains that is too short ends it.
MimoInit ==
  /\ Driver /\ phase = "start"
  /\ phase' = IF tool.gains \in 1 .. tool.ue - 1 THEN "stopped" ELSE "ready"
  /\ dev' = [r \in Radios |-> IF r \in BS \cup UE \cup Ref THEN Opened(dev[r]) ELSE dev[r]]
  /\ job' = [call |-> "none", calls |-> 0]
  /\ UNCHANGED <<tool, round, out>>
-----------------------------------------------------------------------------
(* Schedules *)

Times(n, s) == [k \in 1 .. n * Len(s) |-> s[1 + ((k - 1) % Len(s))]]
First(r)    == IF r = 1 THEN <<"B", "G">> ELSE <<"G", "G">>

UplinkBs(r) == First(r) \o Times(n_users + (IF n_users > 1 THEN 1 ELSE 0), <<"R", "G">>)
UplinkUe(u) ==
  <<"G", "G">> \o [k \in 1 .. 2 * n_users |-> IF k = 2 * u - 1 THEN "P" ELSE "G"]
               \o (IF n_users > 1 THEN <<"P", "G">> ELSE <<>>)

Uplink   == [r \in BS \cup UE |-> IF r \in BS THEN UplinkBs(r) ELSE UplinkUe(r - tool.bs)]
Downlink == [r \in BS \cup UE |-> IF r \in BS THEN First(r) \o <<"P", "G">>
                                              ELSE <<"G", "G", "R", "G">>]

\* Each base-station radio sounds in its own slot; with two channels it takes
\* the guard slot for the second one.
SoundBs(r) ==
  First(r) \o [k \in 1 .. 2 * tool.bs |->
                 IF k = 2 * r - 1 \/ (k = 2 * r /\ tool.bsChan = 2) THEN "P" ELSE "G"]
SoundUe == <<"G", "G">> \o Times(tool.bs, <<"R", IF tool.bsChan = 2 THEN "R" ELSE "G">>)

\* There is one schedule for all the users: the second user radio has none.
Sound == [r \in BS \cup {u \in UE : u = tool.bs + 1} |-> IF r \in BS THEN SoundBs(r) ELSE SoundUe]

RefNode == [r \in BS \cup Ref |-> IF r \in BS THEN <<"G", "G", "R", "G">>
                                              ELSE <<"G", "G", "P", "G">>]

GainTest == [r \in BS \cup UE |-> First(r) \o <<"G", "G">>]

\* config_sdr_tdd, activate_stream_rx and set_corr.
Configured(sched, readers) ==
  [r \in Radios |->
     IF r \notin DOMAIN sched THEN dev[r]
     ELSE [dev[r] EXCEPT !.mode = IF r \in UE THEN "beacon" ELSE "once",
                         !.slots = sched[r], !.corr = r \in UE,
                         !.active = @ \/ r \in readers]]
-----------------------------------------------------------------------------
(* Calls *)

\* A MATLAB script calls what it likes, main asks for one frame of downlink.
Enter(kind, frames) ==
  /\ Driver /\ phase = "ready" /\ job.calls < MaxCalls
  /\ tool.main => kind = "downlink" /\ frames = 1 /\ job.calls = 0

Begin(kind, sched, readers) ==
  /\ \E frames \in 1 .. Frames :
       /\ Enter(kind, frames)
       /\ job' = [call |-> kind, calls |-> job.calls + 1, left |-> frames, try |-> 1,
                  old |-> [u \in UE |-> 0]]
  /\ phase' = "call"
  /\ dev' = Configured(sched, readers)
  /\ out' = <<>>
  /\ UNCHANGED <<tool, round>>

\* An exception leaves the radios as they are.
Fail(kind, sched) ==
  /\ Enter(kind, 1)
  /\ phase' = "stopped"
  /\ job' = [job EXCEPT !.call = kind]
  /\ dev' = Configured(sched, {})
  /\ UNCHANGED <<tool, round, out>>

\* Data of another number of users, or too long for the memory: no call.
Refuse ==
  /\ \E columns \in 1 .. 2, big \in BOOLEAN, kind \in {"uplink", "downlink", "sound"} :
       /\ Enter(kind, 1)
       /\ big \/ (kind = "uplink" /\ columns # n_users)
  /\ job' = [job EXCEPT !.calls = @ + 1]
  /\ UNCHANGED <<tool, phase, dev, round, out>>

TxrxUplink   == Begin("uplink", Uplink, BS)
TxrxDownlink == Begin("downlink", Downlink, UE)
TxrxDlSound  == Driver /\ tool.ue = 1 /\ Begin("sound", Sound, UE)
TxrxRefnode  == Driver /\ tool.ref > 0 /\ Begin("refnode", RefNode, BS)

\* There is no schedule for a second user, or there are no reference radios.
CallFails ==
  \/ Driver /\ tool.ue > 1 /\ Fail("sound", Sound)
  \/ Driver /\ tool.ref = 0 /\ Fail("refnode", RefNode)
-----------------------------------------------------------------------------
(* A try *)

Readers == IF job.call \in {"uplink", "refnode"} THEN BS ELSE UE
Both    == IF job.call = "uplink" THEN tool.bsChan > 1 ELSE tool.ueChan > 1

\* Mutant: a read that comes too short is no low signal.
LowIfQuiet(got, n, loud) == \E i \in DOMAIN got : got[i].from = {} /\ ~loud

\* A symbol is missing or has no signal; noise may be loud enough for one.
Low(got, n, loud) == Len(got) < n \/ \E i \in DOMAIN got : got[i].from = {} /\ ~loud

Expected(r) == Cardinality(Places(dev[r].slots))
Got(air, r) == Upto(Expected(r), air[r].fifo)

\* recv_stream_tdd: the array of a radio, with zeros for what did not come.
recv_stream_tdd(air, r) ==
  [i \in 1 .. Expected(r) |-> IF i \in DOMAIN Got(air, r) THEN Got(air, r)[i] ELSE Zeros]
AfterRead(air) ==
  [r \in Radios |-> IF r \in Readers THEN [air[r] EXCEPT !.fifo = Beyond(Expected(r), @)]
                                     ELSE air[r]]

\* The second channel counts when both are used, and may be too weak.
verify_signal_quality(air, loud, weak) ==
  \A r \in Readers : ~Low(Got(air, r), Expected(r), loud) /\ ~(Both /\ weak)

\* The outcomes of a try: a trigger, which beacons are heard, what is received.
Tries ==
  {LET air == Played(heard, lost)
   IN  [dev  |-> AfterRead(air),
        good |-> verify_signal_quality(air, loud, weak),
        data |-> [r \in Readers |-> recv_stream_tdd(air, r)],
        loud |-> loud] :
     heard \in SUBSET Listening, lost \in Losses, loud \in BOOLEAN, weak \in BOOLEAN}

Triggers(t)  == [u \in UE |-> t.dev[u].count]
Triggered(t) == \A u \in UE : Triggers(t)[u] # job.old[u]

\* unset_corr of the users and reset_frame of all the radios.
Reset(d) == [d EXCEPT !.corr = FALSE, !.count = 0]
Ended(d) == [r \in Radios |->
               IF r \in UE /\ job.call # "refnode" THEN Reset(d[r])
               ELSE [d[r] EXCEPT !.count = 0]]

\* The loop over the frames goes on, or the call returns.
FrameDone(d) ==
  IF job.left > 1
  THEN /\ job' = [job EXCEPT !.left = @ - 1, !.try = 1, !.old = [u \in UE |-> 0]]
       /\ dev' = d /\ phase' = phase
  ELSE /\ job' = [call |-> "none", calls |-> job.calls]
       /\ dev' = Ended(d) /\ phase' = "ready"

Entry(t) ==
  [call |-> job.call, round |-> round + 1, data |-> t.data, loud |-> t.loud,
   still |-> {p \in Ref \X (1 .. 4) : Sends(p[1], p[2])}]

Trying(call) ==
  /\ Driver /\ phase = "call" /\ job.call = call
  /\ round' = round + 1 /\ UNCHANGED tool

\* A try ends the frame, or the next one begins with the count old; the
\* exception in the test or in the store ends the tool.
Outcome(t, fails, old) ==
  \/ /\ fails
     /\ phase' = "stopped" /\ dev' = t.dev /\ UNCHANGED <<job, out>>
  \/ /\ ~fails /\ t.good /\ Triggered(t)
     /\ out' = Append(out, Entry(t)) /\ FrameDone(t.dev)
  \/ /\ ~fails /\ ~(t.good /\ Triggered(t)) /\ job.try < MaxTry
     /\ job' = [job EXCEPT !.try = @ + 1, !.old = old]
     /\ dev' = t.dev /\ UNCHANGED <<phase, out>>
  \/ /\ ~fails /\ ~(t.good /\ Triggered(t)) /\ job.try = MaxTry
     /\ FrameDone(t.dev) /\ UNCHANGED out

\* Users with two channels are counted twice and have one count of triggers.
TooManyUsers == tool.ueChan > 1

UplinkTry == Trying("uplink") /\ \E t \in Tries : Outcome(t, TooManyUsers, job.old)

\* A downlink frame of several users does not fit the array.
DownlinkTry ==
  Trying("downlink") /\ \E t \in Tries :
    Outcome(t, TooManyUsers \/ (t.good /\ Triggered(t) /\ n_users > 1), job.old)

\* Only the sounding keeps old_triggers up to date.
SoundTry == Trying("sound") /\ \E t \in Tries : Outcome(t, TooManyUsers, Triggers(t))

\* The reference nodes: whatever comes is kept.
RefFrame ==
  /\ phase = "call" /\ job.call = "refnode"
  /\ \E t \in Tries : out' = Append(out, Entry(t)) /\ FrameDone(t.dev)
  /\ round' = round + 1 /\ UNCHANGED tool
-----------------------------------------------------------------------------
(* set_opt_gains *)

Combinations == FlattenSeq([r \in DOMAIN Gains |-> [t \in DOMAIN Gains |-> <<Gains[t], Gains[r]>>]])

SetOptGains ==
  \E frames \in 0 .. 2 :
    /\ Enter("gains", frames)
    /\ phase' = "gains"
    /\ job' = [call |-> "gains", calls |-> job.calls + 1, frames |-> frames,
               rest |-> Combinations, old |-> 0, owed |-> 0,
               best |-> <<>>, current_max |-> 0, seen |-> <<>>]
    /\ dev' = Configured(GainTest, UE) /\ out' = <<>>
    /\ UNCHANGED <<tool, round>>

\* No frame leaves triggers without a value, two users have no truth value.
GainsFail ==
  /\ phase = "gains" /\ (job.frames = 0 \/ n_users > 1)
  /\ phase' = "stopped" /\ round' = round + job.frames
  /\ UNCHANGED <<tool, job, dev, out>>

Better(new) == new # 0 /\ new >= job.current_max

\* The count is read right after the last trigger: that beacon may be counted
\* in the next combination.
Combination ==
  /\ phase = "gains" /\ job.frames > 0 /\ n_users = 1 /\ job.rest # <<>>
  /\ \E hits \in 0 .. job.frames : \E late \in 0 .. Min({1, hits}) :
       LET user == tool.bs + 1
           count == dev[user].count + job.owed + hits - late
           new == count - job.old
       IN  /\ job' = [job EXCEPT
                        !.rest = Tail(@), !.old = count, !.owed = late,
                        !.seen = Append(@, [gains |-> Head(job.rest), new |-> new]),
                        !.best = IF Better(new) THEN Head(job.rest) ELSE @,
                        !.current_max = IF Better(new) THEN new ELSE @]
           /\ dev' = [dev EXCEPT ![user].count = count]
  /\ round' = round + job.frames
  /\ UNCHANGED <<tool, phase, out>>

GainsDone ==
  /\ phase = "gains" /\ job.rest = <<>>
  /\ phase' = "ready"
  /\ out' = Append(out, [call |-> "gains", best |-> job.best,
                         current_max |-> job.current_max, seen |-> job.seen])
  /\ job' = [call |-> "none", calls |-> job.calls]
  /\ dev' = Ended(dev)
  /\ UNCHANGED <<tool, round>>
-----------------------------------------------------------------------------
Close ==
  /\ Driver /\ phase = "ready" /\ (tool.main => job.calls = 1)
  /\ phase' = "over"
  /\ dev' = [r \in Radios |-> IF r \in BS \cup UE \cup Ref THEN IrisClose(dev[r])
                                                          ELSE dev[r]]
  /\ UNCHANGED <<tool, job, round, out>>

\* iris_py.py by itself: the base station is configured, and the user is not
\* given the trig_offset its configuration adds to.
Alone ==
  /\ tool.name = "pair" /\ phase = "start"
  /\ phase' = "stopped" /\ job' = [call |-> "none"]
  /\ dev' = [dev EXCEPT ![1].mode = "once",
                        ![1].slots = <<"B", "G", "G", "G", "G", "G", "R", "G">>]
  /\ UNCHANGED <<tool, round, out>>

MimoNext ==
  \/ MimoInit \/ Refuse \/ TxrxUplink \/ TxrxDownlink \/ TxrxDlSound \/ TxrxRefnode \/ CallFails
  \/ UplinkTry \/ DownlinkTry \/ SoundTry \/ RefFrame
  \/ SetOptGains \/ GainsFail \/ Combination \/ GainsDone \/ Close \/ Alone
-----------------------------------------------------------------------------
(* Properties *)

Schedule(call) ==
  CASE call = "uplink" -> Uplink [] call = "downlink" -> Downlink [] call = "sound" -> Sound

\* Whose turn it is; reference radios still send what an earlier txrx_refnode
\* gave them.
Turn(e, r, k) ==
  {q \in DOMAIN Schedule(e.call) \ {r} :
     k \in DOMAIN Schedule(e.call)[q] /\ Schedule(e.call)[q][k] = "P"}
  \cup {q \in Ref : <<q, k>> \in e.still}

\* A frame a call returns as good is whole and of the try it was accepted in:
\* every symbol is in its place and was sent by exactly the radios whose turn it
\* was, so the beacon was heard in that try; unless noise, or a reference radio
\* that still sends, passed for the signal of a user who did not hear it.
\* The gains returned are the last of those with the most triggers.
GoodFramesHeard ==
  Driver => \A e \in Range(out) :
    /\ e.call \in {"uplink", "downlink", "sound"} =>
         \A r \in DOMAIN e.data :
           LET places == InOrder(Places(Schedule(e.call)[r]))
           IN  /\ DOMAIN e.data[r] = DOMAIN places
               /\ \A i \in DOMAIN places :
                    LET got == e.data[r][i]
                    IN  /\ got.round = e.round /\ got.slot = places[i]
                        /\ got.from \subseteq Turn(e, r, got.slot)
                        /\ e.loud \/ e.still # {} \/ got.from = Turn(e, r, got.slot)
    /\ e.call = "gains" /\ e.best # <<>> =>
         \E i \in DOMAIN e.seen :
           /\ e.seen[i] = [gains |-> e.best, new |-> e.current_max]
           /\ \A j \in DOMAIN e.seen : e.seen[j].new <= e.current_max
           /\ \A j \in i + 1 .. Len(e.seen) : e.seen[j].new < e.current_max
=============================================================================
