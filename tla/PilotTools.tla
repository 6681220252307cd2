----------------------------- MODULE PilotTools -----------------------------
(***************************************************************************)
(* Two demos that send pilots in a schedule and read them frame by frame:  *)
(* SISO_TXRX_TDD.py ("burst": one frame between two radios) and            *)
(* NB_CAL_DEMO.py ("array": frames between the nodes of an array and a     *)
(* reference radio until the user interrupts).  Ctrl-C may come between    *)
(* any two steps; before a handler is installed it ends the process.       *)
(***************************************************************************)
EXTENDS IrisRadio

CONSTANT PilotRounds  \* bound: frames before the user gives up

Set(sched) ==
  [r \in Radios |-> IF r \notin DOMAIN sched THEN dev[r]
                    ELSE [dev[r] EXCEPT !.mode = "once", !.slots = sched[r]]]
-----------------------------------------------------------------------------
(* SISO_TXRX_TDD.py: radio 1 is bsdr, radio 2 is msdr *)

Burst == tool.name = "burst"

\* A frequency is missing, or a gain is out of range: nothing is done.
BurstMain ==
  /\ Burst /\ phase = "start"
  /\ phase' = IF tool.valid THEN "burst_open" ELSE "over"
  /\ job' = [wave |-> [r \in 1 .. 2 |-> Zeros]]
  /\ UNCHANGED <<tool, dev, round, out>>

BurstSchedule == [r \in 1 .. 2 |-> IF r = 1 THEN <<"P", "G", "R", "G">> ELSE <<"R", "G", "P", "G">>]

BurstArm ==
  /\ Burst /\ phase = "burst_open"
  /\ phase' = "burst_armed"
  /\ dev' = [r \in Radios |-> IF r \in 1 .. 2 THEN [Set(BurstSchedule)[r] EXCEPT !.active = TRUE]
                                              ELSE dev[r]]
  /\ UNCHANGED <<tool, job, round, out>>

\* What comes too late or not at all leaves the array as it was.
FirstRead(fifo, old) == IF fifo = <<>> THEN old ELSE fifo[1]

BurstFrame ==
  /\ Burst /\ phase = "burst_armed"
  /\ \E lost \in Losses :
       LET air  == Played({}, lost)
           wave == [r \in 1 .. 2 |-> FirstRead(air[r].fifo, job.wave[r])]
       IN  /\ dev' = [r \in Radios |-> [air[r] EXCEPT !.fifo = Beyond(1, @)]]
           /\ job' = [job EXCEPT !.wave = wave]
           /\ out' = [wave |-> wave, lost |-> lost]
  /\ round' = round + 1 /\ phase' = "burst_read"
  /\ UNCHANGED tool

BurstEnd ==
  /\ Burst /\ phase = "burst_read"
  /\ phase' = "over"
  /\ dev' = [r \in Radios |-> IF r \in 1 .. 2 THEN Closed(Stopped(dev[r])) ELSE dev[r]]
  /\ UNCHANGED <<tool, job, round, out>>
-----------------------------------------------------------------------------
(* NB_CAL_DEMO.py: radios 1 .. nodes, and the reference *)

Array == tool.name = "array"
Nodes == 1 .. tool.nodes
RefRadio == tool.nodes + 1

\* A list of serials with the reference alone is refused.
ArrayMain ==
  /\ Array /\ phase = "start"
  /\ phase' = IF tool.nodes > 0 THEN "array_open" ELSE "over"
  /\ job' = [running |-> TRUE, handler |-> FALSE,
             Up |-> [i \in Nodes |-> Zeros], Dn |-> [i \in Nodes |-> Zeros]]
  /\ UNCHANGED <<tool, dev, round, out>>

ArrayOpen ==
  /\ Array /\ phase = "array_open"
  /\ phase' = "array_arm"
  /\ dev' = [r \in Radios |-> IF r \in Nodes \cup {RefRadio} THEN Stopped(dev[r]) ELSE dev[r]]
  /\ UNCHANGED <<tool, job, round, out>>

\* The reference sends first, then one node after the other.
ArraySchedule ==
  [r \in Nodes \cup {RefRadio} |->
     IF r = RefRadio
     THEN <<"P", "G">> \o [k \in Nodes |-> "R"] \o <<"G">>
     ELSE <<"R", "G">> \o [k \in 1 .. tool.nodes + 1 |-> IF k = r THEN "P" ELSE "G"]]

ArrayArm ==
  /\ Array /\ phase = "array_arm"
  /\ phase' = "array_plot"
  /\ dev' = [r \in Radios |-> IF r \in Nodes \cup {RefRadio}
                              THEN [Set(ArraySchedule)[r] EXCEPT !.active = TRUE] ELSE dev[r]]
  /\ UNCHANGED <<tool, job, round, out>>

\* The plots of a single node are no matrix of plots; the handler comes last.
ArrayPlot ==
  /\ Array /\ phase = "array_plot"
  /\ phase' = IF tool.nodes = 1 THEN "stopped" ELSE "array_loop"
  /\ job' = [job EXCEPT !.handler = tool.nodes > 1]
  /\ UNCHANGED <<tool, dev, round, out>>

\* Mutant: the last node is not read.
RefReadsLess == tool.nodes - 1

\* Reads of the reference in a round.
RefReads == tool.nodes

ArrayRound ==
  /\ Array /\ phase = "array_loop" /\ job.running /\ round < PilotRounds
  /\ \E lost \in Losses :
       LET air == Played({}, lost)
           up  == [i \in Nodes |-> FirstRead(air[i].fifo, job.Up[i])]
           dn  == [i \in Nodes |-> IF i <= RefReads /\ i \in DOMAIN air[RefRadio].fifo
                                   THEN air[RefRadio].fifo[i] ELSE job.Dn[i]]
       IN  /\ dev' = [r \in Radios |->
                        CASE r \in Nodes    -> [air[r] EXCEPT !.fifo = Beyond(1, @)]
                          [] r = RefRadio   -> [air[r] EXCEPT !.fifo = Beyond(RefReads, @)]
                          [] OTHER          -> air[r]]
           /\ job' = [job EXCEPT !.Up = up, !.Dn = dn]
           /\ out' = [calib |-> [i \in Nodes |-> [H1 |-> dn[i], H2 |-> up[i]]], lost |-> lost]
  /\ round' = round + 1
  /\ UNCHANGED <<tool, phase>>

ArrayEnd ==
  /\ Array /\ phase = "array_loop" /\ ~job.running
  /\ phase' = "over"
  /\ dev' = [r \in Radios |-> IF r \in Nodes \cup {RefRadio} THEN Closed(Stopped(dev[r])) ELSE dev[r]]
  /\ UNCHANGED <<tool, job, round, out>>
-----------------------------------------------------------------------------
\* signal_handler of NB_CAL_DEMO.py.
ArrayHandler ==
  /\ Array /\ phase = "array_loop" /\ job.running
  /\ job' = [job EXCEPT !.running = FALSE]
  /\ UNCHANGED <<tool, phase, dev, round, out>>

\* An interrupt nobody handles leaves the radios as they are.
PilotKilled ==
  /\ phase \in {"burst_open", "burst_armed", "burst_read", "array_open", "array_arm", "array_plot"}
  /\ phase' = "stopped"
  /\ UNCHANGED <<tool, job, dev, round, out>>

PilotNext ==
  \/ BurstMain \/ BurstArm \/ BurstFrame \/ BurstEnd
  \/ ArrayMain \/ ArrayOpen \/ ArrayArm \/ ArrayPlot \/ ArrayRound \/ ArrayEnd
  \/ ArrayHandler \/ PilotKilled
-----------------------------------------------------------------------------
(* Properties *)

\* What is shown for a pair of radios is of the last round, from the right slot
\* and from the right sender, unless a symbol of that pair was lost in that very
\* round, or one the reference should have read before it: a loss never spoils
\* a later round, although no read is checked.
Fresh(sym, k, sender) == sym = [round |-> round, slot |-> k, from |-> {sender}]

KeptInPlace ==
  /\ Burst /\ out # <<>> =>
       \A r \in 1 .. 2 : LET k == IF r = 1 THEN 3 ELSE 1
                         IN  <<r, k>> \notin out.lost => Fresh(out.wave[r], k, 3 - r)
  /\ Array /\ out # <<>> =>
       \A i \in Nodes :
         /\ <<i, 1>> \notin out.lost => Fresh(out.calib[i].H2, 1, RefRadio)
         /\ (\A k \in 1 .. i : <<RefRadio, k + 2>> \notin out.lost) =>
              Fresh(out.calib[i].H1, i + 2, i)
=============================================================================
