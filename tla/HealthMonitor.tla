--------------------------- MODULE HealthMonitor ---------------------------
(***************************************************************************)
(* iris_health_monitor.py: the radios on the network are tested against a  *)
(* golden one.  The tool settles which radios it tests and with which      *)
(* range of gains, sweeps each of them as a receiver and as a transmitter, *)
(* writes a row per finding, and reports.                                  *)
(*                                                                         *)
(* A measurement of a pair of radios (test_a_tx_rx_pair) is one step whose *)
(* result the radios choose: whether the power at either channel reached   *)
(* the limit.  Rows keep what the report and the plots tell apart.         *)
(***************************************************************************)
EXTENDS Integers, Sequences, FiniteSets, SequencesExt, Ordered

CONSTANTS
  Network,      \* the Irises found by enumerate, in its order
  Frontend,     \* board of each Iris: "CBRS" or "dev"
  Lowest,       \* gains set_gain_limits allows a board in either direction,
  Highest,      \* and --gain-step
  Step,
  Commands      \* command lines the tool is started with

Irises == ToSet(Network)
Boards == {"CBRS", "dev"}

ASSUME HealthAssumption ==
  /\ Network \in Seq(Irises) /\ IsInjective(Network) /\ "" \notin Irises
  /\ Frontend \in [Irises -> Boards]
  /\ Lowest \in [Boards -> Nat]
  /\ Highest \in [{"rx", "tx"} -> [Boards -> Nat]]
  /\ \A b \in Boards, d \in {"rx", "tx"} : Lowest[b] <= Highest[d][b]
  /\ Step \in Nat \ {0}
  /\ \A c \in Commands :
       /\ c.uuts \in Seq(Irises) /\ IsInjective(c.uuts) /\ c.golden \in Irises
       /\ c.golden \notin ToSet(c.uuts)
       /\ c.remove \subseteq Irises \ {c.golden}
       /\ c.uuts # <<>> => c.remove \subseteq ToSet(c.uuts)
       /\ c.ant \in {"A", "B", "AB"}
       /\ {c.txOnly, c.rxOnly, c.logging, c.detailed} \subseteq BOOLEAN

VARIABLES
  command,     \* the arguments
  phase,       \* "prepare", "rx", "tx", "report", "end", or "unbound"
  uuts,        \* uut_serials
  frontends,   \* uut_frontends
  at,          \* the radio under test, its channel and gain in the sweep
  ch,
  uut_gain,
  logged,      \* channels with ch_1_logged, ch_2_logged
  high,        \* channels that reached the limit in the last measurement
  rows,        \* rows written by this test
  pf,          \* result of each test
  ran          \* tests that were run

healthVars == <<command, phase, uuts, frontends, at, ch, uut_gain, logged, high, rows, pf, ran>>

HealthInit ==
  /\ command \in Commands
  /\ phase = "prepare"
  /\ uuts = <<>> /\ frontends = <<>>
  /\ at = 1 /\ ch = "A" /\ uut_gain = 0 /\ logged = {} /\ high = {}
  /\ rows = <<>>
  /\ pf = [t \in {"rx", "tx"} |-> TRUE] /\ ran = {}
-----------------------------------------------------------------------------
(* Which radios are tested *)

\* The list without the entries at the places of P.
Without(s, P) ==
  LET kept == InOrder(DOMAIN s \ P)
  IN  [k \in DOMAIN kept |-> s[kept[k]]]

\* The golden Iris leaves the list of serials, but not the list of frontends;
\* the radios to leave out lose the same place of both.
Prepare ==
  LET all   == IF command.uuts = <<>> THEN Network
               ELSE Append(command.uuts, command.golden)
      gone  == {k \in DOMAIN all : all[k] = command.golden}
      rest  == Without(all, gone)
      taken == {k \in DOMAIN rest : rest[k] \in command.remove}
  IN  /\ uuts' = Without(rest, taken)
      /\ frontends' = Without([k \in DOMAIN all |-> Frontend[all[k]]], taken)

RunsRx == command.rxOnly \/ (~command.txOnly /\ ~command.rxOnly)
RunsTx == command.txOnly \/ (~command.txOnly /\ ~command.rxOnly)

\* A test begins with the first radio, in an empty log.
Begin(test) ==
  /\ phase' = test
  /\ at' = 1 /\ ch' = "A" /\ logged' = {} /\ high' = {}
  /\ rows' = <<>>
  /\ uut_gain' = IF frontends' = <<>> THEN 0 ELSE Lowest[frontends'[1]]

Start ==
  /\ phase = "prepare"
  /\ Prepare
  /\ Begin(IF RunsRx THEN "rx" ELSE "tx")
  /\ UNCHANGED <<command, pf, ran>>
-----------------------------------------------------------------------------
(* The sweep of a radio *)

Testing  == at <= Len(uuts)
InRange  == uut_gain <= Highest[phase][frontends[at]]

\* print_results or write_to_log, when a row is due.
Noted(log, due, row) == IF due THEN Append(log, row) ELSE log
Row(p, c, h) == [pf |-> p, uut |-> uuts[at], ch |-> c, gain |-> uut_gain, high |-> h]

\* The gain of the next measurement, or one past the range after a break.
Sweep(stop) ==
  uut_gain' = IF stop THEN Highest[phase][frontends[at]] + 1 ELSE uut_gain + Step

\* Mutant: the flag of a channel is not looked at.
RxPairAgain(pass) ==
  /\ phase = "rx" /\ Testing /\ InRange
  /\ rows' = Noted(Noted(rows, "A" \in pass, Row("Passed", "A", pass)),
                   "B" \in pass, Row("Passed", "B", pass))
  /\ logged' = logged \cup pass /\ high' = pass
  /\ Sweep(pass = {"A", "B"})
  /\ UNCHANGED <<command, phase, uuts, frontends, at, ch, pf, ran>>

\* The golden Iris transmits, both channels of the radio receive; pass is the
\* set of channels that reached the limit.  The sweep only stops when both do
\* so at the same gain.
RxPair(pass) ==
  LET fresh  == pass \ logged
      passed == Noted(Noted(rows, "A" \in fresh, Row("Passed", "A", pass)),
                      "B" \in fresh, Row("Passed", "B", pass))
  IN  /\ phase = "rx" /\ Testing /\ InRange
      /\ rows' = Noted(passed, command.detailed /\ fresh = {} /\ pass # {"A", "B"},
                       Row("", "AB", pass))
      /\ logged' = logged \cup pass /\ high' = pass
      /\ Sweep(pass = {"A", "B"})
      /\ UNCHANGED <<command, phase, uuts, frontends, at, ch, pf, ran>>

\* The next radio, with the range of gains of its entry in the list.
NextRadio ==
  /\ at' = at + 1
  /\ uut_gain' = IF at < Len(uuts) THEN Lowest[frontends[at + 1]] ELSE 0

\* The sweep of a receiver is over: a channel without a row has failed.
RxVerdict ==
  /\ phase = "rx" /\ Testing /\ ~InRange
  /\ rows' = Noted(Noted(rows, "A" \notin logged, Row("Failed", "A", high)),
                   "B" \notin logged, Row("Failed", "B", high))
  /\ pf' = [pf EXCEPT !["rx"] = @ /\ logged = {"A", "B"}]
  /\ logged' = {} /\ UNCHANGED high
  /\ NextRadio
  /\ UNCHANGED <<command, phase, uuts, frontends, ch, ran>>

\* One channel of the radio transmits, and the golden Iris receives on both
\* of its own; only the channel of its antenna counts.
TxPair(pass) ==
  LET hit == command.ant \in pass
  IN  /\ phase = "tx" /\ Testing /\ InRange
      /\ rows' = Noted(rows, hit \/ (command.detailed /\ command.ant # "AB"),
                       Row(IF hit THEN "Passed" ELSE "", ch, pass))
      /\ logged' = (IF hit THEN {command.ant} ELSE {}) /\ high' = pass
      /\ Sweep(hit)
      /\ UNCHANGED <<command, phase, uuts, frontends, at, ch, pf, ran>>

\* The sweep of a transmitting channel is over.  With a golden antenna that is
\* neither A nor B nothing is looked at and nothing fails.
TxVerdict ==
  LET failed == logged = {} /\ command.ant \in {"A", "B"}
  IN  /\ phase = "tx" /\ Testing /\ ~InRange
      /\ rows' = Noted(rows, failed, Row("Failed", ch, high))
      /\ pf' = [pf EXCEPT !["tx"] = @ /\ ~failed]
      /\ logged' = {} /\ UNCHANGED high
      /\ IF ch = "A"
         THEN ch' = "B" /\ uut_gain' = Lowest[frontends[at]] /\ UNCHANGED at
         ELSE ch' = "A" /\ NextRadio
      /\ UNCHANGED <<command, phase, uuts, frontends, ran>>
-----------------------------------------------------------------------------
(* The order of the tests, and the report *)

\* A test returns its limits, which have no value when it had no radio.
EndTest ==
  /\ phase \in {"rx", "tx"} /\ ~Testing
  /\ ran' = ran \cup {phase}
  /\ UNCHANGED frontends
  /\ IF phase = "rx" /\ RunsTx /\ uuts # <<>>
     THEN Begin("tx")
     ELSE /\ phase' = IF uuts = <<>> THEN "unbound" ELSE "report"
          /\ UNCHANGED <<at, ch, uut_gain, logged, high, rows>>
  /\ UNCHANGED <<command, uuts, pf>>

\* disp_params is called with the results and the log names of both tests:
\* one that was not run, or not logged, has none.
Report ==
  /\ phase = "report"
  /\ phase' = IF ran = {"rx", "tx"} /\ command.logging THEN "end"
              ELSE "unbound"
  /\ UNCHANGED <<command, uuts, frontends, at, ch, uut_gain, logged, high, rows, pf, ran>>

Measure == \E pass \in SUBSET {"A", "B"} : RxPair(pass) \/ TxPair(pass)

HealthNext == Start \/ Measure \/ RxVerdict \/ TxVerdict \/ EndTest \/ Report

HealthSpec == HealthInit /\ [][HealthNext]_healthVars
-----------------------------------------------------------------------------
(* The plots: what process_rx_log and process_tx_log make of the rows *)

\* The log of the receivers: a change of serial closes the lists of the last
\* radio.  A list grows until its channel is above the limit, the first row of
\* a radio excepted.
NewBuf(row) == [list |-> <<row>>, done |-> FALSE]
Grown(b, row, c) ==
  [list |-> IF b.done THEN b.list ELSE Append(b.list, row),
   done |-> b.done \/ c \in row.high]
RxTake(acc, row) ==
  IF row.uut # acc.uut
  THEN [uut |-> row.uut, serials |-> Append(acc.serials, row.uut),
        a |-> Append(acc.a, acc.bufA.list), b |-> Append(acc.b, acc.bufB.list),
        bufA |-> NewBuf(row), bufB |-> NewBuf(row)]
  ELSE [acc EXCEPT !.bufA = Grown(@, row, "A"), !.bufB = Grown(@, row, "B")]
RxEmpty ==
  LET none == [list |-> <<>>, done |-> FALSE]
  IN  [uut |-> "", serials |-> <<"">>, a |-> <<>>, b |-> <<>>, bufA |-> none, bufB |-> none]

\* Mutant: the lists of B are not closed when the next radio begins.
TxTakeOpen(acc, row) ==
  IF row.ch = acc.ch
  THEN IF row.ch = "A" THEN [acc EXCEPT !.bufA = Append(@, row)]
                       ELSE [acc EXCEPT !.bufB = Append(@, row)]
  ELSE IF row.ch = "A"
  THEN [acc EXCEPT !.ch = "A", !.bufA = <<row>>, !.serials = Append(@, row.uut)]
  ELSE [acc EXCEPT !.ch = "B", !.a = Append(@, acc.bufA),
                   !.bufB = <<row>>, !.serials = Append(@, row.uut)]

\* The log of the transmitters: a change of channel closes the list of the
\* other one; serials are noted twice and made unique at the end.
TxTake(acc, row) ==
  IF row.ch = acc.ch
  THEN IF row.ch = "A" THEN [acc EXCEPT !.bufA = Append(@, row)]
                       ELSE [acc EXCEPT !.bufB = Append(@, row)]
  ELSE IF row.ch = "A"
  THEN [acc EXCEPT !.ch = "A", !.b = Append(@, acc.bufB),
                   !.bufA = <<row>>, !.serials = Append(@, row.uut)]
  ELSE [acc EXCEPT !.ch = "B", !.a = Append(@, acc.bufA),
                   !.bufB = <<row>>, !.serials = Append(@, row.uut)]
TxEmpty == [ch |-> "", serials |-> <<"">>, a |-> <<<<>>>>, b |-> <<>>, bufA |-> <<>>, bufB |-> <<>>]

\* The rows are taken one by one; the lists still open are closed at the end.
TakenSoFar(test, log) ==
  LET taken[k \in 0 .. Len(log)] ==
        IF k = 0 THEN IF test = "rx" THEN RxEmpty ELSE TxEmpty
        ELSE IF test = "rx" THEN RxTake(taken[k - 1], log[k])
        ELSE TxTake(taken[k - 1], log[k])
  IN  taken
RxLists(log) ==
  LET last == TakenSoFar("rx", log)[Len(log)]
  IN  [serials |-> last.serials, a |-> Append(last.a, last.bufA.list),
       b |-> Append(last.b, last.bufB.list)]
Again(s) == {k \in DOMAIN s : \E j \in 1 .. k - 1 : s[j] = s[k]}
TxLists(log) ==
  LET last == TakenSoFar("tx", log)[Len(log)]
  IN  [serials |-> Without(last.serials, Again(last.serials)),
       a |-> IF last.ch = "A" THEN Append(last.a, last.bufA) ELSE last.a,
       b |-> IF last.ch = "A" THEN last.b ELSE Append(last.b, last.bufB)]
-----------------------------------------------------------------------------
(* Properties *)

TestOver(test) == phase = test /\ ~Testing

Verdicts(u, c) ==
  {k \in DOMAIN rows : rows[k].uut = u /\ rows[k].ch = c /\ rows[k].pf # ""}

\* Every channel of every radio gets exactly one verdict, and the test passes
\* if and only if none of them is "Failed": measurements of the two channels
\* come in together, and either may pass, fall back and pass again.
OneVerdictEach ==
  \A test \in {"rx", "tx"} :
    TestOver(test) /\ command.ant # "AB" =>
      /\ \A u \in ToSet(uuts), c \in {"A", "B"} : Cardinality(Verdicts(u, c)) = 1
      /\ pf[test] = \A k \in DOMAIN rows : rows[k].pf # "Failed"

\* What is plotted under a serial is what was measured of that radio, for every
\* radio: the two logs are cut into lists by the changes of one column.
PlotsOwnRows ==
  \A test \in {"rx", "tx"} :
    TestOver(test) /\ rows # <<>> =>
      LET lists == IF test = "rx" THEN RxLists(rows) ELSE TxLists(rows)
      IN  /\ Tail(lists.serials) = uuts
          /\ Len(lists.a) = Len(uuts) + 1 /\ Len(lists.b) = Len(uuts) + 1
          /\ \A k \in DOMAIN uuts : \A l \in {lists.a[k + 1], lists.b[k + 1]} :
               /\ l # <<>>
               /\ \A j \in DOMAIN l : l[j].uut = uuts[k]
=============================================================================
