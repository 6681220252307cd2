----------------------------- MODULE MCIrisTools -----------------------------
(***************************************************************************)
(* The Python tools that use the Iris radios, each on a small laboratory:  *)
(* one tool has the radios at a time, and Init picks it and its options.   *)
(***************************************************************************)
EXTENDS IrisLab

Mimo == [name |-> "mimo", bs |-> 1, ue |-> 1, bsChan |-> 1, ueChan |-> 1, ref |-> 0,
         gains |-> 0, main |-> FALSE]
Record == [name |-> "sounder", syms |-> 6, data |-> 1, trig |-> FALSE, wait |-> FALSE,
          both |-> FALSE, power |-> FALSE, valid |-> TRUE]
Snap == [name |-> "ofdm", ota |-> TRUE, agc |-> FALSE, cp |-> 32, supported |-> TRUE, valid |-> TRUE]
Send == [name |-> "siggen", signal |-> "SINE", samps |-> 1024, period |-> 20, ant |-> "A",
         tone |-> FALSE, cbrs |-> TRUE, valid |-> TRUE]
Look == [name |-> "rx", mode |-> "BASIC", agc |-> FALSE, cbrs |-> TRUE, recorded |-> TRUE, valid |-> TRUE]
SomeLabs ==
  {Mimo, [Mimo EXCEPT !.main = TRUE], [Mimo EXCEPT !.bs = 2, !.ref = 1, !.gains = 1],
   [Mimo EXCEPT !.ue = 2], [Mimo EXCEPT !.ue = 2, !.gains = 1],
   [Mimo EXCEPT !.bs = 2, !.bsChan = 2], [Mimo EXCEPT !.ueChan = 2], [name |-> "pair"]}
  \cup {[name |-> "burst", valid |-> v] : v \in BOOLEAN}
  \cup {[name |-> "array", nodes |-> n] : n \in 0 .. 3}
  \cup {[name |-> "offset", boards |-> b] : b \in 1 .. 2}
  \cup {[name |-> "reciprocity", sdrs |-> 1, both |-> FALSE, valid |-> v] : v \in BOOLEAN}
  \cup {[name |-> "reciprocity", sdrs |-> 2, both |-> b, valid |-> TRUE] : b \in BOOLEAN}
  \cup {Record, [Record EXCEPT !.data = 2], [Record EXCEPT !.data = 2, !.trig = TRUE],
        [Record EXCEPT !.wait = TRUE], [Record EXCEPT !.both = TRUE], [Record EXCEPT !.power = TRUE],
        [Record EXCEPT !.syms = 5, !.data = 2], [Record EXCEPT !.data = 0], [Record EXCEPT !.valid = FALSE]}
  \cup {[name |-> "sweep", boards |-> 2, valid |-> v] : v \in BOOLEAN}
  \cup {Snap, [Snap EXCEPT !.agc = TRUE], [Snap EXCEPT !.cp = 16], [Snap EXCEPT !.ota = FALSE],
        [Snap EXCEPT !.ota = FALSE, !.agc = TRUE], [Snap EXCEPT !.supported = FALSE],
        [Snap EXCEPT !.valid = FALSE]}
  \cup {[Send EXCEPT !.signal = g, !.samps = n] : g \in {"LTE", "LTS", "STS", "SINE", "other"}, n \in {1024, 1120, 80000}}
  \cup {[Send EXCEPT !.ant = "C"], [Send EXCEPT !.tone = TRUE], [Send EXCEPT !.cbrs = FALSE], [Send EXCEPT !.valid = FALSE]}
  \cup {[Look EXCEPT !.mode = m, !.recorded = f] : m \in {"BASIC", "REC", "REPLAY", "other"}, f \in BOOLEAN}
  \cup {[Look EXCEPT !.agc = TRUE, !.cbrs = f] : f \in BOOLEAN} \cup {[Look EXCEPT !.valid = FALSE]}

TwoGains == <<50, 52>>
\* find_lts takes the second of two peaks 64 samples apart (find_lts.py:116).
SomePeaks == {64, 158, 159, 160, 4000, 6590, 6591, 6592, 8191}
=============================================================================
