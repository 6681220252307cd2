------------------------------- MODULE MCAgc -------------------------------
(* The instance of Agc for TLC: the constants of agc_fsm_iris.py and the gain *)
(* table it loads, with readings of a quarter of a decibel.                   *)
EXTENDS Agc

\* data_in/gainTable_07-20-18.csv
CodeTable   == [r \in 0 .. 64 |-> IF r <= 61 THEN r - 12
                                  ELSE IF r = 64 THEN 61 ELSE r - 5]
SatDrops    == [s \in 0 .. 2 |-> IF s = 0 THEN 20 ELSE 10]
Target15    == -60
SatThresh6  == -24
Floor99     == -396
\* From too weak for the last row, over the gaps at the top of the table, to
\* too loud for the first.
WeakToLoud  == {-380, -303, -281, -271, -258, -253, -201, -120, -83, -41, -4, 30}
NoiseLevel  == -388
FirstGains  == {47, 61}
=============================================================================
