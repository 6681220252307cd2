------------------------------ MODULE MCRxPath ------------------------------
(***************************************************************************)
(* Instances of RxPath for TLC.                                            *)
(*   Sw..: software framer, two radios in one cell, one receive thread     *)
(*         each, beacon slot 0 and pilot slot 1                            *)
(*   Hw..: hardware framer, two cells, one receive thread for both radios, *)
(*         two channels                                                    *)
(***************************************************************************)
EXTENDS RxPath

OneCell  == [c \in 0 .. 1 |-> 2 * c]
TwoCells == [c \in 0 .. 2 |-> c]

SwSlots == [it \in 0 .. 1 |-> {1}]
SwTx    == [it \in 0 .. 1 |-> 0]
HwSlots == [it \in 0 .. 1 |-> IF it = 0 THEN {1, 2} ELSE {1}]
HwTx    == [it \in 0 .. 1 |-> 1]
=============================================================================
