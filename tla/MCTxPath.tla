------------------------------ MODULE MCTxPath ------------------------------
(* The instances of TxPath for TLC. *)
EXTENDS TxPath

\* Two radios that share the reader, and one radio whose frames are two packets
\* long, lie two frames ahead and, at the base station, may get lost.
TwoRadios == [side |-> "base", radios |-> 2, delta |-> 1, file |-> 2, per |-> 1,
              places |-> 3, skip |-> FALSE, last |-> 1]
OneRadio  == [side |-> "base", radios |-> 1, delta |-> 2, file |-> 2, per |-> 2,
              places |-> 6, skip |-> TRUE, last |-> 3]
BothSides == UNION {{[s EXCEPT !.side = d] : d \in {"base", "client"}} :
                      s \in {TwoRadios, OneRadio}}
=============================================================================
