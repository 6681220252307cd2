-------------------------- MODULE MCHealthMonitor --------------------------
(* The instance of HealthMonitor for TLC: three Irises on two boards. *)
EXTENDS HealthMonitor

ThreeIrises == <<"i1", "i2", "i3">>
TwoBoards   == [r \in {"i1", "i2", "i3"} |-> IF r = "i2" THEN "dev" ELSE "CBRS"]
LowestGain  == [b \in {"CBRS", "dev"} |-> IF b = "CBRS" THEN 5 ELSE 0]
HighestGain ==
  [d \in {"rx", "tx"} |->
     [b \in {"CBRS", "dev"} |-> IF b = "CBRS" THEN 7 ELSE IF d = "rx" THEN 1 ELSE 3]]

\* The golden Iris anywhere on the network, or named last by -u; with both, one
\* or the other test; quiet, or logged in detail; and each of its antennas
\* where it receives.
CommandLines ==
  {c \in [uuts : {<<>>, <<"i3", "i2">>}, golden : {"i1", "i2", "i3"},
          remove : {{}, {"i1"}, {"i2", "i3"}}, txOnly : BOOLEAN,
          rxOnly : BOOLEAN, logging : BOOLEAN, detailed : BOOLEAN,
          ant : {"A", "B", "AB"}] :
     /\ c.golden \notin ToSet(c.uuts) \cup c.remove
     /\ c.remove # {} => c.uuts = <<>>
     /\ c.logging = c.detailed /\ ~(c.txOnly /\ c.rxOnly)
     /\ c.ant # "A" => c.logging /\ c.txOnly}
=============================================================================
