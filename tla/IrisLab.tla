------------------------------- MODULE IrisLab -------------------------------
(***************************************************************************)
(* A laboratory of Iris radios: one experiment at a time has the radios,   *)
(* and its command line says which one and with which options.             *)
(***************************************************************************)
EXTENDS MimoDriver, PilotTools, CalTools, FreeTools

CONSTANT Labs  \* the experiments, each with its options

\* What the command lines allow, and that the radios they name are there.
ASSUME LabAssumption ==
  \A t \in Labs :
    /\ t.name \in {"mimo", "pair", "burst", "array", "offset", "reciprocity", "sounder", "sweep",
                   "ofdm", "siggen", "rx"}
    /\ t.name = "mimo" =>
         /\ {t.bs, t.ue, t.ref} \subseteq Nat /\ {t.bsChan, t.ueChan} \subseteq {1, 2}
         /\ 1 .. t.bs + t.ue + t.ref \subseteq Radios
    /\ t.name = "burst" => {1, 2} \subseteq Radios
    /\ t.name = "array" => t.nodes \in Nat /\ 1 .. t.nodes + 1 \subseteq Radios
    /\ t.name \in {"offset", "sweep"} => t.boards \in Nat /\ 1 .. t.boards \subseteq Radios
    /\ t.name = "reciprocity" => t.sdrs \in Nat /\ t.both \in BOOLEAN
    /\ t.name = "sounder" => t.syms \in Nat /\ t.data \in Nat /\ {1, 2} \subseteq Radios
    /\ t.name = "ofdm" => t.cp \in Nat
    /\ t.name = "siggen" => t.samps \in Nat /\ 1 \in Radios

Init ==
  /\ tool \in Labs
  /\ phase = "start" /\ job = <<>> /\ out = <<>> /\ round = 0
  /\ dev = [r \in Radios |-> Idle]
Next == MimoNext \/ PilotNext \/ CalNext \/ FreeNext
Spec == Init /\ [][Next]_toolVars
=============================================================================
