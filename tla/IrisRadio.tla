------------------------------ MODULE IrisRadio ------------------------------
(***************************************************************************)
(* The Iris radios as the Python tools use them through SoapySDR: a        *)
(* schedule of slots, the streams, the correlator and its count of         *)
(* triggers.  The radios are not part of the repository; what is said of   *)
(* them here is what the tools rely on.                                    *)
(*                                                                         *)
(* A frame goes over the air as one step: a slot "R" of a radio whose      *)
(* stream is active gives a symbol, which tells who sent in that slot, or  *)
(* is lost on its way to the host.  A read that finds no symbol times out. *)
(* Timeouts are longer than a frame, so no symbol is late.                 *)
(***************************************************************************)
EXTENDS Integers, Sequences, FiniteSets, SequencesExt, FiniteSetsExt, Ordered

CONSTANT Radios  \* numbers of the radios
ASSUME RadiosAssumption == Radios \subseteq Nat

VARIABLES
  tool,   \* the tool that has the radios, and its command line
  phase,  \* where the tool is; "over", or "stopped" by an exception
  job,    \* the variables of the tool
  dev,    \* per radio: its state
  round,  \* frames triggered
  out     \* what the tool has kept

toolVars == <<tool, phase, job, dev, round, out>>

\* mode: "off"; "once" plays a frame per trigger, "beacon" plays one when the
\* correlator finds the beacon, "free" goes on by itself, "replay" sends its
\* memory over and over.
Idle == [mode |-> "off", slots |-> <<>>, active |-> FALSE, corr |-> FALSE,
         count |-> 0, fifo |-> <<>>]

\* The symbol of a slot, and what is in an array nobody has written.
Symbol(k, senders) == [round |-> round + 1, slot |-> k, from |-> senders]
Zeros == [round |-> 0, slot |-> 0, from |-> {}]

Sends(r, k) == k \in DOMAIN dev[r].slots /\ dev[r].slots[k] \in {"P", "T"}
Beacon      == \E r \in Radios : dev[r].slots # <<>> /\ dev[r].slots[1] = "B"
Listening   == {r \in Radios : Beacon /\ dev[r].mode = "beacon" /\ dev[r].corr}
Places(s)   == {k \in DOMAIN s : s[k] = "R"}

\* The losses of a frame: at most one symbol, given by radio and slot.
Losses ==
  {{}} \cup UNION {{{<<r, k>>} : k \in Places(dev[r].slots)} :
                     r \in {q \in Radios : dev[q].active}}

\* The radios after a trigger, when the radios in heard find the beacon.
Played(heard, lost) ==
  LET players    == heard \cup {r \in Radios : dev[r].mode = "once"}
      Symbols(r) == LET ks == InOrder({k \in Places(dev[r].slots) : <<r, k>> \notin lost})
                    IN  [i \in DOMAIN ks |->
                           Symbol(ks[i], {q \in players \ {r} : Sends(q, ks[i])})]
  IN  [r \in Radios |->
         IF r \notin players THEN dev[r]
         ELSE [dev[r] EXCEPT !.count = @ + 1,
                             !.fifo = IF dev[r].active THEN @ \o Symbols(r) ELSE @]]

\* readStream n times: what comes, and what is left.
Upto(n, s)  == SubSeq(s, 1, Min({n, Len(s)}))
Beyond(n, s) == SubSeq(s, n + 1, Len(s))

\* RESET_DATA_LOGIC, a schedule that is switched off, a stream that is closed.
Stopped(d) == [d EXCEPT !.mode = "off", !.fifo = <<>>, !.count = 0]
Closed(d)  == [d EXCEPT !.active = FALSE, !.fifo = <<>>]
=============================================================================
