---------------------------- MODULE MCVerifyTrace ----------------------------
(* The instance of VerifyTrace for TLC: up to three chunks, the last one cut. *)
EXTENDS VerifyTrace

\* Clients that are on from the first frame, begin together or apart, or only
\* after the end; with one antenna or two, one radio that the recorder's
\* configuration does not have, and pilots of two symbols or of one.
Recorded ==
  {t \in [frames : {1, 5}, antennas : {2, 3},
          on : {<<0>>, <<1>>, <<1, 1>>, <<0, 2>>, <<2, 5>>}, sent : {1, 2},
          chan : {1, 2}, own : {1, 2},
          ofdm : {4, 6}, calib : BOOLEAN, noise : BOOLEAN, up : {TRUE},
          down : {0, 2}, dlPilots : BOOLEAN, shifted : BOOLEAN] :
     /\ t.dlPilots => t.down > 0
     /\ t.own * t.chan <= Len(t.on)}

Default ==
  [n |-> 9, start |-> 0, step |-> 1, ref |-> 1, ant |-> 0, exclude |-> {},
   user |-> 0, symbol |-> 0, offset |-> -1, deep |-> FALSE, analyze |-> FALSE,
   demod |-> "zf", files |-> 0, metadata |-> FALSE]

\* Each way to slice the file, and each way to look at the slice.
CommandLines ==
  {[Default EXCEPT !.n = n, !.start = a, !.step = b, !.ref = r] :
     n \in {0, 3, 9}, a \in {0, 1}, b \in {1, 2}, r \in {0, 1, 4}}
  \cup
  {[Default EXCEPT !.ant = a, !.exclude = x, !.symbol = y, !.offset = o,
                   !.deep = d, !.analyze = d, !.demod = m] :
     a \in {0, 2}, x \in {{}, {0}}, y \in {0, 5}, o \in {-1, 5},
     d \in BOOLEAN, m \in {"", "mmse"}}
  \cup {[Default EXCEPT !.files = f] : f \in {1, 2}}
  \cup {[Default EXCEPT !.user = u, !.demod = ""] : u \in 1 .. 4}
  \cup {[Default EXCEPT !.metadata = TRUE]}
=============================================================================
