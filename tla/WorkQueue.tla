----------------------------- MODULE WorkQueue -----------------------------
(***************************************************************************)
(* What a worker thread of the sounder promises to the thread that feeds   *)
(* it: every event handed over is handled, once, in the order of the       *)
(* hand-over, until the first stop event; nothing is handled after it.     *)
(* RecorderThread is shown to implement this.                              *)
(***************************************************************************)
EXTENDS Naturals, Sequences

CONSTANTS Task,  \* the events that mean work
          Stop   \* kThreadTermination

VARIABLES given,    \* all events handed over, in order
          handled,  \* all events handled, in order
          closed    \* the stop event has been handled

vars == <<given, handled, closed>>

Init == given = <<>> /\ handled = <<>> /\ closed = FALSE

Dispatch ==
  /\ \E e \in Task \cup {Stop} : given' = Append(given, e)
  /\ UNCHANGED <<handled, closed>>

Handle ==
  /\ ~closed
  /\ Len(handled) < Len(given)
  /\ handled' = Append(handled, given[Len(handled) + 1])
  /\ closed' = (given[Len(handled) + 1] = Stop)
  /\ UNCHANGED given

Next == Dispatch \/ Handle

Spec     == Init /\ [][Next]_vars
FairSpec == Spec /\ WF_vars(Handle)
=============================================================================
