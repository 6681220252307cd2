----------------------------- MODULE RadioInit -----------------------------
(***************************************************************************)
(* Bringing up the base-station radios: the constructor and destructor of  *)
(* BaseRadioSet with one thread per radio, and the retry in main that      *)
(* follows when a radio was not discovered.                                *)
(*                                                                         *)
(* The constructor waits for its threads on an atomic counter.  A thread   *)
(* counts down with a load and a store, which are atomic one by one and    *)
(* not together.                                                           *)
(***************************************************************************)
EXTENDS Naturals, Sequences, FiniteSets

CONSTANTS
  NumCells,    \* number of cells
  Configured,  \* bs_sdr_ids: per cell, the number of serials configured
  MaxTry       \* maxTry of main

Cells == 1 .. NumCells

ASSUME InitAssumption ==
  /\ NumCells \in Nat \ {0}
  /\ Configured \in [Cells -> Nat \ {0}]
  /\ MaxTry \in Nat \ {0}

\* Radios of a cell are numbered from 1, as the places of a sequence.
Radios(c) == 1 .. Configured[c]
AllRadios == UNION {Radios(c) : c \in Cells}
Missing   == 0

VARIABLES
  tries,     \* cnt of main
  mpc,       \* where the main thread is
  stage,     \* "init" or "configure": which threads it starts
  cell,      \* the cell the constructor is at
  nbs,       \* n_bs_sdrs of the configuration: outlives a failed try
  radios,    \* bsRadios: per cell a sequence of radios, Missing for null
  notFound,  \* radioNotFound
  at,        \* place of the strip loop
  spawned,   \* threads started in this stage
  count,     \* thread_count
  tpc,       \* per thread of this stage: where it is
  seen,      \* per thread: the count it loaded
  found,     \* history: per cell, the radios discovered in this try
  fault      \* "none", or "terminate": an exception left a destructor

mainVars == <<tries, mpc, stage, cell, nbs, notFound, at, spawned, fault>>
vars     == <<mainVars, radios, count, tpc, seen, found>>

Init ==
  /\ tries    = 1
  /\ mpc      = "cell"
  /\ stage    = "init"
  /\ cell     = 1
  /\ nbs      = Configured
  /\ radios   = [c \in Cells |-> <<>>]
  /\ notFound = FALSE
  /\ at       = 1
  /\ spawned  = 0
  /\ count    = 0
  /\ tpc      = [i \in AllRadios |-> "none"]
  /\ seen     = [i \in AllRadios |-> 0]
  /\ found    = [c \in Cells |-> {}]
  /\ fault    = "none"

\* The threads of the stage, and those that have not counted down yet.
Team       == 1 .. nbs[cell]
Unfinished == {i \in Team : tpc[i] # "done"}
-----------------------------------------------------------------------------
(* The constructor *)

\* A stage starts with a fresh count and no thread.
StartStage(s) ==
  /\ stage' = s
  /\ count' = nbs'[cell]
  /\ spawned' = 0
  /\ tpc' = [i \in AllRadios |-> "none"]
  /\ mpc' = "spawn"

BeginCell ==
  /\ mpc = "cell" /\ cell <= NumCells
  /\ radios' = [radios EXCEPT ![cell] = [i \in Team |-> Missing]]
  /\ nbs' = nbs
  /\ StartStage("init")
  /\ UNCHANGED <<tries, cell, notFound, at, seen, found, fault>>

\* pthread_create: THREADED_INIT is part of the build (CMakeLists.txt:155).
Spawn ==
  /\ mpc = "spawn" /\ spawned < nbs[cell]
  /\ spawned' = spawned + 1
  /\ tpc' = [tpc EXCEPT ![spawned + 1] = "work"]
  /\ UNCHANGED <<tries, mpc, stage, cell, nbs, radios, notFound, at, count, seen,
                 found, fault>>

Spawned ==
  /\ mpc = "spawn" /\ spawned = nbs[cell]
  /\ mpc' = "wait"
  /\ UNCHANGED <<tries, stage, cell, nbs, radios, notFound, at, spawned, count, tpc,
                 seen, found, fault>>

\* Mutant: the constructor does not wait.
WaitedNot ==
  /\ mpc = "wait"
  /\ IF stage = "init"
       THEN mpc' = "strip" /\ at' = 1 /\ cell' = cell
       ELSE mpc' = "cell" /\ at' = at /\ cell' = cell + 1
  /\ UNCHANGED <<tries, stage, nbs, radios, notFound, spawned, count, tpc, seen, found,
                 fault>>

\* The spin on the counter is over.
Waited ==
  /\ mpc = "wait" /\ count = 0
  /\ IF stage = "init"
       THEN mpc' = "strip" /\ at' = 1 /\ cell' = cell
       ELSE mpc' = "cell" /\ at' = at /\ cell' = cell + 1
  /\ UNCHANGED <<tries, stage, nbs, radios, notFound, spawned, count, tpc, seen, found,
                 fault>>

\* Mutant: the last place, radio or not.
LastPlace(s) == Len(s)

\* Strip out broken radios: a null in the middle is replaced by the last
\* radio that is not null.
LastFound(s) ==
  IF \A k \in DOMAIN s : s[k] = Missing THEN 0
  ELSE CHOOSE k \in DOMAIN s : s[k] # Missing /\ \A j \in DOMAIN s : s[j] # Missing => j <= k

Strip ==
  /\ mpc = "strip" /\ at <= Len(radios[cell])
  /\ LET r == radios[cell]
         s == SubSeq(r, 1, LastFound(r))
     IN  IF r[at] # Missing
           THEN UNCHANGED <<radios, notFound>>
           ELSE /\ notFound' = TRUE
                /\ radios' = [radios EXCEPT ![cell] =
                     IF at <= Len(s)
                       THEN [i \in 1 .. Len(s) - 1 |-> IF i = at THEN s[Len(s)] ELSE s[i]]
                       ELSE s]
  /\ at' = at + 1
  /\ UNCHANGED <<tries, mpc, stage, cell, nbs, spawned, count, tpc, seen, found, fault>>

\* Mutant: the radios that are left are used although some are missing.
StrippedGoesOn ==
  /\ mpc = "strip" /\ at > Len(radios[cell])
  /\ nbs' = nbs
  /\ StartStage("configure")
  /\ UNCHANGED <<tries, cell, radios, notFound, at, seen, found, fault>>

\* The configuration now has the radios that are left.  A missing radio ends
\* the loop over the cells; otherwise the radios are configured.
Stripped ==
  /\ mpc = "strip" /\ at > Len(radios[cell])
  /\ nbs' = [nbs EXCEPT ![cell] = Len(radios[cell])]
  /\ IF notFound
       THEN mpc' = "built" /\ UNCHANGED <<stage, count, spawned, tpc>>
       ELSE StartStage("configure")
  /\ UNCHANGED <<tries, cell, radios, notFound, at, seen, found, fault>>

Built ==
  /\ mpc = "cell" /\ cell > NumCells
  /\ mpc' = "running"
  /\ UNCHANGED <<tries, stage, cell, nbs, radios, notFound, at, spawned, count, tpc,
                 seen, found, fault>>

\* Receiver deletes the radio set; its destructor visits n_bs_sdrs radios of
\* every cell, and a cell that was not reached has none.  Then main tries
\* again with a new radio set and the configuration as it is.
GiveUp ==
  /\ mpc = "built"
  /\ IF \E c \in Cells : nbs[c] > Len(radios[c])
       THEN fault' = "terminate" /\ UNCHANGED <<tries, mpc, cell, radios, notFound, found>>
       ELSE /\ fault' = fault
            /\ IF tries = MaxTry
                 THEN mpc' = "failed" /\ UNCHANGED <<tries, cell, radios, notFound, found>>
                 ELSE /\ tries' = tries + 1
                      /\ mpc' = "cell" /\ cell' = 1 /\ notFound' = FALSE
                      /\ radios' = [c \in Cells |-> <<>>]
                      /\ found' = [c \in Cells |-> {}]
  /\ UNCHANGED <<stage, nbs, at, spawned, count, tpc, seen>>
-----------------------------------------------------------------------------
(* The threads: BaseRadioSet::init and BaseRadioSet::configure *)

ThreadAt(i, from, to) ==
  /\ tpc[i] = from
  /\ tpc' = [tpc EXCEPT ![i] = to]
  /\ UNCHANGED mainVars

\* Making the radio succeeds or throws; configuring it changes no state here.
Work(i) ==
  /\ ThreadAt(i, "work", "load")
  /\ \/ /\ stage = "init"
        /\ radios' = [radios EXCEPT ![cell][i] = i]
        /\ found' = [found EXCEPT ![cell] = @ \cup {i}]
     \/ UNCHANGED <<radios, found>>
  /\ UNCHANGED <<count, seen>>

\* thread_count->store(thread_count->load() - 1)
Load(i) ==
  /\ ThreadAt(i, "load", "store")
  /\ seen' = [seen EXCEPT ![i] = count]
  /\ UNCHANGED <<radios, count, found>>

Store(i) ==
  /\ ThreadAt(i, "store", "done")
  /\ count' = seen[i] - 1
  /\ UNCHANGED <<radios, seen, found>>
-----------------------------------------------------------------------------
Main == BeginCell \/ Spawn \/ Spawned \/ Waited \/ Strip \/ Stripped \/ Built \/ GiveUp

Thread(i) == Work(i) \/ Load(i) \/ Store(i)

Ended == mpc \in {"running", "failed"} \/ fault # "none"

Next ==
  \/ fault = "none" /\ (Main \/ \E i \in AllRadios : Thread(i))
  \/ mpc = "wait" /\ UNCHANGED vars   \* the spin
  \/ Ended /\ UNCHANGED vars

Spec == Init /\ [][Next]_vars

\* The main thread and every thread it started are scheduled, and making or
\* configuring a radio returns.
Fairness ==
  /\ WF_vars(fault = "none" /\ Main)
  /\ \A i \in AllRadios : WF_vars(fault = "none" /\ Thread(i))

FairSpec == Spec /\ Fairness
-----------------------------------------------------------------------------
(* Properties *)

\* The count may stay too high but never drops too low, although decrements
\* are lost: it covers every thread that has not counted down, so the assertion
\* of init (count not zero) holds and the constructor never looks at the radios
\* while a thread still works on them (BaseRadioSet.cc:75-77, 388-389).
StartsCovered ==
  IF mpc \in {"spawn", "wait"}
  THEN /\ count >= Cardinality(Unfinished)
       /\ \A i \in Team : tpc[i] = "load" => count # 0
  ELSE \A i \in AllRadios : tpc[i] \in {"none", "done"}

\* Stripping keeps the radios that were discovered, each once, and nothing
\* else, whichever are missing (BaseRadioSet.cc:79-95).
StripExact ==
  mpc = "built" \/ (mpc = "spawn" /\ stage = "configure") =>
    LET r == radios[cell] IN
      /\ {r[k] : k \in DOMAIN r} = found[cell]
      /\ Len(r) = Cardinality(found[cell])

\* What a missing radio leads to (main.cc:66, scheduler.cc:104).  do_it runs
\* with all the radios the configuration names, which are those configured at
\* first; only after a retry the last cell may have fewer, because a failed try
\* has written the number it found into the configuration
\* (BaseRadioSet.cc:95), and a third try would allow the same of a cell that
\* only empty ones follow.  And the process ends in the destructor only when a
\* cell that was never reached follows.
MissingRadios ==
  /\ mpc = "running" =>
       \A c \in Cells :
         /\ radios[c] = [k \in 1 .. nbs[c] |-> k]
         /\ \/ nbs[c] = Configured[c]
            \/ c = NumCells /\ tries > 1
            \/ tries > 2 /\ \A d \in Cells : d > c => nbs[d] = 0
  /\ fault = "terminate" => cell < NumCells

\* "Wait for init" (BaseRadioSet.cc:75): the wait ends.
WaitEnds == mpc = "wait" ~> mpc # "wait"
=============================================================================
