-------------------------- MODULE RadioInitProofs --------------------------
(***************************************************************************)
(* Proofs about RadioInit for any number of cells, radios and tries: the   *)
(* counter covers the threads that have not counted down, whatever         *)
(* decrements are lost; the strip loop keeps the radios that were found;   *)
(* where radios can be missing when do_it runs.  And about Lifecycle: it   *)
(* implements RadioInit, and nothing is deleted under a thread that is     *)
(* joined.                                                                 *)
(***************************************************************************)
EXTENDS Lifecycle, FiniteSetTheorems, WellFoundedInduction, TLAPS

States == {"none", "work", "load", "store", "done"}
Places == {"cell", "spawn", "wait", "strip", "built", "running", "failed"}

\* Where the main thread is, and what it has.
ShapeInv ==
  /\ mpc \in Places /\ stage \in {"init", "configure"} /\ spawned \in Nat
  /\ at \in Nat \ {0} /\ cell \in 1 .. NumCells + 1
  /\ mpc \in {"spawn", "wait", "strip"} => cell \in Cells
  /\ nbs \in [Cells -> Nat] /\ \A c \in Cells : nbs[c] <= Configured[c]
  /\ radios \in [Cells -> Seq(Nat)]
  /\ \A c \in Cells : Len(radios[c]) <= Configured[c]
  /\ tpc \in [AllRadios -> States]
  /\ count \in Nat /\ seen \in [AllRadios -> Nat]

\* A thread that has loaded the count has seen at least the threads that are
\* not done, itself among them.
Covering ==
  /\ count >= Cardinality(Unfinished)
  /\ \A i \in Team : tpc[i] = "store" => seen[i] >= Cardinality(Unfinished)

\* Which threads of the stage have been started.
TeamInv ==
  /\ mpc \in {"spawn", "wait"} =>
       /\ \A i \in AllRadios \ Team : tpc[i] = "none"
       /\ \A i \in Team : i <= spawned <=> tpc[i] # "none"
       /\ mpc = "wait" => spawned = nbs[cell]
       /\ Covering
  /\ mpc \notin {"spawn", "wait"} => \A i \in AllRadios : tpc[i] \in {"none", "done"}

IInv == ShapeInv /\ TeamInv

LEMMA TeamFacts ==
  ASSUME ShapeInv, cell \in Cells
  PROVE  /\ Team \subseteq AllRadios /\ IsFiniteSet(Team) /\ Cardinality(Team) = nbs[cell]
         /\ IsFiniteSet(Unfinished) /\ Cardinality(Unfinished) \in Nat
         /\ nbs[cell] \in Nat
<1>1. nbs[cell] \in Nat /\ nbs[cell] <= Configured[cell] /\ Configured[cell] \in Nat
  BY InitAssumption DEF ShapeInv
<1>2. Team \subseteq Radios(cell)
  BY <1>1 DEF Team, Radios
<1>3. Team \subseteq AllRadios
  BY <1>2 DEF AllRadios
<1>4. IsFiniteSet(Team) /\ Cardinality(Team) = nbs[cell]
  <2>1. Team = 1 .. nbs[cell] /\ 1 \in Int /\ nbs[cell] \in Int
    BY <1>1 DEF Team
  <2>2. /\ IsFiniteSet(1 .. nbs[cell])
        /\ Cardinality(1 .. nbs[cell]) = IF 1 > nbs[cell] THEN 0 ELSE nbs[cell] - 1 + 1
    BY <2>1, FS_Interval
  <2>3. QED
    BY <1>1, <2>1, <2>2
<1>5. IsFiniteSet(Unfinished)
  BY <1>4, FS_Subset DEF Unfinished
<1>6. QED
  BY <1>1, <1>3, <1>4, <1>5, FS_CardinalityType

LEMMA InitInv == Init => IInv
<1> SUFFICES ASSUME Init PROVE IInv
  OBVIOUS
<1>1. ShapeInv
  BY InitAssumption DEF Init, ShapeInv, Cells, States, Places
<1>2. TeamInv
  BY DEF Init, TeamInv
<1>3. QED
  BY <1>1, <1>2 DEF IInv

LEMMA BeginCellStep ==
  ASSUME IInv, BeginCell
  PROVE  IInv'
<1>1. cell \in Cells /\ cell' = cell /\ nbs' = nbs /\ at' = at
  BY DEF BeginCell, IInv, ShapeInv, Cells
<1>2. nbs[cell] \in Nat /\ nbs[cell] <= Configured[cell] /\ Configured[cell] \in Nat
  BY <1>1, InitAssumption DEF IInv, ShapeInv
<1>3. /\ count' = nbs[cell] /\ spawned' = 0 /\ tpc' = [i \in AllRadios |-> "none"]
      /\ mpc' = "spawn" /\ stage' = "init" /\ seen' = seen
      /\ radios' = [radios EXCEPT ![cell] = [i \in Team |-> Missing]]
  BY <1>1 DEF BeginCell, StartStage
<1>4. [i \in Team |-> Missing] \in Seq(Nat) /\ Len([i \in Team |-> Missing]) = nbs[cell]
  BY <1>2 DEF Team, Missing
<1>5. radios' \in [Cells -> Seq(Nat)] /\ \A c \in Cells : Len(radios'[c]) <= Configured[c]
  BY <1>1, <1>2, <1>3, <1>4 DEF IInv, ShapeInv
<1>6. ShapeInv'
  BY <1>1, <1>2, <1>3, <1>5 DEF IInv, ShapeInv, Places, States
<1>7. Team' = Team /\ Unfinished' = Team
  BY <1>1, <1>3, TeamFacts DEF Team, Unfinished, IInv
<1>8. Covering'
  BY <1>1, <1>2, <1>3, <1>7, TeamFacts DEF Covering, IInv
<1>9. TeamInv'
  BY <1>2, <1>3, <1>7, <1>8, TeamFacts, <1>1 DEF TeamInv, IInv, Team
<1>10. QED
  BY <1>6, <1>9 DEF IInv

LEMMA SpawnStep ==
  ASSUME IInv, Spawn
  PROVE  IInv'
<1>1. /\ cell \in Cells /\ spawned \in Nat /\ spawned + 1 \in Team /\ mpc = "spawn"
      /\ spawned' = spawned + 1 /\ tpc' = [tpc EXCEPT ![spawned + 1] = "work"]
      /\ UNCHANGED <<mpc, stage, cell, nbs, radios, at, count, seen>>
  BY TeamFacts DEF Spawn, IInv, ShapeInv, Team
<1>2. spawned + 1 \in AllRadios /\ tpc[spawned + 1] = "none"
  BY <1>1, TeamFacts DEF IInv, ShapeInv, TeamInv, Team
<1>3. ShapeInv'
  BY <1>1, <1>2 DEF IInv, ShapeInv, States
<1>4. Team' = Team /\ Unfinished' = Unfinished
  BY <1>1, <1>2, TeamFacts DEF Team, Unfinished, IInv, ShapeInv
<1>5. Covering'
  BY <1>1, <1>2, <1>4, TeamFacts DEF Covering, IInv, ShapeInv, TeamInv
<1>6. \A i \in AllRadios \ Team : tpc'[i] = "none"
  BY <1>1 DEF IInv, TeamInv, ShapeInv
<1>7. \A i \in Team : i <= spawned' <=> tpc'[i] # "none"
  BY <1>1, <1>2, TeamFacts DEF IInv, TeamInv, ShapeInv, Team
<1>8. QED
  BY <1>1, <1>3, <1>4, <1>5, <1>6, <1>7 DEF IInv, TeamInv

LEMMA SpawnedStep ==
  ASSUME IInv, Spawned
  PROVE  IInv'
<1>1. /\ mpc = "spawn" /\ mpc' = "wait" /\ spawned = nbs[cell]
      /\ UNCHANGED <<stage, cell, nbs, radios, at, spawned, count, tpc, seen>>
  BY DEF Spawned
<1>2. ShapeInv'
  BY <1>1 DEF IInv, ShapeInv, Places
<1>3. Team' = Team /\ Unfinished' = Unfinished
  BY <1>1 DEF Team, Unfinished
<1>4. TeamInv'
  BY <1>1, <1>3 DEF IInv, TeamInv, Covering
<1>5. QED
  BY <1>2, <1>4 DEF IInv

\* The wait ends only when every thread is done.
LEMMA AllDone ==
  ASSUME IInv, mpc = "wait", count = 0
  PROVE  \A i \in AllRadios : tpc[i] \in {"none", "done"}
<1>1. cell \in Cells /\ Covering
  BY DEF IInv, ShapeInv, TeamInv
<1>2. Cardinality(Unfinished) = 0 /\ IsFiniteSet(Unfinished)
  BY <1>1, TeamFacts DEF Covering, IInv
<1>3. Unfinished = {}
  BY <1>2, FS_EmptySet
<1>4. \A i \in Team : tpc[i] = "done"
  BY <1>3 DEF Unfinished
<1>5. QED
  BY <1>4 DEF IInv, TeamInv

LEMMA WaitedStep ==
  ASSUME IInv, Waited
  PROVE  IInv'
<1>1. /\ cell \in Cells /\ mpc' \in {"strip", "cell"} /\ at' \in {1, at}
      /\ UNCHANGED <<stage, nbs, radios, spawned, count, tpc, seen>>
      /\ cell' = IF mpc' = "strip" THEN cell ELSE cell + 1
  BY DEF Waited, IInv, ShapeInv
<1>2. ShapeInv'
  BY <1>1, InitAssumption DEF IInv, ShapeInv, Places, Cells
<1>3. \A i \in AllRadios : tpc'[i] \in {"none", "done"}
  BY <1>1, AllDone DEF Waited
<1>4. QED
  BY <1>1, <1>2, <1>3 DEF IInv, TeamInv

\* A set of places that is not empty has a last one.
LEMMA LastPlaceExists ==
  ASSUME NEW n \in Nat, NEW F \in SUBSET (1 .. n), F # {}
  PROVE  \E k \in F : \A j \in F : j <= k
<1> DEFINE Below == {n - k : k \in F}
<1>1. Below \subseteq Nat /\ Below # {}
  <2>1. \A k \in F : n - k \in Nat
    OBVIOUS
  <2>2. QED
    BY <2>1
<1>2. PICK m \in Below : \A x \in Below : ~ (<<x, m>> \in OpToRel(<, Nat))
  BY <1>1, NatLessThanWellFounded, WFMin
<1>3. \A x \in Below : ~ (x < m)
  BY <1>1, <1>2 DEF OpToRel
<1>4. PICK k \in F : m = n - k
  BY <1>2
<1>5. \A j \in F : j <= k
  <2> SUFFICES ASSUME NEW j \in F PROVE j <= k
    OBVIOUS
  <2>1. ~ (n - j < n - k)
    BY <1>3, <1>4
  <2>2. j \in Nat /\ k \in Nat
    BY <1>4
  <2>3. QED
    BY <2>1, <2>2
<1>6. QED
  BY <1>4, <1>5

LEMMA LastFoundFits ==
  ASSUME NEW s \in Seq(Nat)
  PROVE  LastFound(s) \in 0 .. Len(s)
<1>1. CASE \A k \in DOMAIN s : s[k] = Missing
  BY <1>1 DEF LastFound
<1>2. CASE ~ \A k \in DOMAIN s : s[k] = Missing
  <2> DEFINE F == {k \in DOMAIN s : s[k] # Missing}
  <2>1. F # {} /\ F \subseteq 1 .. Len(s) /\ Len(s) \in Nat
    BY <1>2
  <2>2. \E k \in F : \A j \in F : j <= k
    BY <2>1, LastPlaceExists
  <2>3. \E k \in DOMAIN s : s[k] # Missing /\ \A j \in DOMAIN s : s[j] # Missing => j <= k
    BY <2>2
  <2>4. LastFound(s) \in DOMAIN s
    BY <1>2, <2>3 DEF LastFound
  <2>5. QED
    BY <2>4
<1>3. QED
  BY <1>1, <1>2

LEMMA NatsAreSeq ==
  ASSUME NEW n \in Nat, NEW f \in [1 .. n -> Nat]
  PROVE  f \in Seq(Nat) /\ Len(f) = n
OBVIOUS

\* The sequence with its last element moved to place a.
Moved(s, a) == [i \in 1 .. Len(s) - 1 |-> IF i = a THEN s[Len(s)] ELSE s[i]]

LEMMA MovedIsShorter ==
  ASSUME NEW s \in Seq(Nat), NEW a \in Nat \ {0}, a <= Len(s)
  PROVE  Moved(s, a) \in Seq(Nat) /\ Len(Moved(s, a)) <= Len(s)
<1>1. Len(s) - 1 \in Nat /\ s[Len(s)] \in Nat /\ \A i \in 1 .. Len(s) - 1 : s[i] \in Nat
  <2>1. Len(s) \in Nat /\ Len(s) # 0
    OBVIOUS
  <2>2. \A i \in 1 .. Len(s) : s[i] \in Nat
    OBVIOUS
  <2>3. QED
    BY <2>1, <2>2
<1>2. Moved(s, a) \in [1 .. Len(s) - 1 -> Nat]
  BY <1>1 DEF Moved
<1>3. Moved(s, a) \in Seq(Nat) /\ Len(Moved(s, a)) = Len(s) - 1
  BY <1>1, <1>2, NatsAreSeq
<1>4. QED
  BY <1>1, <1>3

\* The sequence up to its last radio.
Found(s) == SubSeq(s, 1, LastFound(s))

LEMMA FoundIsShorter ==
  ASSUME NEW s \in Seq(Nat)
  PROVE  Found(s) \in Seq(Nat) /\ Len(Found(s)) <= Len(s)
  BY LastFoundFits DEF Found

LEMMA ReplaceKeepsLen ==
  ASSUME NEW s \in Seq(Nat), NEW i \in Nat
  PROVE  [s EXCEPT ![i] = i] \in Seq(Nat) /\ Len([s EXCEPT ![i] = i]) = Len(s)
<1>1. Len(s) \in Nat /\ s \in [1 .. Len(s) -> Nat]
  OBVIOUS
<1>2. [s EXCEPT ![i] = i] \in [1 .. Len(s) -> Nat]
  BY <1>1
<1>3. QED
  BY <1>1, <1>2, NatsAreSeq

LEMMA StripStep ==
  ASSUME IInv, Strip
  PROVE  IInv'
<1>1. /\ cell \in Cells /\ mpc = "strip" /\ at' = at + 1 /\ at \in Nat \ {0}
      /\ UNCHANGED <<mpc, stage, cell, nbs, spawned, count, tpc, seen>>
  BY DEF Strip, IInv, ShapeInv
<1>2. radios[cell] \in Seq(Nat)
  BY <1>1 DEF IInv, ShapeInv
<1>3. Found(radios[cell]) \in Seq(Nat) /\ Len(Found(radios[cell])) <= Len(radios[cell])
  BY <1>2, FoundIsShorter
<1>4. ASSUME at <= Len(Found(radios[cell]))
      PROVE  /\ Moved(Found(radios[cell]), at) \in Seq(Nat)
             /\ Len(Moved(Found(radios[cell]), at)) <= Len(radios[cell])
  <2>1. /\ Moved(Found(radios[cell]), at) \in Seq(Nat)
        /\ Len(Moved(Found(radios[cell]), at)) <= Len(Found(radios[cell]))
    BY <1>1, <1>3, <1>4, MovedIsShorter
  <2>2. QED
    BY <1>2, <1>3, <2>1
<1>5. \/ radios' = radios
      \/ /\ at <= Len(Found(radios[cell]))
         /\ radios' = [radios EXCEPT ![cell] = Moved(Found(radios[cell]), at)]
      \/ radios' = [radios EXCEPT ![cell] = Found(radios[cell])]
  BY DEF Strip, Found, Moved
<1>6. radios' \in [Cells -> Seq(Nat)] /\ \A c \in Cells : Len(radios'[c]) <= Configured[c]
  <2>1. CASE radios' = radios
    BY <2>1 DEF IInv, ShapeInv
  <2>2. ASSUME NEW u \in Seq(Nat), Len(u) <= Len(radios[cell]), radios' = [radios EXCEPT ![cell] = u]
        PROVE  radios' \in [Cells -> Seq(Nat)]
               /\ \A c \in Cells : Len(radios'[c]) <= Configured[c]
    <3>1. Len(radios[cell]) <= Configured[cell] /\ Len(radios[cell]) \in Nat /\ Configured[cell] \in Nat
      BY <1>1, <1>2, InitAssumption DEF IInv, ShapeInv
    <3>2. Len(u) <= Configured[cell]
      BY <2>2, <3>1
    <3>3. QED
      BY <1>1, <2>2, <3>2 DEF IInv, ShapeInv
  <2>3. QED
    BY <1>3, <1>4, <1>5, <2>1, <2>2
<1>7. ShapeInv'
  BY <1>1, <1>6 DEF IInv, ShapeInv
<1>8. TeamInv'
  BY <1>1 DEF IInv, TeamInv
<1>9. QED
  BY <1>7, <1>8 DEF IInv

LEMMA StrippedStep ==
  ASSUME IInv, Stripped
  PROVE  IInv'
<1> DEFINE n == Len(radios[cell])
<1>1. /\ cell \in Cells /\ mpc = "strip" /\ nbs' = [nbs EXCEPT ![cell] = n]
      /\ UNCHANGED <<cell, radios, at, seen>>
  BY DEF Stripped, IInv, ShapeInv
<1>2. n \in Nat /\ n <= Configured[cell] /\ Configured[cell] \in Nat
  <2>1. radios[cell] \in Seq(Nat) /\ n <= Configured[cell]
    BY <1>1 DEF IInv, ShapeInv
  <2>2. QED
    BY <1>1, <2>1, InitAssumption
<1>3. nbs' \in [Cells -> Nat] /\ (\A c \in Cells : nbs'[c] <= Configured[c]) /\ nbs'[cell] = n
  BY <1>1, <1>2 DEF IInv, ShapeInv
<1>4. CASE notFound
  <2>1. mpc' = "built" /\ UNCHANGED <<stage, count, spawned, tpc>>
    BY <1>4 DEF Stripped
  <2>2. ShapeInv'
    BY <1>1, <1>3, <2>1 DEF IInv, ShapeInv, Places
  <2>3. TeamInv'
    BY <1>1, <2>1 DEF IInv, TeamInv
  <2>4. QED
    BY <2>2, <2>3 DEF IInv
<1>5. CASE ~notFound
  <2>1. /\ stage' = "configure" /\ count' = n /\ spawned' = 0
        /\ tpc' = [i \in AllRadios |-> "none"] /\ mpc' = "spawn"
    BY <1>3, <1>5 DEF Stripped, StartStage
  <2>2. ShapeInv'
    BY <1>1, <1>2, <1>3, <2>1 DEF IInv, ShapeInv, Places, States
  <2>3. Team' = 1 .. n /\ 1 .. n \subseteq AllRadios
    <3>1. 1 .. n \subseteq Radios(cell)
      BY <1>2 DEF Radios
    <3>2. QED
      BY <1>1, <1>3, <3>1 DEF Team, AllRadios
  <2>4. Unfinished' = 1 .. n
    BY <2>1, <2>3 DEF Unfinished
  <2>5. Cardinality(1 .. n) = n
    <3>1. Cardinality(1 .. n) = IF 1 > n THEN 0 ELSE n - 1 + 1
      <4>1. 1 \in Int /\ n \in Int
        BY <1>2
      <4>2. QED
        BY <4>1, FS_Interval
    <3>2. QED
      BY <1>2, <3>1
  <2>6. Covering'
    BY <1>2, <2>1, <2>3, <2>4, <2>5 DEF Covering
  <2>7. TeamInv'
    BY <2>1, <2>3, <2>6 DEF TeamInv
  <2>8. QED
    BY <2>2, <2>7 DEF IInv
<1>6. QED
  BY <1>4, <1>5

\* Where no thread works, the main thread goes on without them.
LEMMA OtherMainStep ==
  ASSUME IInv, Built \/ GiveUp
  PROVE  IInv'
<1>1. /\ mpc \in {"cell", "built"} /\ mpc' \in {"running", "built", "failed", "cell"}
      /\ UNCHANGED <<stage, nbs, at, spawned, count, tpc, seen>>
      /\ cell' \in {cell, 1}
      /\ radios' \in {radios, [c \in Cells |-> <<>>]}
  BY DEF Built, GiveUp
<1>2. ShapeInv'
  <2>1. cell' \in 1 .. NumCells + 1
    BY <1>1, InitAssumption DEF IInv, ShapeInv
  <2>2. radios' \in [Cells -> Seq(Nat)] /\ \A c \in Cells : Len(radios'[c]) <= Configured[c]
    <3>1. CASE radios' = radios
      BY <3>1 DEF IInv, ShapeInv
    <3>2. CASE radios' = [c \in Cells |-> <<>>]
      <4>1. <<>> \in Seq(Nat) /\ Len(<<>>) = 0
        OBVIOUS
      <4>2. \A c \in Cells : 0 <= Configured[c]
        BY InitAssumption
      <4>3. QED
        BY <3>2, <4>1, <4>2
    <3>3. QED
      BY <1>1, <3>1, <3>2
  <2>3. QED
    BY <1>1, <2>1, <2>2 DEF IInv, ShapeInv, Places
<1>3. TeamInv'
  BY <1>1 DEF IInv, TeamInv
<1>4. QED
  BY <1>2, <1>3 DEF IInv

\* A thread that runs is one of the team of a stage that is not over.
LEMMA Running ==
  ASSUME IInv, NEW i \in AllRadios, tpc[i] \in {"work", "load", "store"}
  PROVE  /\ mpc \in {"spawn", "wait"} /\ cell \in Cells /\ i \in Team /\ i \in Unfinished
         /\ Covering /\ i <= spawned
BY DEF IInv, ShapeInv, TeamInv, Unfinished

LEMMA ThreadStep ==
  ASSUME IInv, NEW i \in AllRadios, Thread(i)
  PROVE  IInv'
<1>1. PICK to \in States \ {"none"} : tpc' = [tpc EXCEPT ![i] = to]
  BY DEF Thread, Work, Load, Store, ThreadAt, States
<1>2. /\ UNCHANGED <<mpc, stage, cell, nbs, at, spawned>>
      /\ tpc[i] \in {"work", "load", "store"}
  BY DEF Thread, Work, Load, Store, ThreadAt, mainVars
<1>3. /\ mpc \in {"spawn", "wait"} /\ cell \in Cells /\ i \in Team /\ i \in Unfinished
      /\ Covering /\ i <= spawned
  BY <1>2, Running
<1>4. IsFiniteSet(Unfinished) /\ Cardinality(Unfinished) \in Nat /\ Team \subseteq AllRadios
  BY <1>3, TeamFacts DEF IInv
<1>5. tpc \in [AllRadios -> States] /\ count \in Nat /\ seen \in [AllRadios -> Nat]
  BY DEF IInv, ShapeInv
<1>6. /\ tpc' \in [AllRadios -> States] /\ Team' = Team
      /\ \A j \in AllRadios \ Team : tpc'[j] = "none"
      /\ \A j \in Team : j <= spawned' <=> tpc'[j] # "none"
      /\ mpc' = "wait" => spawned' = nbs'[cell']
  BY <1>1, <1>2, <1>3, <1>4, <1>5 DEF IInv, TeamInv, Team
<1>7. Cardinality(Unfinished) # 0
  BY <1>3, <1>4, FS_EmptySet
<1>8. /\ count' \in Nat /\ seen' \in [AllRadios -> Nat] /\ Covering'
  <2>1. CASE Work(i)
    <3>1. tpc' = [tpc EXCEPT ![i] = "load"] /\ UNCHANGED <<count, seen>> /\ tpc[i] = "work"
      BY <2>1 DEF Work, ThreadAt
    <3>2. Unfinished' = Unfinished
      BY <1>3, <1>4, <1>5, <1>6, <3>1 DEF Unfinished
    <3>3. QED
      BY <1>3, <1>4, <1>5, <1>6, <3>1, <3>2 DEF Covering
  <2>2. CASE Load(i)
    <3>1. /\ tpc' = [tpc EXCEPT ![i] = "store"] /\ tpc[i] = "load"
          /\ seen' = [seen EXCEPT ![i] = count] /\ count' = count
      BY <2>2 DEF Load, ThreadAt
    <3>2. Unfinished' = Unfinished
      BY <1>3, <1>4, <1>5, <1>6, <3>1 DEF Unfinished
    <3>3. QED
      BY <1>3, <1>4, <1>5, <1>6, <3>1, <3>2 DEF Covering
  <2>3. CASE Store(i)
    <3>1. /\ tpc' = [tpc EXCEPT ![i] = "done"] /\ tpc[i] = "store"
          /\ count' = seen[i] - 1 /\ seen' = seen
      BY <2>3 DEF Store, ThreadAt
    <3>2. Unfinished' = Unfinished \ {i}
      BY <1>3, <1>4, <1>5, <1>6, <3>1 DEF Unfinished
    <3>3. Cardinality(Unfinished') = Cardinality(Unfinished) - 1
      BY <1>3, <1>4, <3>2, FS_RemoveElement
    <3>4. seen[i] >= Cardinality(Unfinished) /\ seen[i] \in Nat
      BY <1>3, <1>5, <3>1 DEF Covering
    <3>5. count' \in Nat /\ count' >= Cardinality(Unfinished')
      BY <1>4, <1>7, <3>1, <3>3, <3>4
    <3>6. \A j \in Team' : tpc'[j] = "store" => seen'[j] >= Cardinality(Unfinished')
      <4> SUFFICES ASSUME NEW j \in Team, tpc'[j] = "store"
                   PROVE  seen[j] >= Cardinality(Unfinished')
        BY <1>6, <3>1
      <4>1. tpc[j] = "store" /\ seen[j] \in Nat
        BY <1>4, <1>5, <3>1
      <4>2. seen[j] >= Cardinality(Unfinished)
        BY <1>3, <4>1 DEF Covering
      <4>3. QED
        BY <1>4, <3>3, <4>1, <4>2
    <3>7. QED
      BY <1>5, <3>1, <3>5, <3>6 DEF Covering
  <2>4. QED
    BY <2>1, <2>2, <2>3 DEF Thread
<1>9. radios' \in [Cells -> Seq(Nat)] /\ \A c \in Cells : Len(radios'[c]) <= Configured[c]
  <2>1. CASE radios' = radios
    BY <2>1 DEF IInv, ShapeInv
  <2>2. CASE radios' = [radios EXCEPT ![cell][i] = i]
    <3>1. radios[cell] \in Seq(Nat) /\ i \in Nat
      BY <1>3 DEF IInv, ShapeInv, Team
    <3>2. /\ [radios[cell] EXCEPT ![i] = i] \in Seq(Nat)
          /\ Len([radios[cell] EXCEPT ![i] = i]) = Len(radios[cell])
      BY <3>1, ReplaceKeepsLen
    <3>3. QED
      BY <1>3, <2>2, <3>2 DEF IInv, ShapeInv
  <2>3. QED
    BY <2>1, <2>2 DEF Thread, Work, Load, Store
<1>10. ShapeInv'
  BY <1>2, <1>6, <1>8, <1>9 DEF IInv, ShapeInv
<1>11. TeamInv'
  BY <1>2, <1>3, <1>6, <1>8 DEF TeamInv
<1>12. QED
  BY <1>10, <1>11 DEF IInv

LEMMA Step == IInv /\ [Next]_vars => IInv'
<1> SUFFICES ASSUME IInv, [Next]_vars PROVE IInv'
  OBVIOUS
<1>1. CASE Main
  BY <1>1, BeginCellStep, SpawnStep, SpawnedStep, WaitedStep, StripStep, StrippedStep,
     OtherMainStep DEF Main
<1>2. ASSUME NEW i \in AllRadios, Thread(i) PROVE IInv'
  BY <1>2, ThreadStep
<1>3. CASE UNCHANGED vars
  BY <1>3 DEF vars, mainVars, IInv, ShapeInv, TeamInv, Covering, Unfinished, Team
<1>4. QED
  BY <1>1, <1>2, <1>3 DEF Next

THEOREM Inductive == Spec => []IInv
  BY InitInv, Step, PTL DEF Spec

\* The constructor never goes on before its threads have, and a thread never
\* finds the count at zero (BaseRadioSet.cc:75-77, 388-389).
THEOREM ConstructorWaits == Spec => []StartsCovered
<1>1. IInv => StartsCovered
  <2> SUFFICES ASSUME IInv PROVE StartsCovered
    OBVIOUS
  <2>1. CASE mpc \in {"spawn", "wait"}
    <3>1. cell \in Cells /\ Covering /\ count \in Nat
      BY <2>1 DEF IInv, ShapeInv, TeamInv
    <3>2. IsFiniteSet(Unfinished) /\ Cardinality(Unfinished) \in Nat
      BY <3>1, TeamFacts DEF IInv
    <3>3. ASSUME NEW i \in Team, tpc[i] = "load" PROVE count # 0
      <4>1. i \in Unfinished
        BY <3>3 DEF Unfinished
      <4>2. Cardinality(Unfinished) # 0
        BY <3>2, <4>1, FS_EmptySet
      <4>3. QED
        BY <3>1, <3>2, <4>2 DEF Covering
    <3>4. QED
      BY <2>1, <3>1, <3>3 DEF StartsCovered, Covering
  <2>2. CASE mpc \notin {"spawn", "wait"}
    BY <2>2 DEF IInv, TeamInv, StartsCovered
  <2>3. QED
    BY <2>1, <2>2
<1>2. QED
  BY <1>1, Inductive, PTL
-----------------------------------------------------------------------------
(* The radios of a cell *)

\* Before the strip loop: every radio at its own place, the others missing.
AsMade(s, n, F) ==
  /\ F \subseteq 1 .. n
  /\ s = [i \in 1 .. n |-> IF i \in F THEN i ELSE Missing]

\* In it: the radios that were discovered, each at one place, and none missing
\* before place a.
Sifted(s, a, F) ==
  /\ \A k \in 1 .. Len(s) : s[k] # Missing => s[k] \in F
  /\ \A i \in F : i \in Nat \ {0} /\ \E k \in 1 .. Len(s) : s[k] = i
  /\ \A j, k \in 1 .. Len(s) : s[j] # Missing /\ s[j] = s[k] => j = k
  /\ \A k \in 1 .. Len(s) : k < a => s[k] # Missing

\* While none is known to be missing: no radio has moved.
InPlace(s, a, n) ==
  /\ Len(s) = n
  /\ \A k \in 1 .. n : s[k] \in {Missing, k}
  /\ \A k \in 1 .. n : k < a => s[k] # Missing

Whole(n) == [k \in 1 .. n |-> k]

Making      == mpc \in {"spawn", "wait"} /\ stage = "init"
Configuring == mpc \in {"spawn", "wait"} /\ stage = "configure"

\* What the constructor has found in the cell it is at.
FoundInv ==
  /\ Making => AsMade(radios[cell], nbs[cell], found[cell])
  /\ mpc = "strip" => Sifted(radios[cell], at, found[cell])
  /\ Configuring \/ mpc = "built" =>
       Sifted(radios[cell], Len(radios[cell]) + 1, found[cell])
  /\ mpc = "built" => cell \in Cells
  /\ \A c \in Cells : c > cell \/ (c = cell /\ mpc = "cell") => found[c] = {}
  /\ found \in [Cells -> SUBSET Nat]

\* The cells before it are complete, those after it have no radios.
CellsInv ==
  /\ mpc # "failed" => \A c \in Cells : c < cell => radios[c] = Whole(nbs[c])
  /\ \A c \in Cells : c > cell \/ (c = cell /\ mpc = "cell") => radios[c] = <<>>
  /\ mpc = "strip" => /\ Len(radios[cell]) <= nbs[cell]
                      /\ notFound \/ InPlace(radios[cell], at, nbs[cell])
  /\ Configuring => radios[cell] = Whole(nbs[cell])
  /\ mpc = "built" => nbs[cell] = Len(radios[cell])
  /\ mpc = "running" => cell > NumCells
  /\ fault = "terminate" => mpc = "built" /\ cell < NumCells

\* A cell that may have fewer radios than at first, and when.
MayLack(c) ==
  \/ c = NumCells /\ tries > 1
  \/ tries > 2 /\ \A d \in Cells : d > c => nbs[d] = 0

ConfigInv ==
  /\ tries \in Nat \ {0}
  /\ mpc # "failed" =>
       \A c \in Cells : \/ nbs[c] = Configured[c]
                        \/ MayLack(c)
                        \/ mpc = "built" /\ c = cell

LEMMA SiftedIsExact ==
  ASSUME NEW s \in Seq(Nat), NEW F \in SUBSET Nat, Sifted(s, Len(s) + 1, F)
  PROVE  {s[k] : k \in DOMAIN s} = F /\ Len(s) = Cardinality(F)
<1> DEFINE n == Len(s)
           g == [k \in 1 .. n |-> s[k]]
<1>1. n \in Nat /\ DOMAIN s = 1 .. n
  OBVIOUS
<1>2. \A k \in 1 .. n : s[k] # Missing /\ s[k] \in F
  <2>1. \A k \in 1 .. n : k < n + 1
    BY <1>1
  <2>2. QED
    BY <2>1 DEF Sifted
<1>3. \A i \in F : \E k \in 1 .. n : s[k] = i
  BY DEF Sifted
<1>4. \A j, k \in 1 .. n : s[j] = s[k] => j = k
  BY <1>2 DEF Sifted
<1>5. {s[k] : k \in DOMAIN s} = F
  BY <1>1, <1>2, <1>3
<1>6. g \in Bijection(1 .. n, F)
  <2>1. g \in [1 .. n -> F]
    BY <1>2
  <2>2. \A j, k \in 1 .. n : g[j] = g[k] => j = k
    BY <1>4
  <2>3. \A i \in F : \E k \in 1 .. n : g[k] = i
    BY <1>3
  <2> HIDE DEF g, n
  <2>4. QED
    BY <2>1, <2>2, <2>3 DEF Bijection, Injection, Surjection, IsInjective
<1>7. IsFiniteSet(1 .. n) /\ Cardinality(1 .. n) = n
  <2>1. 1 \in Int /\ n \in Int
    BY <1>1
  <2>2. /\ IsFiniteSet(1 .. n)
        /\ Cardinality(1 .. n) = IF 1 > n THEN 0 ELSE n - 1 + 1
    BY <2>1, FS_Interval
  <2>3. QED
    BY <1>1, <2>2
<1>8. Cardinality(F) = n
  BY <1>6, <1>7, FS_Bijection DEF ExistsBijection
<1>9. QED
  BY <1>5, <1>8

\* The last place that is not missing.
LEMMA LastFoundIs ==
  ASSUME NEW s \in Seq(Nat)
  PROVE  /\ LastFound(s) \in 0 .. Len(s)
         /\ \A k \in 1 .. Len(s) : s[k] # Missing => k <= LastFound(s)
         /\ LastFound(s) # 0 => s[LastFound(s)] # Missing
<1>1. CASE \A k \in DOMAIN s : s[k] = Missing
  BY <1>1 DEF LastFound
<1>2. CASE ~ \A k \in DOMAIN s : s[k] = Missing
  <2> DEFINE F == {k \in DOMAIN s : s[k] # Missing}
             Last(k) == s[k] # Missing /\ \A j \in DOMAIN s : s[j] # Missing => j <= k
  <2>1. F # {} /\ F \subseteq 1 .. Len(s) /\ Len(s) \in Nat
    BY <1>2
  <2>2. \E k \in F : \A j \in F : j <= k
    BY <2>1, LastPlaceExists
  <2>3. \E k \in DOMAIN s : Last(k)
    BY <2>2
  <2>4. LastFound(s) = CHOOSE k \in DOMAIN s : Last(k)
    BY <1>2 DEF LastFound
  <2> HIDE DEF Last
  <2>5. LastFound(s) \in DOMAIN s /\ Last(LastFound(s))
    BY <2>3, <2>4
  <2>6. QED
    BY <2>5 DEF Last
<1>3. QED
  BY <1>1, <1>2

\* Leaving out the missing radios at the end keeps the others.
LEMMA FoundIsSifted ==
  ASSUME NEW s \in Seq(Nat), NEW F, NEW a \in Nat \ {0}, Sifted(s, a, F)
  PROVE  /\ Found(s) \in Seq(Nat) /\ Sifted(Found(s), a, F)
         /\ Len(Found(s)) # 0 => Found(s)[Len(Found(s))] # Missing
<1> DEFINE n == LastFound(s)
<1>1. /\ n \in 0 .. Len(s) /\ Len(s) \in Nat
      /\ \A k \in 1 .. Len(s) : s[k] # Missing => k <= n
      /\ n # 0 => s[n] # Missing
  BY LastFoundIs
<1>2. Found(s) \in Seq(Nat) /\ Len(Found(s)) = n /\ \A k \in 1 .. n : Found(s)[k] = s[k]
  BY <1>1 DEF Found
<1> HIDE DEF n
<1>3. 1 .. n \subseteq 1 .. Len(s)
  BY <1>1
<1>4. \A k \in 1 .. n : Found(s)[k] # Missing => Found(s)[k] \in F
  BY <1>2, <1>3 DEF Sifted
<1>5. ASSUME NEW i \in F PROVE i \in Nat \ {0} /\ \E k \in 1 .. n : Found(s)[k] = i
  <2>1. i \in Nat \ {0} /\ \E k \in 1 .. Len(s) : s[k] = i
    BY DEF Sifted
  <2>2. PICK k \in 1 .. Len(s) : s[k] = i
    BY <2>1
  <2>3. k <= n
    BY <1>1, <2>1, <2>2 DEF Missing
  <2>4. k \in 1 .. n
    BY <1>1, <2>2, <2>3
  <2>5. QED
    BY <1>2, <2>1, <2>2, <2>4
<1>6. \A j, k \in 1 .. n : Found(s)[j] # Missing /\ Found(s)[j] = Found(s)[k] => j = k
  BY <1>2, <1>3 DEF Sifted
<1>7. \A k \in 1 .. n : k < a => Found(s)[k] # Missing
  BY <1>2, <1>3 DEF Sifted
<1>8. n # 0 => Found(s)[n] # Missing
  <2>1. n # 0 => n \in 1 .. n
    BY <1>1
  <2>2. QED
    BY <1>1, <1>2, <2>1
<1>9. QED
  BY <1>2, <1>4, <1>5, <1>6, <1>7, <1>8 DEF Sifted

\* A gap is filled with the last radio, which is not missing.
LEMMA MovedIsSifted ==
  ASSUME NEW s \in Seq(Nat), NEW F, NEW a \in 1 .. Len(s), Sifted(s, a, F),
         s[a] = Missing, s[Len(s)] # Missing
  PROVE  Sifted(Moved(s, a), a + 1, F) /\ Moved(s, a) \in Seq(Nat)
<1> DEFINE n == Len(s)
           t == Moved(s, a)
<1>1. n \in Nat \ {0} /\ a \in Nat \ {0} /\ a < n /\ n \in 1 .. n
  BY DEF Missing
<1>2. \A k \in 1 .. n : s[k] \in Nat
  OBVIOUS
<1>3. t = [i \in 1 .. n - 1 |-> IF i = a THEN s[n] ELSE s[i]]
  BY DEF Moved
<1>4. n - 1 \in Nat /\ \A i \in 1 .. n - 1 : i \in 1 .. n /\ i # n
  BY <1>1
<1>5. t \in [1 .. n - 1 -> Nat]
  BY <1>1, <1>2, <1>3, <1>4
<1>6. t \in Seq(Nat) /\ Len(t) = n - 1
  BY <1>4, <1>5, NatsAreSeq
<1>7. \A k \in 1 .. n : s[k] # Missing => s[k] \in F
  BY DEF Sifted
<1>8. \A i \in F : i \in Nat \ {0} /\ \E k \in 1 .. n : s[k] = i
  BY DEF Sifted
<1>9. \A j, k \in 1 .. n : s[j] # Missing /\ s[j] = s[k] => j = k
  BY DEF Sifted
<1>10. \A k \in 1 .. n : k < a => s[k] # Missing
  BY DEF Sifted
<1>11. \A k \in 1 .. n - 1 : t[k] = IF k = a THEN s[n] ELSE s[k]
  BY <1>3
<1>12. s[a] = Missing /\ s[n] # Missing /\ a \in 1 .. n
  OBVIOUS
<1> HIDE DEF n, t
<1>13. \A k \in 1 .. n - 1 : t[k] # Missing => t[k] \in F
  BY <1>1, <1>4, <1>7, <1>11, <1>12
<1>14. ASSUME NEW i \in F PROVE i \in Nat \ {0} /\ \E k \in 1 .. n - 1 : t[k] = i
  <2>1. PICK k \in 1 .. n : s[k] = i
    BY <1>8
  <2>2. i \in Nat \ {0} /\ k # a
    BY <1>8, <1>12, <2>1 DEF Missing
  <2>3. CASE k = n
    <3>1. a \in 1 .. n - 1 /\ t[a] = i
      BY <1>1, <1>11, <2>1, <2>3
    <3>2. QED
      BY <2>2, <3>1
  <2>4. CASE k # n
    <3>1. k \in 1 .. n - 1 /\ t[k] = i
      BY <1>1, <1>11, <2>1, <2>2, <2>4
    <3>2. QED
      BY <2>2, <3>1
  <2>5. QED
    BY <2>3, <2>4
<1>15. ASSUME NEW j \in 1 .. n - 1, NEW k \in 1 .. n - 1, t[j] # Missing, t[j] = t[k]
       PROVE  j = k
  <2>1. j \in 1 .. n /\ k \in 1 .. n /\ j # n /\ k # n
    BY <1>4
  <2>2. t[j] = (IF j = a THEN s[n] ELSE s[j]) /\ t[k] = (IF k = a THEN s[n] ELSE s[k])
    BY <1>11
  <2>3. CASE j = a
    BY <1>1, <1>9, <1>15, <2>1, <2>2, <2>3
  <2>4. CASE j # a
    BY <1>1, <1>9, <1>15, <2>1, <2>2, <2>4
  <2>5. QED
    BY <2>3, <2>4
<1>16. ASSUME NEW k \in 1 .. n - 1, k < a + 1 PROVE t[k] # Missing
  <2>1. k = a \/ k < a
    BY <1>1, <1>16
  <2>2. QED
    BY <1>4, <1>10, <1>11, <1>12, <2>1
<1>17. Sifted(t, a + 1, F)
  BY <1>6, <1>13, <1>14, <1>15, <1>16 DEF Sifted
<1>18. QED
  BY <1>6, <1>17 DEF t

LEMMA MadeIsSifted ==
  ASSUME NEW n \in Nat, NEW F, NEW s, AsMade(s, n, F)
  PROVE  Sifted(s, 1, F) /\ InPlace(s, 1, n)
<1>1. F \subseteq 1 .. n /\ s = [i \in 1 .. n |-> IF i \in F THEN i ELSE 0]
  BY DEF AsMade, Missing
<1>2. s \in [1 .. n -> Nat]
  BY <1>1
<1>3. s \in Seq(Nat) /\ Len(s) = n
  BY <1>2, NatsAreSeq
<1>4. \A k \in 1 .. n : s[k] = (IF k \in F THEN k ELSE 0) /\ k # 0
  BY <1>1
<1>5. \A i \in F : i \in Nat \ {0} /\ i \in 1 .. n /\ s[i] = i
  BY <1>1, <1>4
<1> HIDE <1>1
<1>6. \A k \in 1 .. n : s[k] # 0 => s[k] \in F /\ s[k] = k
  BY <1>4
<1>7. \A k \in 1 .. n : ~(k < 1)
  OBVIOUS
<1>8. Sifted(s, 1, F)
  BY <1>3, <1>5, <1>6, <1>7 DEF Sifted, Missing
<1>9. InPlace(s, 1, n)
  BY <1>3, <1>4, <1>7 DEF InPlace, Missing
<1>10. QED
  BY <1>8, <1>9

\* A radio that is made takes its own place.
LEMMA OneMoreMade ==
  ASSUME NEW n \in Nat, NEW F, NEW s, AsMade(s, n, F), NEW i \in 1 .. n
  PROVE  AsMade([s EXCEPT ![i] = i], n, F \cup {i})
BY DEF AsMade

\* At the end of the strip loop no place is missing.
LEMMA SiftedToTheEnd ==
  ASSUME NEW s \in Seq(Nat), NEW a \in Nat, a > Len(s), NEW F, Sifted(s, a, F)
  PROVE  Sifted(s, Len(s) + 1, F)
<1>1. \A k \in 1 .. Len(s) : k < a
  OBVIOUS
<1>2. QED
  BY <1>1 DEF Sifted

LEMMA FoundInit == Init => FoundInv
  BY InitAssumption DEF Init, FoundInv, Making, Configuring, Cells

LEMMA FoundBeginCell ==
  ASSUME IInv, FoundInv, BeginCell
  PROVE  FoundInv'
<1>1. cell \in Cells /\ nbs[cell] \in Nat /\ mpc = "cell"
  BY DEF BeginCell, IInv, ShapeInv, Cells
<1>2. /\ nbs' = nbs /\ cell' = cell /\ found' = found /\ mpc' = "spawn" /\ stage' = "init"
      /\ radios' = [radios EXCEPT ![cell] = [i \in Team |-> Missing]]
  BY DEF BeginCell, StartStage
<1>3. radios'[cell] = [i \in 1 .. nbs[cell] |-> Missing]
  BY <1>1, <1>2 DEF Team, IInv, ShapeInv
<1>4. found[cell] = {}
  BY <1>1 DEF FoundInv
<1>5. AsMade(radios'[cell], nbs[cell], found[cell])
  BY <1>3, <1>4 DEF AsMade
<1>6. QED
  BY <1>1, <1>2, <1>5 DEF FoundInv, Making, Configuring

LEMMA FoundSpawning ==
  ASSUME FoundInv, Spawn \/ Spawned
  PROVE  FoundInv'
<1>1. /\ mpc = "spawn" /\ mpc' \in {"spawn", "wait"}
      /\ UNCHANGED <<stage, cell, nbs, radios, found>>
  BY DEF Spawn, Spawned
<1>2. QED
  BY <1>1 DEF FoundInv, Making, Configuring

LEMMA FoundWaited ==
  ASSUME IInv, FoundInv, Waited
  PROVE  FoundInv'
<1>1. /\ cell \in Cells /\ nbs[cell] \in Nat /\ mpc = "wait"
      /\ UNCHANGED <<stage, nbs, radios, found>>
  BY DEF Waited, IInv, ShapeInv
<1>2. CASE stage = "init"
  <2>1. mpc' = "strip" /\ at' = 1 /\ cell' = cell
    BY <1>2 DEF Waited
  <2>2. AsMade(radios[cell], nbs[cell], found[cell])
    BY <1>1, <1>2 DEF FoundInv, Making
  <2>3. Sifted(radios[cell], 1, found[cell])
    BY <1>1, <2>2, MadeIsSifted
  <2>4. QED
    BY <1>1, <2>1, <2>3 DEF FoundInv, Making, Configuring
<1>3. CASE stage # "init"
  <2>1. mpc' = "cell" /\ cell' = cell + 1
    BY <1>3 DEF Waited
  <2>2. \A c \in Cells : c >= cell + 1 => c > cell
    BY <1>1, InitAssumption DEF Cells
  <2>3. \A c \in Cells : c > cell + 1 \/ c = cell + 1 => found[c] = {}
    BY <1>1, <2>2, InitAssumption DEF FoundInv, Cells
  <2>4. QED
    BY <1>1, <2>1, <2>3 DEF FoundInv, Making, Configuring
<1>4. QED
  BY <1>2, <1>3

\* What one turn of the strip loop does to the cell.
LEMMA StripCases ==
  ASSUME IInv, Strip
  PROVE  /\ cell \in Cells /\ mpc = "strip" /\ at \in 1 .. Len(radios[cell]) /\ at' = at + 1
         /\ radios[cell] \in Seq(Nat)
         /\ UNCHANGED <<tries, mpc, stage, cell, nbs, found, fault>>
         /\ \/ /\ radios[cell][at] # Missing
               /\ radios' = radios /\ notFound' = notFound
            \/ /\ radios[cell][at] = Missing /\ notFound'
               /\ at <= Len(Found(radios[cell]))
               /\ radios' = [radios EXCEPT ![cell] = Moved(Found(radios[cell]), at)]
            \/ /\ radios[cell][at] = Missing /\ notFound'
               /\ ~(at <= Len(Found(radios[cell])))
               /\ radios' = [radios EXCEPT ![cell] = Found(radios[cell])]
<1>1. /\ cell \in Cells /\ mpc = "strip" /\ at \in 1 .. Len(radios[cell]) /\ at' = at + 1
      /\ radios[cell] \in Seq(Nat)
      /\ UNCHANGED <<tries, mpc, stage, cell, nbs, found, fault>>
  BY DEF Strip, IInv, ShapeInv
<1>2. QED
  BY <1>1 DEF Strip, Found, Moved

LEMMA FoundStrip ==
  ASSUME IInv, FoundInv, Strip
  PROVE  FoundInv'
<1> DEFINE r == radios[cell]
           F == found[cell]
<1>1. /\ cell \in Cells /\ mpc = "strip" /\ at \in 1 .. Len(r) /\ at' = at + 1
      /\ r \in Seq(Nat) /\ at \in Nat \ {0}
      /\ UNCHANGED <<tries, mpc, stage, cell, nbs, found, fault>>
  BY StripCases
<1>2. Sifted(r, at, F)
  BY <1>1 DEF FoundInv
<1>3. /\ Found(r) \in Seq(Nat) /\ Sifted(Found(r), at, F)
      /\ Len(Found(r)) # 0 => Found(r)[Len(Found(r))] # Missing
  BY <1>1, <1>2, FoundIsSifted
<1>4. Sifted(radios'[cell], at + 1, F)
  <2>1. CASE r[at] # Missing /\ radios' = radios
    <3>1. \A k \in 1 .. Len(r) : k < at + 1 => k = at \/ k < at
      BY <1>1
    <3>2. QED
      BY <1>2, <2>1, <3>1 DEF Sifted
  <2>2. CASE /\ r[at] = Missing /\ at <= Len(Found(r))
             /\ radios' = [radios EXCEPT ![cell] = Moved(Found(r), at)]
    <3>1. radios'[cell] = Moved(Found(r), at)
      BY <1>1, <2>2 DEF IInv, ShapeInv
    <3>2. at \in 1 .. Len(Found(r)) /\ Len(Found(r)) # 0
      BY <1>1, <1>3, <2>2
    <3>3. Found(r)[at] = Missing
      BY <1>1, <2>2, <3>2, LastFoundFits DEF Found
    <3>4. QED
      BY <1>3, <3>1, <3>2, <3>3, MovedIsSifted
  <2>3. CASE /\ r[at] = Missing /\ ~(at <= Len(Found(r)))
             /\ radios' = [radios EXCEPT ![cell] = Found(r)]
    <3>1. radios'[cell] = Found(r)
      BY <1>1, <2>3 DEF IInv, ShapeInv
    <3>2. \A k \in 1 .. Len(Found(r)) : k < at
      BY <1>1, <1>3, <2>3
    <3>3. QED
      BY <1>3, <3>1, <3>2 DEF Sifted
  <2>4. QED
    BY <2>1, <2>2, <2>3, StripCases
<1>5. QED
  BY <1>1, <1>4 DEF FoundInv, Making, Configuring

LEMMA FoundStripped ==
  ASSUME IInv, FoundInv, Stripped
  PROVE  FoundInv'
<1> DEFINE r == radios[cell]
<1>1. /\ cell \in Cells /\ mpc = "strip" /\ at > Len(r) /\ at \in Nat /\ r \in Seq(Nat)
      /\ UNCHANGED <<cell, radios, found>>
  BY DEF Stripped, IInv, ShapeInv
<1>2. mpc' = "built" \/ (mpc' = "spawn" /\ stage' = "configure")
  BY DEF Stripped, StartStage
<1>3. Sifted(r, at, found[cell])
  BY <1>1 DEF FoundInv
<1>4. Sifted(r, Len(r) + 1, found[cell])
  BY <1>1, <1>3, SiftedToTheEnd
<1>5. QED
  BY <1>1, <1>2, <1>4 DEF FoundInv, Making, Configuring

LEMMA FoundOtherMain ==
  ASSUME IInv, FoundInv, Built \/ GiveUp
  PROVE  FoundInv'
<1>1. CASE Built
  <2>1. mpc' = "running" /\ UNCHANGED <<cell, found>>
    BY <1>1 DEF Built
  <2>2. QED
    BY <2>1 DEF FoundInv, Making, Configuring
<1>2. CASE GiveUp
  <2>1. CASE UNCHANGED <<mpc, cell, radios, found>>
    BY <1>2, <2>1 DEF GiveUp, FoundInv, Making, Configuring
  <2>2. CASE mpc' = "failed" /\ UNCHANGED <<cell, found>>
    BY <2>2 DEF FoundInv, Making, Configuring
  <2>3. CASE mpc' = "cell" /\ found' = [c \in Cells |-> {}]
    BY <2>3 DEF FoundInv, Making, Configuring
  <2>4. QED
    BY <1>2, <2>1, <2>2, <2>3 DEF GiveUp
<1>3. QED
  BY <1>1, <1>2

\* What a thread does to the radios.
LEMMA ThreadCases ==
  ASSUME IInv, NEW i \in AllRadios, Thread(i)
  PROVE  /\ UNCHANGED <<tries, mpc, stage, cell, nbs, notFound, at, fault>>
         /\ mpc \in {"spawn", "wait"} /\ cell \in Cells /\ i \in 1 .. nbs[cell]
         /\ nbs[cell] \in Nat
         /\ \/ UNCHANGED <<radios, found>>
            \/ /\ stage = "init"
               /\ radios' = [radios EXCEPT ![cell] = [radios[cell] EXCEPT ![i] = i]]
               /\ found' = [found EXCEPT ![cell] = found[cell] \cup {i}]
<1>1. UNCHANGED mainVars /\ tpc[i] \in {"work", "load", "store"}
  BY DEF Thread, Work, Load, Store, ThreadAt
<1>2. mpc \in {"spawn", "wait"} /\ cell \in Cells /\ i \in 1 .. nbs[cell]
  BY <1>1, Running DEF Team
<1>3. nbs[cell] \in Nat
  BY <1>2 DEF IInv, ShapeInv
<1>4. \/ UNCHANGED <<radios, found>>
      \/ /\ stage = "init"
         /\ radios' = [radios EXCEPT ![cell] = [radios[cell] EXCEPT ![i] = i]]
         /\ found' = [found EXCEPT ![cell] = found[cell] \cup {i}]
  BY DEF Thread, Work, Load, Store
<1>5. QED
  BY <1>1, <1>2, <1>3, <1>4 DEF mainVars

LEMMA FoundThread ==
  ASSUME IInv, FoundInv, NEW i \in AllRadios, Thread(i)
  PROVE  FoundInv'
<1>1. /\ UNCHANGED <<mpc, stage, cell, nbs>> /\ nbs[cell] \in Nat
      /\ mpc \in {"spawn", "wait"} /\ cell \in Cells /\ i \in 1 .. nbs[cell]
  BY ThreadCases
<1>2. CASE UNCHANGED <<radios, found>>
  BY <1>1, <1>2 DEF FoundInv, Making, Configuring
<1>3. CASE /\ stage = "init"
           /\ radios' = [radios EXCEPT ![cell] = [radios[cell] EXCEPT ![i] = i]]
           /\ found' = [found EXCEPT ![cell] = found[cell] \cup {i}]
  <2>1. AsMade(radios[cell], nbs[cell], found[cell])
    BY <1>1, <1>3 DEF FoundInv, Making
  <2>2. AsMade([radios[cell] EXCEPT ![i] = i], nbs[cell], found[cell] \cup {i})
    BY <1>1, <2>1, OneMoreMade
  <2>3. radios'[cell] = [radios[cell] EXCEPT ![i] = i]
    BY <1>1, <1>3 DEF IInv, ShapeInv
  <2>4. /\ found' \in [Cells -> SUBSET Nat] /\ found'[cell] = found[cell] \cup {i}
        /\ \A c \in Cells : c # cell => found'[c] = found[c]
    BY <1>1, <1>3 DEF FoundInv
  <2>5. \A c \in Cells : c > cell => found'[c] = {}
    <3>1. \A c \in Cells : c > cell => c # cell
      BY <1>1, InitAssumption DEF Cells
    <3>2. QED
      BY <2>4, <3>1 DEF FoundInv
  <2>6. QED
    BY <1>1, <1>3, <2>2, <2>3, <2>4, <2>5 DEF FoundInv, Making, Configuring
<1>4. QED
  BY <1>2, <1>3, ThreadCases

LEMMA FoundStep == IInv /\ FoundInv /\ [Next]_vars => FoundInv'
<1> SUFFICES ASSUME IInv, FoundInv, [Next]_vars PROVE FoundInv'
  OBVIOUS
<1>1. CASE Main
  BY <1>1, FoundBeginCell, FoundSpawning, FoundWaited, FoundStrip, FoundStripped,
     FoundOtherMain DEF Main
<1>2. ASSUME NEW i \in AllRadios, Thread(i) PROVE FoundInv'
  BY <1>2, FoundThread
<1>3. CASE UNCHANGED vars
  BY <1>3 DEF vars, mainVars, FoundInv, Making, Configuring
<1>4. QED
  BY <1>1, <1>2, <1>3 DEF Next

THEOREM FoundAlways == Spec => []FoundInv
  BY Inductive, FoundInit, FoundStep, PTL DEF Spec

\* Whichever radios are missing, the strip loop leaves those that were
\* discovered, each once, and nothing else (BaseRadioSet.cc:79-95).
THEOREM StripKeepsFound == Spec => []StripExact
<1>1. IInv /\ FoundInv => StripExact
  <2> SUFFICES ASSUME IInv, FoundInv, mpc = "built" \/ (mpc = "spawn" /\ stage = "configure")
               PROVE  /\ {radios[cell][k] : k \in DOMAIN radios[cell]} = found[cell]
                      /\ Len(radios[cell]) = Cardinality(found[cell])
    BY DEF StripExact
  <2>1. cell \in Cells
    BY DEF IInv, ShapeInv, FoundInv
  <2>2. radios[cell] \in Seq(Nat) /\ found[cell] \in SUBSET Nat
    BY <2>1 DEF IInv, ShapeInv, FoundInv
  <2>3. Sifted(radios[cell], Len(radios[cell]) + 1, found[cell])
    BY DEF FoundInv, Configuring
  <2>4. QED
    BY <2>2, <2>3, SiftedIsExact
<1>2. QED
  BY <1>1, Inductive, FoundAlways, PTL

LEMMA InPlaceIsWhole ==
  ASSUME NEW n \in Nat, NEW s \in Seq(Nat), NEW a \in Nat, a > Len(s), InPlace(s, a, n)
  PROVE  Len(s) = n /\ s = Whole(n)
<1>1. Len(s) = n /\ s = [k \in 1 .. n |-> s[k]]
  BY DEF InPlace
<1>2. \A k \in 1 .. n : k < a
  BY <1>1
<1>3. \A k \in 1 .. n : s[k] = k
  BY <1>2 DEF InPlace
<1>4. QED
  BY <1>1, <1>3 DEF Whole

LEMMA CellsInit == Init => CellsInv
<1> SUFFICES ASSUME Init PROVE CellsInv
  OBVIOUS
<1>1. /\ mpc = "cell" /\ cell = 1 /\ radios = [c \in Cells |-> <<>>] /\ fault = "none"
  BY DEF Init
<1>2. \A c \in Cells : ~(c < 1)
  BY DEF Cells
<1>3. QED
  BY <1>1, <1>2 DEF CellsInv, Configuring

LEMMA CellsBeginCell ==
  ASSUME IInv, CellsInv, fault = "none", BeginCell
  PROVE  CellsInv'
<1>1. cell \in Cells /\ mpc = "cell"
  BY DEF BeginCell, IInv, ShapeInv, Cells
<1>2. /\ nbs' = nbs /\ cell' = cell /\ mpc' = "spawn" /\ stage' = "init" /\ fault' = fault
      /\ radios' = [radios EXCEPT ![cell] = [i \in Team |-> Missing]]
  BY DEF BeginCell, StartStage
<1>3. \A c \in Cells : c # cell => radios'[c] = radios[c]
  BY <1>1, <1>2 DEF IInv, ShapeInv
<1>4. \A c \in Cells : c < cell \/ c > cell => c # cell
  BY <1>1 DEF Cells
<1>5. QED
  BY <1>1, <1>2, <1>3, <1>4 DEF CellsInv, Configuring

LEMMA CellsSpawning ==
  ASSUME CellsInv, fault = "none", Spawn \/ Spawned
  PROVE  CellsInv'
<1>1. /\ mpc = "spawn" /\ mpc' \in {"spawn", "wait"}
      /\ UNCHANGED <<stage, cell, nbs, radios, fault>>
  BY DEF Spawn, Spawned
<1>2. QED
  BY <1>1 DEF CellsInv, Configuring

LEMMA CellsWaited ==
  ASSUME IInv, FoundInv, CellsInv, fault = "none", Waited
  PROVE  CellsInv'
<1>1. /\ cell \in Cells /\ nbs[cell] \in Nat /\ mpc = "wait"
      /\ UNCHANGED <<stage, nbs, radios, notFound, fault>>
  BY DEF Waited, IInv, ShapeInv
<1>2. CASE stage = "init"
  <2>1. mpc' = "strip" /\ at' = 1 /\ cell' = cell
    BY <1>2 DEF Waited
  <2>2. AsMade(radios[cell], nbs[cell], found[cell])
    BY <1>1, <1>2 DEF FoundInv, Making
  <2>3. InPlace(radios[cell], 1, nbs[cell])
    BY <1>1, <2>2, MadeIsSifted
  <2>4. Len(radios[cell]) <= nbs[cell]
    BY <1>1, <2>3 DEF InPlace
  <2>5. QED
    BY <1>1, <2>1, <2>3, <2>4 DEF CellsInv, Configuring
<1>3. CASE stage # "init"
  <2>1. mpc' = "cell" /\ cell' = cell + 1
    BY <1>3 DEF Waited
  <2>2. radios[cell] = Whole(nbs[cell])
    BY <1>1, <1>3 DEF CellsInv, Configuring, IInv, ShapeInv
  <2>3. \A c \in Cells : /\ c < cell + 1 => c < cell \/ c = cell
                         /\ c > cell + 1 \/ c = cell + 1 => c > cell
    BY <1>1, InitAssumption DEF Cells
  <2>4. \A c \in Cells : c < cell + 1 => radios[c] = Whole(nbs[c])
    BY <1>1, <2>2, <2>3 DEF CellsInv
  <2>5. \A c \in Cells : c > cell + 1 \/ c = cell + 1 => radios[c] = <<>>
    BY <2>3 DEF CellsInv
  <2>6. QED
    BY <1>1, <2>1, <2>4, <2>5 DEF CellsInv, Configuring
<1>4. QED
  BY <1>2, <1>3

LEMMA CellsStrip ==
  ASSUME IInv, CellsInv, fault = "none", Strip
  PROVE  CellsInv'
<1> DEFINE r == radios[cell]
<1>1. /\ cell \in Cells /\ mpc = "strip" /\ at \in 1 .. Len(r) /\ at' = at + 1
      /\ r \in Seq(Nat) /\ at \in Nat \ {0} /\ nbs[cell] \in Nat
      /\ UNCHANGED <<mpc, stage, cell, nbs, fault>>
  BY StripCases DEF IInv, ShapeInv
<1>2. Len(r) <= nbs[cell] /\ Len(r) \in Nat
  BY <1>1 DEF CellsInv
<1>3. /\ \A c \in Cells : c # cell => radios'[c] = radios[c]
      /\ Len(radios'[cell]) <= nbs[cell]
      /\ notFound' \/ InPlace(radios'[cell], at + 1, nbs[cell])
  <2>1. CASE r[at] # Missing /\ radios' = radios /\ notFound' = notFound
    <3>1. \A k \in 1 .. nbs[cell] : k < at + 1 => k = at \/ k < at
      BY <1>1
    <3>2. notFound \/ InPlace(r, at, nbs[cell])
      BY <1>1 DEF CellsInv
    <3>3. InPlace(r, at, nbs[cell]) => InPlace(r, at + 1, nbs[cell])
      BY <2>1, <3>1 DEF InPlace
    <3>4. QED
      BY <1>2, <2>1, <3>2, <3>3
  <2>2. ASSUME NEW u \in Seq(Nat), Len(u) <= Len(r), radios' = [radios EXCEPT ![cell] = u],
               notFound'
        PROVE  /\ \A c \in Cells : c # cell => radios'[c] = radios[c]
               /\ Len(radios'[cell]) <= nbs[cell]
    <3>1. radios'[cell] = u /\ \A c \in Cells : c # cell => radios'[c] = radios[c]
      BY <1>1, <2>2 DEF IInv, ShapeInv
    <3>2. Len(u) <= nbs[cell]
      BY <1>1, <1>2, <2>2
    <3>3. QED
      BY <3>1, <3>2
  <2>3. Found(r) \in Seq(Nat) /\ Len(Found(r)) <= Len(r)
    BY <1>1, FoundIsShorter
  <2>4. CASE /\ at <= Len(Found(r)) /\ notFound'
             /\ radios' = [radios EXCEPT ![cell] = Moved(Found(r), at)]
    <3>1. Moved(Found(r), at) \in Seq(Nat) /\ Len(Moved(Found(r), at)) <= Len(Found(r))
      BY <1>1, <2>3, <2>4, MovedIsShorter
    <3>2. Len(Moved(Found(r), at)) <= Len(r)
      BY <1>2, <2>3, <3>1
    <3>3. QED
      BY <2>2, <2>4, <3>1, <3>2
  <2>5. CASE notFound' /\ radios' = [radios EXCEPT ![cell] = Found(r)]
    BY <2>2, <2>3, <2>5
  <2>6. QED
    BY <2>1, <2>4, <2>5, StripCases
<1>4. \A c \in Cells : c < cell \/ c > cell => c # cell
  BY <1>1 DEF Cells
<1>5. QED
  BY <1>1, <1>3, <1>4 DEF CellsInv, Configuring

\* The configuration changes only where a radio is missing.
LEMMA StrippedCases ==
  ASSUME IInv, CellsInv, Stripped
  PROVE  /\ cell \in Cells /\ mpc = "strip" /\ nbs[cell] \in Nat
         /\ Len(radios[cell]) \in Nat /\ Len(radios[cell]) <= nbs[cell]
         /\ UNCHANGED <<tries, cell, radios, fault>>
         /\ nbs' = [nbs EXCEPT ![cell] = Len(radios[cell])]
         /\ \/ mpc' = "built"
            \/ /\ mpc' = "spawn" /\ stage' = "configure" /\ nbs' = nbs
               /\ radios[cell] = Whole(nbs[cell])
<1>1. /\ cell \in Cells /\ mpc = "strip" /\ radios[cell] \in Seq(Nat) /\ at \in Nat
      /\ nbs[cell] \in Nat /\ at > Len(radios[cell])
      /\ UNCHANGED <<tries, cell, radios, fault>>
      /\ nbs' = [nbs EXCEPT ![cell] = Len(radios[cell])]
  BY DEF Stripped, IInv, ShapeInv
<1>2. Len(radios[cell]) <= nbs[cell] /\ Len(radios[cell]) \in Nat
  BY <1>1 DEF CellsInv
<1>3. CASE notFound
  BY <1>1, <1>2, <1>3 DEF Stripped
<1>4. CASE ~notFound
  <2>1. InPlace(radios[cell], at, nbs[cell])
    BY <1>1, <1>4 DEF CellsInv
  <2>2. Len(radios[cell]) = nbs[cell] /\ radios[cell] = Whole(nbs[cell])
    BY <1>1, <2>1, InPlaceIsWhole
  <2>3. nbs' = nbs
    BY <1>1, <2>2 DEF IInv, ShapeInv
  <2>4. mpc' = "spawn" /\ stage' = "configure"
    BY <1>4 DEF Stripped, StartStage
  <2>5. QED
    BY <1>1, <1>2, <2>2, <2>3, <2>4
<1>5. QED
  BY <1>3, <1>4

LEMMA CellsStripped ==
  ASSUME IInv, CellsInv, fault = "none", Stripped
  PROVE  CellsInv'
<1>1. /\ cell \in Cells /\ mpc = "strip" /\ UNCHANGED <<cell, radios, fault>>
      /\ nbs' = [nbs EXCEPT ![cell] = Len(radios[cell])]
  BY StrippedCases
<1>2. \A c \in Cells : c < cell => nbs'[c] = nbs[c]
  <2>1. \A c \in Cells : c < cell => c # cell
    BY <1>1 DEF Cells
  <2>2. QED
    BY <1>1, <2>1 DEF IInv, ShapeInv
<1>3. \/ mpc' = "built"
      \/ mpc' = "spawn" /\ nbs' = nbs /\ radios[cell] = Whole(nbs[cell])
  BY StrippedCases
<1>4. nbs'[cell] = Len(radios[cell])
  BY <1>1 DEF IInv, ShapeInv
<1>5. QED
  BY <1>1, <1>2, <1>3, <1>4 DEF CellsInv, Configuring

LEMMA CellsBuilt ==
  ASSUME IInv, CellsInv, fault = "none", Built
  PROVE  CellsInv'
BY DEF Built, CellsInv, Configuring

\* The process ends in the destructor only when a cell that names radios
\* follows the one at which a radio was missing.
LEMMA CellsGiveUp ==
  ASSUME IInv, FoundInv, CellsInv, ConfigInv, fault = "none", GiveUp
  PROVE  CellsInv'
<1>1. mpc = "built" /\ cell \in Cells /\ UNCHANGED <<stage, nbs>>
  BY DEF GiveUp, FoundInv
<1>2. CASE /\ \E c \in Cells : nbs[c] > Len(radios[c])
           /\ fault' = "terminate" /\ UNCHANGED <<mpc, cell, radios, notFound>>
  <2>1. PICK c \in Cells : nbs[c] > Len(radios[c])
    BY <1>2
  <2>2. c = cell \/ c < cell \/ c > cell
    BY <1>1 DEF Cells
  <2>3. c # cell
    <3>1. nbs[cell] = Len(radios[cell])
      BY <1>1 DEF CellsInv
    <3>2. QED
      BY <1>1, <2>1, <3>1
  <2>4. ~(c < cell)
    <3>1. nbs[c] \in Nat
      BY DEF IInv, ShapeInv
    <3>2. Len(Whole(nbs[c])) = nbs[c]
      BY <3>1 DEF Whole
    <3>3. SUFFICES ASSUME c < cell PROVE FALSE
      OBVIOUS
    <3>4. radios[c] = Whole(nbs[c])
      BY <1>1, <3>3 DEF CellsInv
    <3>5. QED
      BY <2>1, <3>1, <3>2, <3>4
  <2>5. cell < NumCells
    BY <1>1, <2>2, <2>3, <2>4, InitAssumption DEF Cells
  <2>6. QED
    BY <1>1, <1>2, <2>5 DEF CellsInv, Configuring
<1>3. CASE mpc' = "failed" /\ UNCHANGED <<cell, radios, fault>>
  BY <1>1, <1>3 DEF CellsInv, Configuring
<1>4. CASE /\ mpc' = "cell" /\ cell' = 1 /\ fault' = fault
           /\ radios' = [c \in Cells |-> <<>>]
  <2>1. \A c \in Cells : ~(c < 1)
    BY DEF Cells
  <2>2. QED
    BY <1>1, <1>4, <2>1 DEF CellsInv, Configuring
<1>5. QED
  BY <1>2, <1>3, <1>4 DEF GiveUp

LEMMA CellsThread ==
  ASSUME IInv, CellsInv, fault = "none", NEW i \in AllRadios, Thread(i)
  PROVE  CellsInv'
<1>1. /\ UNCHANGED <<mpc, stage, cell, nbs, fault>>
      /\ mpc \in {"spawn", "wait"} /\ cell \in Cells
  BY ThreadCases
<1>2. CASE radios' = radios
  BY <1>1, <1>2 DEF CellsInv, Configuring
<1>3. CASE /\ stage = "init"
           /\ radios' = [radios EXCEPT ![cell] = [radios[cell] EXCEPT ![i] = i]]
  <2>1. \A c \in Cells : c # cell => radios'[c] = radios[c]
    BY <1>1, <1>3 DEF IInv, ShapeInv
  <2>2. \A c \in Cells : c < cell \/ c > cell => c # cell
    BY <1>1 DEF Cells
  <2>3. QED
    BY <1>1, <1>3, <2>1, <2>2 DEF CellsInv, Configuring
<1>4. QED
  BY <1>2, <1>3, ThreadCases

LEMMA CellsStep == IInv /\ FoundInv /\ CellsInv /\ ConfigInv /\ [Next]_vars => CellsInv'
<1> SUFFICES ASSUME IInv, FoundInv, CellsInv, ConfigInv, [Next]_vars PROVE CellsInv'
  OBVIOUS
<1>1. CASE fault = "none" /\ Main
  BY <1>1, CellsBeginCell, CellsSpawning, CellsWaited, CellsStrip, CellsStripped,
     CellsBuilt, CellsGiveUp DEF Main
<1>2. ASSUME NEW i \in AllRadios, fault = "none", Thread(i) PROVE CellsInv'
  BY <1>2, CellsThread
<1>3. CASE UNCHANGED vars
  BY <1>3 DEF vars, mainVars, CellsInv, Configuring
<1>4. QED
  BY <1>1, <1>2, <1>3 DEF Next

LEMMA ConfigInit == Init => ConfigInv
  BY DEF Init, ConfigInv

\* Where neither the tries nor the configuration change.
LEMMA ConfigKept ==
  ASSUME ConfigInv, mpc # "failed", UNCHANGED <<tries, nbs>>,
         mpc = "built" => mpc' = "built" /\ cell' = cell
  PROVE  ConfigInv'
BY DEF ConfigInv, MayLack

LEMMA ConfigStripped ==
  ASSUME IInv, CellsInv, ConfigInv, Stripped
  PROVE  ConfigInv'
<1>1. /\ cell \in Cells /\ mpc = "strip" /\ nbs[cell] \in Nat
      /\ Len(radios[cell]) \in Nat /\ Len(radios[cell]) <= nbs[cell]
      /\ UNCHANGED <<tries, cell>>
      /\ nbs' = [nbs EXCEPT ![cell] = Len(radios[cell])]
  BY StrippedCases
<1>2. CASE nbs' = nbs
  BY <1>1, <1>2, ConfigKept
<1>3. CASE mpc' = "built"
  <2>1. ASSUME NEW c \in Cells, c # cell, MayLack(c) PROVE MayLack(c)'
    <3>1. \A d \in Cells : nbs[d] = 0 => nbs'[d] = 0
      BY <1>1 DEF IInv, ShapeInv
    <3>2. QED
      BY <1>1, <2>1, <3>1 DEF MayLack
  <2>2. \A c \in Cells : c # cell => nbs'[c] = nbs[c]
    BY <1>1 DEF IInv, ShapeInv
  <2>3. \A c \in Cells : nbs'[c] = Configured[c] \/ MayLack(c)' \/ (mpc' = "built" /\ c = cell')
    BY <1>1, <1>3, <2>1, <2>2 DEF ConfigInv
  <2>4. QED
    BY <1>1, <2>3 DEF ConfigInv
<1>4. QED
  BY <1>2, <1>3, StrippedCases

LEMMA ConfigGiveUp ==
  ASSUME IInv, FoundInv, CellsInv, ConfigInv, GiveUp
  PROVE  ConfigInv'
<1>1. mpc = "built" /\ cell \in Cells /\ tries \in Nat \ {0} /\ UNCHANGED nbs
  BY DEF GiveUp, FoundInv, ConfigInv
<1>2. CASE UNCHANGED <<tries, mpc, cell>>
  BY <1>1, <1>2, ConfigKept
<1>3. CASE mpc' = "failed" /\ UNCHANGED tries
  BY <1>1, <1>3 DEF ConfigInv
<1>4. CASE /\ tries' = tries + 1 /\ mpc' = "cell"
           /\ ~ \E c \in Cells : nbs[c] > Len(radios[c])
  <2>1. \A d \in Cells : d > cell => nbs[d] = 0
    <3> SUFFICES ASSUME NEW d \in Cells, d > cell PROVE nbs[d] = 0
      OBVIOUS
    <3>1. radios[d] = <<>> /\ Len(<<>>) = 0
      BY DEF CellsInv
    <3>2. nbs[d] \in Nat /\ ~(nbs[d] > 0)
      BY <1>4, <3>1 DEF IInv, ShapeInv
    <3>3. QED
      BY <3>2
  <2> DEFINE LaterEmpty(b) == \A d \in Cells : d > b => nbs[d] = 0
  <2>2. PICK b \in Cells : b = cell /\ LaterEmpty(b)
    BY <1>1, <2>1
  <2>3. MayLack(b)'
    <3>1. CASE b = NumCells
      BY <1>1, <1>4, <3>1 DEF MayLack
    <3>2. CASE b # NumCells
      <4>1. NumCells \in Cells /\ NumCells > cell
        BY <1>1, <2>2, <3>2, InitAssumption DEF Cells
      <4>2. nbs[NumCells] = 0 /\ Configured[NumCells] # 0
        BY <2>1, <4>1, InitAssumption
      <4>3. MayLack(NumCells)
        BY <1>1, <2>2, <3>2, <4>1, <4>2 DEF ConfigInv
      <4>4. tries > 1
        BY <1>1, <4>3 DEF MayLack
      <4>5. tries' > 2
        BY <1>1, <1>4, <4>4
      <4>6. QED
        BY <1>1, <2>2, <4>5 DEF MayLack
    <3>3. QED
      BY <3>1, <3>2
  <2>4. \A c \in Cells : MayLack(c) => MayLack(c)'
    BY <1>1, <1>4 DEF MayLack
  <2>5. ASSUME NEW c \in Cells PROVE nbs'[c] = Configured[c] \/ MayLack(c)'
    <3>1. CASE c = b
      BY <2>3, <3>1
    <3>2. CASE c # b
      BY <1>1, <2>2, <2>4, <3>2 DEF ConfigInv
    <3>3. QED
      BY <3>1, <3>2
  <2>6. tries' \in Nat \ {0}
    BY <1>1, <1>4
  <2>7. QED
    BY <2>5, <2>6 DEF ConfigInv
<1>5. QED
  BY <1>2, <1>3, <1>4 DEF GiveUp

LEMMA ConfigStep == IInv /\ FoundInv /\ CellsInv /\ ConfigInv /\ [Next]_vars => ConfigInv'
<1> SUFFICES ASSUME IInv, FoundInv, CellsInv, ConfigInv, [Next]_vars PROVE ConfigInv'
  OBVIOUS
<1>1. CASE BeginCell \/ Spawn \/ Spawned \/ Waited \/ Strip \/ Built
  <2>1. mpc \in {"cell", "spawn", "wait", "strip"} /\ UNCHANGED <<tries, nbs>>
    BY <1>1 DEF BeginCell, Spawn, Spawned, Waited, Strip, Built
  <2>2. QED
    BY <2>1, ConfigKept
<1>2. CASE Stripped \/ GiveUp
  BY <1>2, ConfigStripped, ConfigGiveUp
<1>3. ASSUME NEW i \in AllRadios, Thread(i) PROVE ConfigInv'
  <2>1. mpc \in {"spawn", "wait"} /\ UNCHANGED <<tries, nbs>>
    BY <1>3, ThreadCases
  <2>2. QED
    BY <2>1, ConfigKept
<1>4. CASE UNCHANGED vars
  BY <1>4 DEF vars, mainVars, ConfigInv, MayLack
<1>5. QED
  BY <1>1, <1>2, <1>3, <1>4 DEF Next, Main

\* do_it runs with every radio the configuration names, and only a retry may
\* have left fewer there than were configured (main.cc:54-72,
\* BaseRadioSet.cc:95); the destructor fails only at cells that were not
\* reached (BaseRadioSet.cc:342).
THEOREM RunsWithRadios == Spec => []MissingRadios
<1> DEFINE All == IInv /\ FoundInv /\ CellsInv /\ ConfigInv
<1>1. Init => All
  BY InitInv, FoundInit, CellsInit, ConfigInit
<1>2. All /\ [Next]_vars => All'
  BY Step, FoundStep, CellsStep, ConfigStep
<1>3. All => MissingRadios
  <2> SUFFICES ASSUME All PROVE MissingRadios
    OBVIOUS
  <2>1. ASSUME mpc = "running", NEW c \in Cells
        PROVE  /\ radios[c] = [k \in 1 .. nbs[c] |-> k]
               /\ nbs[c] = Configured[c] \/ MayLack(c)
    <3>1. c < cell
      BY <2>1, InitAssumption DEF CellsInv, Cells, IInv, ShapeInv
    <3>2. QED
      BY <2>1, <3>1 DEF CellsInv, ConfigInv, Whole
  <2>2. fault = "terminate" => cell < NumCells
    BY DEF CellsInv
  <2>3. QED
    BY <2>1, <2>2 DEF MissingRadios, MayLack
<1>4. QED
  BY <1>1, <1>2, <1>3, PTL DEF Spec
-----------------------------------------------------------------------------
(* Until the process is over *)

\* What follows do_it leaves the bring-up alone, so that what is proved of
\* RadioInit holds of the whole life.
THEOREM LifeKeepsInit == LifeSpec => Spec
<1>1. LifeInit => Init
  BY DEF LifeInit
<1>2. [LifeNext]_<<vars, lifeVars>> => [Next]_vars
  BY DEF LifeNext, LifeStep, vars, mainVars
<1>3. QED
  BY <1>1, <1>2, PTL DEF LifeSpec, Spec

\* Before the receive threads are joined.
Before == {"clients", "readers", "receivers", "broadcast", "go", "dispatch", "join"}

\* Nothing is deleted before they are joined, and then they have left.
JoinInv ==
  /\ dpc \in Before => gone = {}
  /\ dpc \notin Before => \A t \in Receivers : rpc[t] = "left"
  /\ OnlyUnjoinedHurt

LEMMA JoinInit == LifeInit => JoinInv
  BY DEF LifeInit, JoinInv, Before, OnlyUnjoinedHurt

LEMMA DeletionIs ==
  /\ DOMAIN Deletion = 1 .. 5 /\ Len(Deletion) = 5
  /\ \A k \in 1 .. 5 : Deletion[k] \notin Before /\ Deletion[k] # "over"
  /\ {Deletion[k] : k \in 2 .. Len(Deletion)} =
       {"client radios", "receiver", "rings", "queue"}
<1>1. DOMAIN Deletion = 1 .. 5 /\ Len(Deletion) = 5
  BY DEF Deletion
<1>2. 1 .. 5 = {1, 2, 3, 4, 5} /\ 2 .. 5 = {2, 3, 4, 5}
  OBVIOUS
<1>3. /\ Deletion[1] = "radios" /\ Deletion[2] = "client radios" /\ Deletion[3] = "receiver"
      /\ Deletion[4] = "rings" /\ Deletion[5] = "queue"
  BY DEF Deletion
<1>4. \A k \in 1 .. 5 : Deletion[k] \notin Before /\ Deletion[k] # "over"
  BY <1>2, <1>3 DEF Before
<1>5. {Deletion[k] : k \in 2 .. 5} = {"client radios", "receiver", "rings", "queue"}
  BY <1>2, <1>3
<1>6. QED
  BY <1>1, <1>4, <1>5

\* A use that hurts is one the invariant allows.
LEMMA UseAllowed ==
  ASSUME OnlyUnjoinedHurt, NEW kind, NEW things, Uses(kind, things),
         \/ gone = {}
         \/ kind = "client" /\ things \subseteq {"client radios", "receiver", "rings", "queue"}
         \/ kind = "reader" /\ things \subseteq {"queue"}
  PROVE  OnlyUnjoinedHurt'
<1>1. hurt' = hurt \cup {<<kind, w>> : w \in things \cap gone}
  BY DEF Uses
<1>2. \A w \in things \cap gone :
        <<kind, w>> \in {<<"reader", "queue">>}
          \cup ({"client"} \X {Deletion[k] : k \in 2 .. Len(Deletion)})
  BY DeletionIs
<1>3. QED
  BY <1>1, <1>2 DEF OnlyUnjoinedHurt

LEMMA JoinMain ==
  ASSUME JoinInv, MainStep
  PROVE  JoinInv'
<1>1. CASE StartClients \/ StartReaders \/ StartReceivers \/ Broadcast \/ Go \/ LeaveLoop
  <2>1. dpc \in Before /\ dpc' \in Before /\ UNCHANGED <<gone, hurt>>
    BY <1>1 DEF StartClients, StartReaders, StartReceivers, Broadcast, Go, LeaveLoop,
                MainAt, Before
  <2>2. QED
    BY <2>1 DEF JoinInv, OnlyUnjoinedHurt
<1>2. CASE JoinReceivers
  <2>1. dpc' = "radios" /\ UNCHANGED <<rpc, gone, hurt>> /\ \A t \in Receivers : rpc[t] = "left"
    BY <1>2 DEF JoinReceivers, MainAt
  <2>2. QED
    BY <2>1 DEF JoinInv, OnlyUnjoinedHurt, Before
<1>3. CASE Delete
  <2>1. PICK k \in 1 .. 5 :
          /\ dpc = Deletion[k] /\ dpc' = IF k = 5 THEN "over" ELSE Deletion[k + 1]
          /\ UNCHANGED <<rpc, hurt>>
    BY <1>3, DeletionIs DEF Delete, MainAt
  <2>2. dpc \notin Before
    BY <2>1, DeletionIs
  <2>3. dpc' \notin Before
    <3>1. CASE k = 5
      BY <2>1, <3>1 DEF Before
    <3>2. CASE k # 5
      <4>1. k + 1 \in 1 .. 5
        BY <3>2
      <4>2. QED
        BY <2>1, <3>2, <4>1, DeletionIs
    <3>3. QED
      BY <3>1, <3>2
  <2>4. QED
    BY <2>1, <2>2, <2>3 DEF JoinInv, OnlyUnjoinedHurt
<1>4. QED
  BY <1>1, <1>2, <1>3 DEF MainStep

\* A receive thread that runs has not been joined: what it uses is there.
LEMMA JoinReceiver ==
  ASSUME JoinInv, NEW t \in Receivers, ReceiverStep(t) \/ WakeForNothing(t) \/ SyncRead(t)
  PROVE  JoinInv'
<1>1. rpc[t] # "left" /\ UNCHANGED <<dpc, gone>>
  BY DEF ReceiverStep, Wait, LoopTop, Receive, NotifyMain, WakeForNothing, SyncRead,
     Receiving
<1>2. dpc \in Before /\ gone = {}
  BY <1>1 DEF JoinInv
<1>3. OnlyUnjoinedHurt'
  <2>1. CASE UNCHANGED hurt
    BY <2>1 DEF JoinInv, OnlyUnjoinedHurt
  <2>2. ASSUME NEW things, Uses("receiver", things) PROVE OnlyUnjoinedHurt'
    BY <1>2, <2>2, UseAllowed DEF JoinInv
  <2>3. QED
    BY <2>1, <2>2 DEF ReceiverStep, Wait, LoopTop, Receive, NotifyMain, WakeForNothing,
                      SyncRead
<1>4. QED
  BY <1>1, <1>2, <1>3 DEF JoinInv

\* Clients and readers go on, but use only what is deleted after the radios.
LEMMA JoinOthers ==
  ASSUME JoinInv,
         \/ ExitSignal
         \/ \E h \in Readers : DispatchRead(h) \/ ReaderStep(h)
         \/ \E t \in Clients : ClientStep(t)
  PROVE  JoinInv'
<1>1. CASE ExitSignal \/ \E h \in Readers : DispatchRead(h)
  <2>1. dpc \in Before /\ dpc' \in Before /\ UNCHANGED <<gone, hurt>>
    BY <1>1 DEF ExitSignal, DispatchRead, MainAt, Before
  <2>2. QED
    BY <2>1 DEF JoinInv, OnlyUnjoinedHurt
<1>2. ASSUME NEW h \in Readers, ReaderStep(h) PROVE JoinInv'
  <2>1. Uses("reader", {"queue"}) /\ UNCHANGED <<dpc, rpc, gone>>
    BY <1>2 DEF ReaderStep
  <2>2. OnlyUnjoinedHurt'
    BY <2>1, UseAllowed DEF JoinInv
  <2>3. QED
    BY <2>1, <2>2 DEF JoinInv
<1>3. ASSUME NEW t \in Clients, ClientStep(t) PROVE JoinInv'
  <2>1. /\ UNCHANGED <<dpc, rpc, gone>>
        /\ \E things \in SUBSET {"client radios", "receiver", "rings", "queue"} :
             Uses("client", things)
    BY <1>3 DEF ClientStep, ClientTop, ClientRadio, ClientNotify, OfClient
  <2>2. OnlyUnjoinedHurt'
    BY <2>1, UseAllowed DEF JoinInv
  <2>3. QED
    BY <2>1, <2>2 DEF JoinInv
<1>4. QED
  BY <1>1, <1>2, <1>3

LEMMA JoinStep == JoinInv /\ [LifeNext]_<<vars, lifeVars>> => JoinInv'
<1> SUFFICES ASSUME JoinInv, [LifeNext]_<<vars, lifeVars>> PROVE JoinInv'
  OBVIOUS
<1>1. CASE UNCHANGED lifeVars
  BY <1>1 DEF lifeVars, JoinInv, OnlyUnjoinedHurt
<1>2. CASE LifeStep
  BY <1>2, JoinMain, JoinReceiver, JoinOthers DEF LifeStep
<1>3. QED
  BY <1>1, <1>2 DEF LifeNext

\* However the run ends, no receive thread of the base station uses anything
\* that is deleted, a reader nothing but the message queue and a client nothing
\* but what is deleted after the radios (receiver.cc:97-112, 198-203,
\* scheduler.cc:110-117, 295-297).
THEOREM JoinedAreSafe == LifeSpec => []OnlyUnjoinedHurt
<1>1. JoinInv => OnlyUnjoinedHurt
  BY DEF JoinInv
<1>2. QED
  BY <1>1, JoinInit, JoinStep, PTL DEF LifeSpec

\* The same of the whole life as of the bring-up alone.
THEOREM LifeBringsUp == LifeSpec => [](StartsCovered /\ StripExact /\ MissingRadios)
  BY LifeKeepsInit, ConstructorWaits, StripKeepsFound, RunsWithRadios, PTL
=============================================================================
