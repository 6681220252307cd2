---------------------------- MODULE TxPathProofs ----------------------------
(***************************************************************************)
(* Proofs about TxPath, for any radios, files, rings and distances between *)
(* reading and sending.                                                    *)
(***************************************************************************)
EXTENDS TxPath, FiniteSetTheorems, SequenceTheorems, WellFoundedInduction, TLAPS

-----------------------------------------------------------------------------
(* Lemmas: the frames of a radio in a queue *)

\* What there is of numbers, there is a smallest of.
LEMMA SmallestOf ==
  ASSUME NEW S \in SUBSET Nat, S # {}
  PROVE  \E m \in S : \A x \in S : m <= x
<1>1. PICK m \in S : \A x \in S : ~ (<<x, m>> \in OpToRel(<, Nat))
  BY NatLessThanWellFounded, WFMin
<1>2. \A x \in S : ~ (x < m)
  BY <1>1 DEF OpToRel
<1>3. QED
  BY <1>2

Follows(g, q, r, n) ==
  g = [k \in 0 .. n |->
         IF k = 0 THEN <<>>
         ELSE IF q[k].radio = r THEN Append(g[k - 1], q[k].frame)
         ELSE g[k - 1]]

LEMMA FollowerExists ==
  ASSUME NEW q, NEW r, NEW n \in Nat
  PROVE  \E g : Follows(g, q, r, n)
<1> DEFINE Bad == {m \in Nat : ~ \E g : Follows(g, q, r, m)}
<1>1. SUFFICES ASSUME Bad # {} PROVE FALSE
  OBVIOUS
<1>2. PICK m \in Bad : \A x \in Bad : m <= x
  BY <1>1, SmallestOf
<1>3. m # 0
  <2>1. Follows([k \in 0 .. 0 |-> <<>>], q, r, 0)
    BY DEF Follows
  <2>2. QED
    BY <1>2, <2>1
<1>4. m - 1 \in Nat /\ m \in Nat
  BY <1>2, <1>3
<1>5. PICK g : Follows(g, q, r, m - 1)
  BY <1>2, <1>4
<1> DEFINE h == [k \in 0 .. m |->
                   IF k = m THEN IF q[m].radio = r THEN Append(g[m - 1], q[m].frame)
                                 ELSE g[m - 1]
                   ELSE g[k]]
<1>6. Follows(h, q, r, m)
  <2> SUFFICES ASSUME NEW k \in 0 .. m
               PROVE  h[k] = IF k = 0 THEN <<>>
                             ELSE IF q[k].radio = r THEN Append(h[k - 1], q[k].frame)
                             ELSE h[k - 1]
    BY DEF Follows
  <2>1. CASE k = m
    BY <1>3, <1>4, <2>1
  <2>2. CASE k # m
    <3>1. k \in 0 .. m - 1 /\ (k # 0 => k - 1 \in 0 .. m - 1 /\ k - 1 # m)
      BY <1>4, <2>2
    <3>2. g[k] = IF k = 0 THEN <<>>
                 ELSE IF q[k].radio = r THEN Append(g[k - 1], q[k].frame)
                 ELSE g[k - 1]
      BY <1>5, <3>1 DEF Follows
    <3>3. QED
      BY <1>4, <2>2, <3>1, <3>2
  <2>3. QED
    BY <2>1, <2>2
<1>7. QED
  BY <1>2, <1>6

LEMMA FramesUpToFollows ==
  ASSUME NEW q, NEW r, Len(q) \in Nat
  PROVE  Follows(FramesUpTo(q, r), q, r, Len(q))
<1> DEFINE n == Len(q)
<1>1. \E g : Follows(g, q, r, n)
  BY FollowerExists
<1>2. FramesUpTo(q, r) = CHOOSE g : Follows(g, q, r, n)
  BY DEF FramesUpTo, Follows
<1>3. QED
  BY <1>1, <1>2

LEMMA FramesUpToDef ==
  ASSUME NEW q, NEW r, Len(q) \in Nat, NEW k \in 0 .. Len(q)
  PROVE  FramesUpTo(q, r)[k] =
           IF k = 0 THEN <<>>
           ELSE IF q[k].radio = r THEN Append(FramesUpTo(q, r)[k - 1], q[k].frame)
           ELSE FramesUpTo(q, r)[k - 1]
<1>1. Follows(FramesUpTo(q, r), q, r, Len(q))
  BY FramesUpToFollows
<1>2. QED
  BY <1>1 DEF Follows

\* The frames depend on the events up to there only.
LEMMA FramesUpToLocal ==
  ASSUME NEW q, NEW p, NEW r, Len(q) \in Nat, Len(p) \in Nat, NEW n \in 0 .. Len(q),
         n <= Len(p), \A k \in 1 .. n : q[k].radio = p[k].radio /\ q[k].frame = p[k].frame
  PROVE  FramesUpTo(q, r)[n] = FramesUpTo(p, r)[n]
<1> DEFINE Bad == {m \in 0 .. n : FramesUpTo(q, r)[m] # FramesUpTo(p, r)[m]}
<1>1. SUFFICES ASSUME Bad # {} PROVE FALSE
  OBVIOUS
<1>2. PICK m \in Bad : \A x \in Bad : m <= x
  <2>1. Bad \in SUBSET Nat
    OBVIOUS
  <2> HIDE DEF Bad
  <2>2. QED
    BY <1>1, <2>1, SmallestOf
<1>3. m \in 0 .. Len(q) /\ m \in 0 .. Len(p)
  BY <1>2
<1>4. m # 0
  BY <1>2, <1>3, FramesUpToDef
<1>5. m - 1 \in 0 .. n /\ m - 1 \notin Bad /\ m \in 1 .. n
  BY <1>2, <1>4
<1>6. FramesUpTo(q, r)[m - 1] = FramesUpTo(p, r)[m - 1]
  BY <1>5
<1>7. QED
  BY <1>2, <1>3, <1>4, <1>5, <1>6, FramesUpToDef

LEMMA AppendOfConcat ==
  ASSUME NEW s \in Seq(Nat), NEW t \in Seq(Nat), NEW e \in Nat
  PROVE  Append(s \o t, e) = s \o Append(t, e)
<1>1. Append(s \o t, e) = (s \o t) \o <<e>> /\ Append(t, e) = t \o <<e>>
  BY AppendIsConcat, ConcatProperties
<1>2. <<e>> \in Seq(Nat)
  OBVIOUS
<1>3. QED
  BY <1>1, <1>2, ConcatAssociative

LEMMA FramesUpToSeq ==
  ASSUME NEW q, NEW r, Len(q) \in Nat, \A k \in 1 .. Len(q) : q[k].frame \in Nat,
         NEW n \in 0 .. Len(q)
  PROVE  FramesUpTo(q, r)[n] \in Seq(Nat)
<1> DEFINE Bad == {m \in 0 .. Len(q) : FramesUpTo(q, r)[m] \notin Seq(Nat)}
<1>1. SUFFICES ASSUME Bad # {} PROVE FALSE
  OBVIOUS
<1>2. PICK m \in Bad : \A x \in Bad : m <= x
  <2>1. Bad \in SUBSET Nat
    OBVIOUS
  <2> HIDE DEF Bad
  <2>2. QED
    BY <1>1, <2>1, SmallestOf
<1>3. m # 0
  <2>1. FramesUpTo(q, r)[0] = <<>>
    BY FramesUpToDef
  <2>2. FramesUpTo(q, r)[0] \in Seq(Nat)
    BY <2>1, EmptySeq
  <2>3. FramesUpTo(q, r)[m] \notin Seq(Nat)
    BY <1>2
  <2>4. QED
    BY <2>2, <2>3
<1>4. m - 1 \in 0 .. Len(q) /\ m - 1 \notin Bad /\ m \in 1 .. Len(q)
  BY <1>2, <1>3
<1>5. FramesUpTo(q, r)[m - 1] \in Seq(Nat) /\ q[m].frame \in Nat
  BY <1>4
<1>6. FramesUpTo(q, r)[m] =
        IF q[m].radio = r THEN Append(FramesUpTo(q, r)[m - 1], q[m].frame)
        ELSE FramesUpTo(q, r)[m - 1]
  BY <1>2, <1>3, FramesUpToDef
<1>7. FramesUpTo(q, r)[m] \in Seq(Nat)
  BY <1>5, <1>6, AppendProperties
<1>8. QED
  BY <1>2, <1>7

LEMMA FramesInSeq ==
  ASSUME NEW q, NEW r, Len(q) \in Nat, \A k \in 1 .. Len(q) : q[k].frame \in Nat
  PROVE  FramesIn(q, r) \in Seq(Nat)
<1>1. Len(q) \in 0 .. Len(q)
  OBVIOUS
<1>2. QED
  BY <1>1, FramesUpToSeq DEF FramesIn

LEMMA FramesInEmpty ==
  ASSUME NEW r
  PROVE  FramesIn(<<>>, r) = <<>>
<1>1. Len(<<>>) = 0 /\ 0 \in 0 .. Len(<<>>)
  OBVIOUS
<1>2. QED
  BY <1>1, FramesUpToDef DEF FramesIn

LEMMA FramesInConcat ==
  ASSUME NEW S, NEW q \in Seq(S), NEW p \in Seq(S), NEW r, \A e \in S : e.frame \in Nat
  PROVE  FramesIn(q \o p, r) = FramesIn(q, r) \o FramesIn(p, r)
<1> DEFINE both == q \o p
<1>1. /\ both \in Seq(S) /\ Len(both) = Len(q) + Len(p) /\ Len(q) \in Nat /\ Len(p) \in Nat
      /\ \A k \in 1 .. Len(q) : both[k] = q[k] /\ q[k] \in S
      /\ \A k \in 1 .. Len(p) : both[Len(q) + k] = p[k] /\ p[k] \in S
  OBVIOUS
<1>2. Len(both) \in Nat
  BY <1>1
<1> HIDE DEF both
<1>3. FramesUpTo(both, r)[Len(q)] = FramesIn(q, r)
  <2>1. Len(q) \in 0 .. Len(both) /\ Len(q) <= Len(q)
    BY <1>1
  <2>2. \A k \in 1 .. Len(q) : both[k].radio = q[k].radio /\ both[k].frame = q[k].frame
    BY <1>1
  <2>3. FramesUpTo(both, r)[Len(q)] = FramesUpTo(q, r)[Len(q)]
    <3>1. Len(q) \in Nat /\ Len(both) \in Nat
      BY <1>1, <1>2
    <3> HIDE DEF both
    <3>2. QED
      BY <2>1, <2>2, <3>1, FramesUpToLocal
  <2>4. QED
    BY <2>3 DEF FramesIn
<1>4. FramesIn(q, r) \in Seq(Nat)
  BY <1>1, FramesInSeq
<1> DEFINE Bad == {m \in 0 .. Len(p) : FramesUpTo(both, r)[Len(q) + m]
                                        # FramesIn(q, r) \o FramesUpTo(p, r)[m]}
<1>5. ASSUME Bad # {} PROVE FALSE
  <2>1. PICK m \in Bad : \A x \in Bad : m <= x
    <3>1. Bad \in SUBSET Nat
      OBVIOUS
    <3> HIDE DEF Bad
    <3>2. QED
      BY <1>5, <3>1, SmallestOf
  <2>2. m \in 0 .. Len(p) /\ Len(q) + m \in 0 .. Len(both)
    BY <1>1, <2>1
  <2>3. m # 0
    <3>1. FramesUpTo(p, r)[0] = <<>>
      BY <1>1, FramesUpToDef
    <3>2. QED
      BY <1>3, <1>4, <2>1, <3>1, <1>1
  <2>4. m - 1 \in 0 .. Len(p) /\ m - 1 \notin Bad /\ m \in 1 .. Len(p)
    BY <2>1, <2>2, <2>3
  <2>5. FramesUpTo(both, r)[Len(q) + (m - 1)] = FramesIn(q, r) \o FramesUpTo(p, r)[m - 1]
    BY <2>4
  <2>6. /\ both[Len(q) + m].radio = p[m].radio /\ both[Len(q) + m].frame = p[m].frame
        /\ p[m].frame \in Nat
    BY <1>1, <2>4
  <2>7. FramesUpTo(p, r)[m - 1] \in Seq(Nat)
    BY <1>1, <2>4, FramesUpToSeq
  <2>8. FramesUpTo(both, r)[Len(q) + m] =
          IF p[m].radio = r THEN Append(FramesUpTo(both, r)[Len(q) + (m - 1)], p[m].frame)
          ELSE FramesUpTo(both, r)[Len(q) + (m - 1)]
    <3>1. Len(q) + m # 0 /\ (Len(q) + m) - 1 = Len(q) + (m - 1)
      BY <1>1, <2>4
    <3>2. QED
      BY <1>2, <2>2, <2>6, <3>1, FramesUpToDef
  <2>9. FramesUpTo(p, r)[m] =
          IF p[m].radio = r THEN Append(FramesUpTo(p, r)[m - 1], p[m].frame)
          ELSE FramesUpTo(p, r)[m - 1]
    BY <1>1, <2>2, <2>3, FramesUpToDef
  <2>10. Append(FramesIn(q, r) \o FramesUpTo(p, r)[m - 1], p[m].frame)
           = FramesIn(q, r) \o Append(FramesUpTo(p, r)[m - 1], p[m].frame)
    <3> DEFINE a == FramesIn(q, r)
               b == FramesUpTo(p, r)[m - 1]
               c == p[m].frame
    <3>1. a \in Seq(Nat) /\ b \in Seq(Nat) /\ c \in Nat
      BY <1>4, <2>6, <2>7
    <3> HIDE DEF a, b, c
    <3>2. Append(a \o b, c) = a \o Append(b, c)
      BY <3>1, AppendOfConcat
    <3>3. QED
      BY <3>2 DEF a, b, c
  <2>11. QED
    BY <2>1, <2>5, <2>8, <2>9, <2>10
<1>6. Len(p) \notin Bad
  BY <1>5
<1>7. FramesUpTo(both, r)[Len(q) + Len(p)] = FramesIn(q, r) \o FramesUpTo(p, r)[Len(p)]
  BY <1>1, <1>6
<1>8. QED
  BY <1>1, <1>7 DEF FramesIn, both

LEMMA FramesInOne ==
  ASSUME NEW e, NEW r
  PROVE  FramesIn(<<e>>, r) = IF e.radio = r THEN <<e.frame>> ELSE <<>>
<1>1. Len(<<e>>) = 1 /\ <<e>>[1] = e /\ 0 \in 0 .. Len(<<e>>) /\ 1 \in 0 .. Len(<<e>>)
  OBVIOUS
<1>2. FramesUpTo(<<e>>, r)[0] = <<>>
  BY <1>1, FramesUpToDef
<1>3. FramesUpTo(<<e>>, r)[1] =
        IF <<e>>[1].radio = r THEN Append(FramesUpTo(<<e>>, r)[1 - 1], <<e>>[1].frame)
        ELSE FramesUpTo(<<e>>, r)[1 - 1]
  BY <1>1, FramesUpToDef
<1> DEFINE F == FramesUpTo(<<e>>, r)
<1>4. F[1] = IF e.radio = r THEN Append(<<>>, e.frame) ELSE <<>>
  <2>1. F[1] = IF e.radio = r THEN Append(F[0], e.frame) ELSE F[0]
    BY <1>1, <1>3
  <2> HIDE DEF F
  <2>2. QED
    BY <1>2, <2>1 DEF F
<1>5. FramesIn(<<e>>, r) = FramesUpTo(<<e>>, r)[1]
  BY <1>1 DEF FramesIn
<1>6. Append(<<>>, e.frame) = <<e.frame>>
  OBVIOUS
<1>7. QED
  BY <1>4, <1>5, <1>6
-----------------------------------------------------------------------------
(* Types *)

Event       == [radio : Radios, frame : Nat]
ReadEvent   == [radio : Radios, frame : Nat, off : 0 .. Places - 1]
OwnEvent(r) == [radio : {r}, frame : Nat, off : 0 .. Places - 1]
Packet      == [frame : Int, data : Int]

\* The thread of a radio and its transmit queue: the events are its own.
ThreadType ==
  /\ pc \in [Radios -> {"begin", "request", "drain", "end"}]
  /\ frame \in [Radios -> Nat] /\ at \in [Radios -> Nat]
  /\ hand \in [Radios -> Seq(ReadEvent)] /\ txQ \in [Radios -> Seq(ReadEvent)]
  /\ \A r \in Radios :
       /\ hand[r] \in Seq(OwnEvent(r)) /\ txQ[r] \in Seq(OwnEvent(r))
       /\ Len(hand[r]) <= 1 /\ (hand[r] # <<>> => at[r] < PerFrame)
  /\ sent \in [Radios -> Seq(Nat)] /\ wrong \in [Radios -> SUBSET Nat]

\* The reader and the queues on its way.
ReaderType ==
  /\ requests \subseteq Event
  /\ readQ \in Seq(Event) /\ reading \in Seq(Event) /\ Len(reading) <= 1
  /\ reads \in Seq(ReadEvent)
  /\ done \in 0 .. PerFrame
  /\ offset \in [Radios -> 0 .. Places - 1] /\ file \in [Radios -> Nat]
  /\ ring \in [Radios -> [0 .. Places - 1 -> Packet]]
  /\ newest \in [Radios -> Int] /\ slipped \in [Radios -> SUBSET Nat]
  /\ crowded \in [Radios -> BOOLEAN]

TypeInv == site \in Sites /\ ThreadType /\ ReaderType

LEMMA SiteFacts ==
  ASSUME site \in Sites
  PROVE  /\ Delta \in Nat \ {0} /\ FrameNum \in Nat \ {0} /\ PerFrame \in Nat \ {0}
         /\ Places \in Nat /\ PerFrame <= Places /\ Places > 0
         /\ site.radios \in Nat \ {0} /\ Radios = 0 .. site.radios - 1 /\ Radios \subseteq Nat
         /\ site.last \in Nat /\ Client \in BOOLEAN /\ Gaps \in BOOLEAN
         /\ Client => ~ Gaps
  BY TxAssumption DEF Delta, FrameNum, PerFrame, Places, Radios, Client, Gaps

LEMMA InitType == Init => TypeInv
<1> SUFFICES ASSUME Init PROVE TypeInv
  OBVIOUS
<1>1. site \in Sites
  BY DEF Init
<1>2. frame \in [Radios -> Nat]
  BY <1>1, SiteFacts DEF Init, Frames
<1>3. ThreadType
  <2>1. \A S : <<>> \in Seq(S) /\ Len(<<>>) = 0
    OBVIOUS
  <2>2. QED
    BY <1>2, <2>1 DEF Init, ThreadType
<1>4. Initially \in Seq(Event)
  <2> DEFINE R == site.radios
             M == Delta * R
  <2>1. R \in Nat \ {0} /\ M \in Nat /\ Radios = 0 .. R - 1
    BY <1>1, SiteFacts
  <2>2. ASSUME NEW n \in 1 .. M
        PROVE  (n - 1) % R \in 0 .. R - 1 /\ (n - 1) \div R \in Nat
    <3>1. n - 1 \in Nat
      BY <2>1
    <3> HIDE DEF R, M
    <3>2. QED
      BY <2>1, <3>1
  <2>3. \A n \in 1 .. M : [radio |-> (n - 1) % R, frame |-> (n - 1) \div R] \in Event
    BY <2>1, <2>2 DEF Event
  <2>4. Initially = [n \in 1 .. M |-> [radio |-> (n - 1) % R, frame |-> (n - 1) \div R]]
    BY DEF Initially
  <2> HIDE DEF R, M
  <2>5. Initially \in [1 .. M -> Event]
    BY <2>3, <2>4
  <2>6. QED
    BY <2>1, <2>5, SeqDef
<1>5. ReaderType
  BY <1>1, <1>4, SiteFacts DEF Init, ReaderType, Packet
<1>6. QED
  BY <1>1, <1>3, <1>5 DEF TypeInv

LEMMA OneEvent ==
  ASSUME NEW S, NEW q \in Seq(S), Len(q) <= 1, q # <<>>
  PROVE  q = <<q[1]>> /\ q[1] \in S /\ Len(q) = 1
<1>1. Len(q) = 1
  <2>1. Len(q) \in Nat \ {0}
    BY EmptySeq
  <2>2. QED
    BY <2>1
<1>2. q[1] \in S
  BY <1>1, ElementOfSeq
<1>3. <<q[1]>> \in Seq(S) /\ Len(<<q[1]>>) = 1 /\ <<q[1]>>[1] = q[1]
  BY <1>2
<1>4. \A i \in 1 .. Len(q) : q[i] = <<q[1]>>[i]
  BY <1>1, <1>3
<1>5. q = <<q[1]>>
  BY <1>1, <1>3, <1>4, SeqEqual
<1>6. QED
  BY <1>1, <1>2, <1>5

LEMMA HandEvent ==
  ASSUME TypeInv, NEW r \in Radios, hand[r] # <<>>
  PROVE  /\ hand[r] = <<hand[r][1]>> /\ hand[r][1] \in ReadEvent
         /\ hand[r][1].radio = r /\ hand[r][1].frame \in Nat
         /\ hand[r][1].off \in 0 .. Places - 1
<1>1. hand[r] \in Seq(OwnEvent(r)) /\ Len(hand[r]) <= 1 /\ hand[r] # <<>>
  BY DEF TypeInv, ThreadType
<1>2. hand[r] = <<hand[r][1]>> /\ hand[r][1] \in OwnEvent(r)
  BY <1>1, OneEvent
<1>3. QED
  BY <1>2 DEF OwnEvent, ReadEvent

LEMMA ReadingEvent ==
  ASSUME TypeInv, reading # <<>>
  PROVE  /\ reading = <<reading[1]>> /\ reading[1] \in Event
         /\ reading[1].radio \in Radios /\ reading[1].frame \in Nat
<1>1. reading = <<reading[1]>> /\ reading[1] \in Event
  BY OneEvent DEF TypeInv, ReaderType
<1>2. QED
  BY <1>1 DEF Event

\* The first event of a queue and what is behind it.
LEMMA HeadAndTail ==
  ASSUME NEW S, NEW q \in Seq(S), q # <<>>
  PROVE  Head(q) \in S /\ Tail(q) \in Seq(S) /\ q = <<Head(q)>> \o Tail(q)
  OBVIOUS

LEMMA AppendType ==
  ASSUME NEW S, NEW q \in Seq(S), NEW e \in S
  PROVE  Append(q, e) \in Seq(S)
  OBVIOUS

LEMMA ThreadTypeStep ==
  ASSUME TypeInv, UNCHANGED site, NEW r \in Radios, Thread(r)
  PROVE  ThreadType'
<1>1. Radios' = Radios /\ PerFrame' = PerFrame /\ ReadEvent' = ReadEvent
      /\ \A u : OwnEvent(u)' = OwnEvent(u)
  BY DEF Radios, PerFrame, ReadEvent, OwnEvent, Places
<1>2. PerFrame \in Nat \ {0}
  BY SiteFacts DEF TypeInv
<1>3. CASE BeginFrame(r) \/ AskFrame(r) \/ Drained(r)
  <2>1. UNCHANGED <<frame, hand, at, sent, wrong, txQ>>
    BY <1>3 DEF BeginFrame, AskFrame, Drained
  <2>2. pc' \in [Radios -> {"begin", "request", "drain", "end"}]
    BY <1>3 DEF BeginFrame, AskFrame, Drained, Goto, TypeInv, ThreadType
  <2>3. QED
    BY <1>1, <2>1, <2>2 DEF TypeInv, ThreadType
<1>4. CASE NextFrame(r)
  <2>1. UNCHANGED <<hand, at, sent, wrong, txQ>>
    BY <1>4 DEF NextFrame
  <2>2. pc' \in [Radios -> {"begin", "request", "drain", "end"}]
    BY <1>4 DEF NextFrame, Goto, TypeInv, ThreadType
  <2>3. frame' \in [Radios -> Nat]
    BY <1>4, SiteFacts DEF NextFrame, TypeInv, ThreadType, Frames
  <2>4. QED
    BY <1>1, <2>1, <2>2, <2>3 DEF TypeInv, ThreadType
<1>5. CASE TakeRead(r)
  <2> DEFINE q == txQ[r]
  <2>1. /\ q \in Seq(OwnEvent(r)) /\ q \in Seq(ReadEvent) /\ q # <<>>
        /\ hand' = [hand EXCEPT ![r] = <<Head(q)>>] /\ txQ' = [txQ EXCEPT ![r] = Tail(q)]
        /\ at' = [at EXCEPT ![r] = 0] /\ UNCHANGED <<pc, frame, sent, wrong>>
    BY <1>5 DEF TakeRead, TypeInv, ThreadType
  <2>2. Head(q) \in OwnEvent(r) /\ Tail(q) \in Seq(OwnEvent(r)) /\ Head(q) \in ReadEvent
        /\ Tail(q) \in Seq(ReadEvent)
    BY <2>1, HeadAndTail
  <2> HIDE DEF q
  <2>3. \A S : \A e \in S : <<e>> \in Seq(S) /\ Len(<<e>>) = 1
    OBVIOUS
  <2>4. <<Head(q)>> \in Seq(OwnEvent(r)) /\ <<Head(q)>> \in Seq(ReadEvent) /\ Len(<<Head(q)>>) = 1
    BY <2>2, <2>3
  <2>5. hand' \in [Radios -> Seq(ReadEvent)] /\ txQ' \in [Radios -> Seq(ReadEvent)]
        /\ at' \in [Radios -> Nat]
    BY <2>1, <2>2, <2>4 DEF TypeInv, ThreadType
  <2>6. ASSUME NEW u \in Radios
        PROVE  /\ hand'[u] \in Seq(OwnEvent(u)) /\ txQ'[u] \in Seq(OwnEvent(u))
               /\ Len(hand'[u]) <= 1 /\ (hand'[u] # <<>> => at'[u] < PerFrame)
    BY <1>2, <2>1, <2>2, <2>4 DEF TypeInv, ThreadType
  <2>7. QED
    BY <1>1, <2>1, <2>5, <2>6 DEF TypeInv, ThreadType
<1>6. CASE SendPacket(r)
  <2>1. /\ UNCHANGED <<pc, frame, txQ>> /\ at' = [at EXCEPT ![r] = @ + 1] /\ hand[r] # <<>>
        /\ hand[r][1].frame \in Nat
    BY <1>6, HandEvent DEF SendPacket
  <2>2. \/ UNCHANGED <<hand, sent>> /\ at[r] + 1 < PerFrame
        \/ /\ hand' = [hand EXCEPT ![r] = <<>>]
           /\ sent' = [sent EXCEPT ![r] = Append(@, hand[r][1].frame)]
    BY <1>6 DEF SendPacket
  <2>3. wrong' \in [Radios -> SUBSET Nat]
    BY <1>6, <2>1 DEF SendPacket, TypeInv, ThreadType
  <2>4. sent' \in [Radios -> Seq(Nat)]
    <3>1. sent \in [Radios -> Seq(Nat)]
      BY DEF TypeInv, ThreadType
    <3>2. Append(sent[r], hand[r][1].frame) \in Seq(Nat)
      BY <2>1, <3>1, AppendType
    <3>3. QED
      BY <2>2, <3>1, <3>2
  <2>5. /\ \A u : <<>> \in Seq(OwnEvent(u))
        /\ <<>> \in Seq(ReadEvent) /\ Len(<<>>) = 0
    OBVIOUS
  <2>6. hand' \in [Radios -> Seq(ReadEvent)] /\ at' \in [Radios -> Nat]
    <3>1. hand \in [Radios -> Seq(ReadEvent)] /\ at \in [Radios -> Nat]
      BY DEF TypeInv, ThreadType
    <3>2. at' \in [Radios -> Nat]
      BY <2>1, <3>1
    <3>3. hand' \in [Radios -> Seq(ReadEvent)]
      BY <2>2, <2>5, <3>1
    <3>4. QED
      BY <3>2, <3>3
  <2>7. ASSUME NEW u \in Radios
        PROVE  /\ hand'[u] \in Seq(OwnEvent(u)) /\ txQ'[u] \in Seq(OwnEvent(u))
               /\ Len(hand'[u]) <= 1 /\ (hand'[u] # <<>> => at'[u] < PerFrame)
    <3>1. /\ hand \in [Radios -> Seq(ReadEvent)] /\ at \in [Radios -> Nat]
          /\ hand[u] \in Seq(OwnEvent(u)) /\ txQ[u] \in Seq(OwnEvent(u))
          /\ Len(hand[u]) <= 1 /\ (hand[u] # <<>> => at[u] < PerFrame)
      BY DEF TypeInv, ThreadType
    <3>2. CASE u # r
      BY <2>1, <2>2, <3>1, <3>2
    <3>3. CASE u = r /\ hand' = hand
      BY <2>1, <2>2, <3>1, <3>3
    <3>4. CASE u = r /\ hand' # hand
      <4>1. hand'[u] = <<>>
        BY <2>2, <3>1, <3>4
      <4>2. QED
        BY <2>1, <2>5, <3>1, <4>1
    <3>5. QED
      BY <3>2, <3>3, <3>4
  <2>8. QED
    BY <1>1, <2>1, <2>3, <2>4, <2>6, <2>7 DEF TypeInv, ThreadType
<1>7. QED
  BY <1>3, <1>4, <1>5, <1>6 DEF Thread

LEMMA ThreadKeepsReader ==
  ASSUME TypeInv, UNCHANGED site, NEW r \in Radios, Thread(r)
  PROVE  ReaderType'
<1>1. /\ Event' = Event /\ ReadEvent' = ReadEvent /\ PerFrame' = PerFrame
      /\ Places' = Places /\ Radios' = Radios
  BY DEF Event, ReadEvent, PerFrame, Places, Radios
<1>2. CASE AskFrame(r)
  <2>1. /\ requests' = requests \cup {[radio |-> r, frame |-> frame[r] + Delta]}
        /\ UNCHANGED <<readQ, readerVars, reads>>
    BY <1>2 DEF AskFrame
  <2>2. [radio |-> r, frame |-> frame[r] + Delta] \in Event
    BY SiteFacts DEF TypeInv, ThreadType, Event
  <2>3. requests' \subseteq Event
    BY <2>1, <2>2 DEF TypeInv, ReaderType
  <2>4. QED
    BY <1>1, <2>1, <2>3 DEF TypeInv, ReaderType, readerVars
<1>3. CASE ~ AskFrame(r)
  <2>1. UNCHANGED <<requests, readQ, readerVars, reads>>
    BY <1>3 DEF Thread, BeginFrame, TakeRead, SendPacket, Drained, NextFrame
  <2>2. QED
    BY <1>1, <2>1 DEF TypeInv, ReaderType, readerVars
<1>4. QED
  BY <1>2, <1>3

LEMMA OtherTypeStep ==
  ASSUME TypeInv, UNCHANGED site,
         (\E e \in requests : DispatchRead(e)) \/ DispatchTx \/ Reader
  PROVE  ThreadType' /\ ReaderType'
<1>1. /\ Event' = Event /\ ReadEvent' = ReadEvent /\ PerFrame' = PerFrame
      /\ Places' = Places /\ Radios' = Radios /\ \A u : OwnEvent(u)' = OwnEvent(u)
  BY DEF Event, ReadEvent, PerFrame, Places, Radios, OwnEvent
<1>2. ASSUME NEW e \in requests, DispatchRead(e) PROVE ThreadType' /\ ReaderType'
  <2>1. /\ requests' = requests \ {e} /\ readQ' = Append(readQ, e)
        /\ UNCHANGED <<threadVars, readerVars, reads, txQ>>
    BY <1>2 DEF DispatchRead
  <2>2. readQ' \in Seq(Event) /\ requests' \subseteq Event
    BY <2>1, AppendType DEF TypeInv, ReaderType
  <2>3. ThreadType'
    BY <1>1, <2>1 DEF TypeInv, ThreadType, threadVars
  <2>4. QED
    BY <1>1, <2>1, <2>2, <2>3 DEF TypeInv, ReaderType, readerVars
<1>3. CASE DispatchTx
  <2> DEFINE e == Head(reads)
  <2>1. /\ reads \in Seq(ReadEvent) /\ reads # <<>>
        /\ txQ' = [txQ EXCEPT ![e.radio] = Append(@, e)] /\ reads' = Tail(reads)
        /\ UNCHANGED <<threadVars, requests, readQ, readerVars>>
    BY <1>3 DEF DispatchTx, TypeInv, ReaderType
  <2>2. e \in ReadEvent /\ Tail(reads) \in Seq(ReadEvent)
    BY <2>1, HeadAndTail
  <2> HIDE DEF e
  <2>3. e.radio \in Radios /\ e \in OwnEvent(e.radio)
    BY <2>2 DEF ReadEvent, OwnEvent
  <2>4. Append(txQ[e.radio], e) \in Seq(ReadEvent)
        /\ Append(txQ[e.radio], e) \in Seq(OwnEvent(e.radio))
    <3>1. txQ[e.radio] \in Seq(ReadEvent) /\ txQ[e.radio] \in Seq(OwnEvent(e.radio))
      BY <2>3 DEF TypeInv, ThreadType
    <3>2. QED
      BY <2>2, <2>3, <3>1, AppendType
  <2>5. txQ' \in [Radios -> Seq(ReadEvent)] /\ \A u \in Radios : txQ'[u] \in Seq(OwnEvent(u))
    BY <2>1, <2>3, <2>4 DEF TypeInv, ThreadType
  <2>6. ThreadType'
    BY <1>1, <2>1, <2>5 DEF TypeInv, ThreadType, threadVars
  <2>7. ReaderType'
    BY <1>1, <2>1, <2>2 DEF TypeInv, ReaderType, readerVars
  <2>8. QED
    BY <2>6, <2>7
<1>4. CASE Reader
  <2>1. UNCHANGED <<threadVars, requests, txQ>>
    BY <1>4 DEF Reader, BeginRead, ReadPacket, FinishRead
  <2>2. ThreadType'
    BY <1>1, <2>1 DEF TypeInv, ThreadType, threadVars
  <2>3. CASE BeginRead
    <3> DEFINE e == Head(readQ)
    <3>1. /\ readQ # <<>> /\ readQ \in Seq(Event) /\ reading' = <<e>> /\ readQ' = Tail(readQ)
          /\ done' = 0 /\ UNCHANGED <<offset, ring, reads>>
          /\ file' = file \/ file' = [file EXCEPT ![e.radio] = 0]
          /\ newest' = [newest EXCEPT ![e.radio] = e.frame]
          /\ slipped' = slipped \/ slipped' = [slipped EXCEPT ![e.radio] = @ \cup {e.frame}]
          /\ crowded' = [crowded EXCEPT ![e.radio] = @ \/ ~ Fits(e.radio)]
      BY <2>3 DEF BeginRead, TypeInv, ReaderType
    <3>2. e \in Event /\ Tail(readQ) \in Seq(Event)
      BY <3>1, HeadAndTail
    <3> HIDE DEF e
    <3>3. e.radio \in Radios /\ e.frame \in Nat /\ <<e>> \in Seq(Event) /\ Len(<<e>>) = 1
      BY <3>2 DEF Event
    <3>4. file' \in [Radios -> Nat] /\ newest' \in [Radios -> Int]
      <4>1. file \in [Radios -> Nat] /\ newest \in [Radios -> Int]
        BY DEF TypeInv, ReaderType
      <4>2. file' \in [Radios -> Nat]
        BY <3>1, <3>3, <4>1
      <4>3. newest' \in [Radios -> Int]
        BY <3>1, <3>3, <4>1
      <4>4. QED
        BY <4>2, <4>3
    <3>5. slipped' \in [Radios -> SUBSET Nat]
      <4>1. slipped \in [Radios -> SUBSET Nat] /\ slipped[e.radio] \cup {e.frame} \in SUBSET Nat
        BY <3>3 DEF TypeInv, ReaderType
      <4>2. QED
        BY <3>1, <3>3, <4>1
    <3>6. crowded' \in [Radios -> BOOLEAN]
      <4>1. crowded \in [Radios -> BOOLEAN] /\ (crowded[e.radio] \/ ~ Fits(e.radio)) \in BOOLEAN
        BY DEF TypeInv, ReaderType
      <4>2. QED
        BY <3>1, <4>1
    <3>7. done' \in 0 .. PerFrame
      BY <3>1, SiteFacts DEF TypeInv
    <3>8. QED
      BY <1>1, <2>1, <2>2, <3>1, <3>2, <3>3, <3>4, <3>5, <3>6, <3>7 DEF TypeInv, ReaderType
  <2>4. CASE ReadPacket
    <3> DEFINE r == reading[1].radio
    <3>1. /\ r \in Radios /\ reading[1].frame \in Nat /\ done < PerFrame /\ done' = done + 1
          /\ UNCHANGED <<readQ, reading, newest, slipped, crowded, reads>>
          /\ \/ file' = file \/ file' = [file EXCEPT ![r] = @ + 1]
          /\ offset' = [offset EXCEPT ![r] = (@ + 1) % Places]
      BY <2>4, ReadingEvent DEF ReadPacket
    <3>2. PICK d : /\ ring' = [ring EXCEPT ![r][offset[r]] = [frame |-> reading[1].frame, data |-> d]]
                   /\ d \in {file[r], ring[r][offset[r]].data}
      BY <2>4 DEF ReadPacket
    <3>3. /\ Places \in Nat /\ Places > 0 /\ PerFrame \in Nat
          /\ offset \in [Radios -> 0 .. Places - 1] /\ offset[r] \in 0 .. Places - 1
          /\ file \in [Radios -> Nat] /\ ring \in [Radios -> [0 .. Places - 1 -> Packet]]
      BY <3>1, SiteFacts DEF TypeInv, ReaderType
    <3> HIDE DEF r
    <3>4. (offset[r] + 1) % Places \in 0 .. Places - 1
      BY <3>3
    <3>5. offset' \in [Radios -> 0 .. Places - 1] /\ file' \in [Radios -> Nat]
      <4>1. offset' \in [Radios -> 0 .. Places - 1]
        BY <3>1, <3>3, <3>4
      <4>2. file' \in [Radios -> Nat]
        <5>1. file[r] + 1 \in Nat /\ file \in [Radios -> Nat]
          BY <3>1, <3>3
        <5>2. file' = file \/ file' = [file EXCEPT ![r] = file[r] + 1]
          BY <3>1
        <5>3. QED
          BY <5>1, <5>2
      <4>3. QED
        BY <4>1, <4>2
    <3>6. ring' \in [Radios -> [0 .. Places - 1 -> Packet]]
      <4>1. ring[r][offset[r]] \in Packet /\ d \in Int
        BY <3>1, <3>2, <3>3 DEF Packet
      <4>2. [frame |-> reading[1].frame, data |-> d] \in Packet
        BY <3>1, <4>1 DEF Packet
      <4>3. QED
        BY <3>1, <3>2, <3>3, <4>2
    <3>7. done' \in 0 .. PerFrame
      BY <3>1, <3>3 DEF TypeInv, ReaderType
    <3>8. QED
      BY <1>1, <2>1, <2>2, <3>1, <3>5, <3>6, <3>7 DEF TypeInv, ReaderType
  <2>5. CASE FinishRead
    <3> DEFINE e == [radio |-> reading[1].radio, frame |-> reading[1].frame,
                     off |-> (offset[reading[1].radio] - PerFrame) % Places]
    <3>1. /\ reading[1].radio \in Radios /\ reading[1].frame \in Nat /\ reading' = <<>>
          /\ reads' = Append(reads, e)
          /\ UNCHANGED <<readQ, done, offset, file, ring, newest, slipped, crowded>>
      BY <2>5, ReadingEvent DEF FinishRead
    <3>2. (offset[reading[1].radio] - PerFrame) % Places \in 0 .. Places - 1
      <4>1. /\ Places \in Nat /\ Places > 0 /\ PerFrame \in Nat
            /\ offset[reading[1].radio] \in Int
        BY <3>1, SiteFacts DEF TypeInv, ReaderType
      <4>2. QED
        BY <4>1
    <3>3. e \in ReadEvent
      BY <3>1, <3>2 DEF ReadEvent
    <3> HIDE DEF e
    <3>4. reads' \in Seq(ReadEvent)
      BY <3>1, <3>3, AppendType DEF TypeInv, ReaderType
    <3>5. reading' \in Seq(Event) /\ Len(reading') <= 1
      BY <3>1
    <3>6. QED
      BY <1>1, <2>1, <2>2, <3>1, <3>4, <3>5 DEF TypeInv, ReaderType
  <2>6. QED
    BY <1>4, <2>3, <2>4, <2>5 DEF Reader
<1>5. QED
  BY <1>2, <1>3, <1>4

LEMMA TypeStep == TypeInv /\ [Next]_vars => TypeInv'
<1> SUFFICES ASSUME TypeInv, [Next]_vars PROVE TypeInv'
  OBVIOUS
<1>1. ASSUME UNCHANGED site, NEW r \in Radios, Thread(r) PROVE TypeInv'
  BY <1>1, ThreadTypeStep, ThreadKeepsReader DEF TypeInv
<1>2. ASSUME UNCHANGED site, (\E e \in requests : DispatchRead(e)) \/ DispatchTx \/ Reader
      PROVE  TypeInv'
  BY <1>2, OtherTypeStep DEF TypeInv
<1>3. CASE UNCHANGED vars
  BY <1>3 DEF vars, threadVars, readerVars, TypeInv, ThreadType, ReaderType, Radios, PerFrame,
              Places, Event, ReadEvent, OwnEvent
<1>4. QED
  BY <1>1, <1>2, <1>3 DEF Next, Finished
-----------------------------------------------------------------------------
(* The order of the frames of a radio *)

\* Concatenation, by its algebra.
Cat(a, b) == a \o b
FrameSeq == Seq(Nat)

LEMMA CatAlgebra ==
  /\ \A a, b \in FrameSeq : Cat(a, b) \in FrameSeq
  /\ \A a \in FrameSeq : Cat(<<>>, a) = a /\ Cat(a, <<>>) = a
  /\ \A a, b, c \in FrameSeq : Cat(Cat(a, b), c) = Cat(a, Cat(b, c))
<1>1. ASSUME NEW a \in FrameSeq
      PROVE  Cat(<<>>, a) = a /\ Cat(a, <<>>) = a
  BY ConcatEmptySeq DEF Cat, FrameSeq
<1>2. ASSUME NEW a \in FrameSeq, NEW b \in FrameSeq
      PROVE  Cat(a, b) \in FrameSeq
  BY ConcatProperties DEF Cat, FrameSeq
<1>3. ASSUME NEW a \in FrameSeq, NEW b \in FrameSeq, NEW c \in FrameSeq
      PROVE  Cat(Cat(a, b), c) = Cat(a, Cat(b, c))
  BY ConcatAssociative DEF Cat, FrameSeq
<1>4. QED
  BY <1>1, <1>2, <1>3

\* The events of all queues.
Carrier == Event \cup ReadEvent

LEMMA CarrierSeq ==
  ASSUME NEW q, q \in Seq(Event) \/ q \in Seq(ReadEvent) \/ \E u : q \in Seq(OwnEvent(u)) /\ u \in Radios
  PROVE  q \in Seq(Carrier)
<1>1. \A u \in Radios : OwnEvent(u) \subseteq Carrier
  BY DEF OwnEvent, ReadEvent, Carrier
<1>2. Event \subseteq Carrier /\ ReadEvent \subseteq Carrier
  BY DEF Carrier
<1>3. QED
  BY <1>1, <1>2, SeqMonotonic

LEMMA CarrierFrames == \A e \in Carrier : e.frame \in Nat
  BY DEF Carrier, Event, ReadEvent

LEMMA CarrierIn ==
  ASSUME NEW q \in Seq(Carrier), NEW r
  PROVE  FramesIn(q, r) \in FrameSeq
<1>1. Len(q) \in Nat /\ \A k \in 1 .. Len(q) : q[k] \in Carrier
  OBVIOUS
<1>2. QED
  BY <1>1, CarrierFrames, FramesInSeq DEF FrameSeq

\* The frames on the way, one place after the other.
PipeParts ==
  \A r \in Radios :
    /\ Pipe(r) = Cat(sent[r], Cat(FramesIn(hand[r], r), Cat(FramesIn(txQ[r], r),
                 Cat(FramesIn(reads, r), Cat(FramesIn(reading, r), FramesIn(readQ, r))))))
    /\ sent[r] \in FrameSeq /\ FramesIn(hand[r], r) \in FrameSeq
    /\ FramesIn(txQ[r], r) \in FrameSeq /\ FramesIn(reads, r) \in FrameSeq
    /\ FramesIn(reading, r) \in FrameSeq /\ FramesIn(readQ, r) \in FrameSeq

LEMMA PipeIsParts == TypeInv => PipeParts
<1> SUFFICES ASSUME TypeInv, NEW r \in Radios
             PROVE  PipeParts!(r)
  BY DEF PipeParts
<1> DEFINE h == hand[r]
           t == txQ[r]
<1>1. /\ h \in Seq(Carrier) /\ t \in Seq(Carrier) /\ reads \in Seq(Carrier)
      /\ reading \in Seq(Carrier) /\ readQ \in Seq(Carrier) /\ sent[r] \in FrameSeq
  BY CarrierSeq DEF TypeInv, ThreadType, ReaderType, FrameSeq
<1>2. FramesIn(h \o t \o reads \o reading \o readQ, r)
        = FramesIn(h, r) \o FramesIn(t, r) \o FramesIn(reads, r) \o FramesIn(reading, r)
            \o FramesIn(readQ, r)
  <2> HIDE DEF h, t
  <2>1. \A a, b \in Seq(Carrier) : /\ a \o b \in Seq(Carrier)
                                  /\ FramesIn(a \o b, r) = FramesIn(a, r) \o FramesIn(b, r)
    BY ConcatProperties, FramesInConcat, CarrierFrames
  <2>2. h \o t \in Seq(Carrier) /\ (h \o t) \o reads \in Seq(Carrier)
        /\ ((h \o t) \o reads) \o reading \in Seq(Carrier)
    BY <1>1, <2>1
  <2>3. FramesIn(h \o t, r) = FramesIn(h, r) \o FramesIn(t, r)
    BY <1>1, <2>1
  <2>4. FramesIn((h \o t) \o reads, r) = FramesIn(h \o t, r) \o FramesIn(reads, r)
    BY <1>1, <2>1, <2>2
  <2>5. FramesIn(((h \o t) \o reads) \o reading, r)
          = FramesIn((h \o t) \o reads, r) \o FramesIn(reading, r)
    BY <1>1, <2>1, <2>2
  <2>6. FramesIn((((h \o t) \o reads) \o reading) \o readQ, r)
          = FramesIn(((h \o t) \o reads) \o reading, r) \o FramesIn(readQ, r)
    BY <1>1, <2>1, <2>2
  <2>7. QED
    BY <2>3, <2>4, <2>5, <2>6
<1>3. /\ FramesIn(h, r) \in FrameSeq /\ FramesIn(t, r) \in FrameSeq
      /\ FramesIn(reads, r) \in FrameSeq /\ FramesIn(reading, r) \in FrameSeq
      /\ FramesIn(readQ, r) \in FrameSeq
  BY <1>1, CarrierIn
<1> DEFINE A == FramesIn(h, r)
           B == FramesIn(t, r)
           C == FramesIn(reads, r)
           D == FramesIn(reading, r)
           E == FramesIn(readQ, r)
<1>4. A \in FrameSeq /\ B \in FrameSeq /\ C \in FrameSeq /\ D \in FrameSeq /\ E \in FrameSeq
  BY <1>3
<1>5. Pipe(r) = Cat(sent[r], Cat(Cat(Cat(Cat(A, B), C), D), E))
  BY <1>2 DEF Pipe, Cat
<1> HIDE DEF A, B, C, D, E
<1>6. Cat(Cat(Cat(Cat(A, B), C), D), E) = Cat(A, Cat(B, Cat(C, Cat(D, E))))
  <2>1. /\ Cat(A, B) \in FrameSeq /\ Cat(Cat(A, B), C) \in FrameSeq
        /\ Cat(D, E) \in FrameSeq /\ Cat(C, Cat(D, E)) \in FrameSeq
    BY <1>4, CatAlgebra
  <2>2. Cat(Cat(Cat(Cat(A, B), C), D), E) = Cat(Cat(Cat(A, B), C), Cat(D, E))
    BY <1>4, <2>1, CatAlgebra
  <2>3. Cat(Cat(Cat(A, B), C), Cat(D, E)) = Cat(Cat(A, B), Cat(C, Cat(D, E)))
    BY <1>4, <2>1, CatAlgebra
  <2>4. Cat(Cat(A, B), Cat(C, Cat(D, E))) = Cat(A, Cat(B, Cat(C, Cat(D, E))))
    BY <1>4, <2>1, CatAlgebra
  <2>5. QED
    BY <2>2, <2>3, <2>4
<1>7. QED
  BY <1>1, <1>4, <1>5, <1>6 DEF A, B, C, D, E, PipeParts

LEMMA PipeIsSeq ==
  ASSUME PipeParts, NEW r \in Radios
  PROVE  Pipe(r) \in FrameSeq
<1> DEFINE s == sent[r]
           h == FramesIn(hand[r], r)
           t == FramesIn(txQ[r], r)
           d == FramesIn(reads, r)
           g == FramesIn(reading, r)
           q == FramesIn(readQ, r)
<1>1. /\ s \in FrameSeq /\ h \in FrameSeq /\ t \in FrameSeq /\ d \in FrameSeq /\ g \in FrameSeq
      /\ q \in FrameSeq
      /\ Pipe(r) = Cat(s, Cat(h, Cat(t, Cat(d, Cat(g, q)))))
  BY DEF PipeParts
<1> HIDE DEF s, h, t, d, g, q
<1>2. Cat(g, q) \in FrameSeq
  BY <1>1, CatAlgebra
<1>3. Cat(t, Cat(d, Cat(g, q))) \in FrameSeq
  BY <1>1, <1>2, CatAlgebra
<1>4. QED
  BY <1>1, <1>3, CatAlgebra

\* The same after a step.
LEMMA PipeNext == TypeInv' => PipeParts'
  BY PipeIsParts, PTL

LEMMA OneCarried ==
  ASSUME NEW e \in Carrier, NEW r
  PROVE  /\ <<e>> \in Seq(Carrier) /\ FramesIn(<<e>>, r) \in FrameSeq
         /\ FramesIn(<<e>>, r) = IF e.radio = r THEN <<e.frame>> ELSE <<>>
<1>1. <<e>> \in Seq(Carrier)
  OBVIOUS
<1>2. QED
  BY <1>1, CarrierIn, FramesInOne

LEMMA CarrierConcat ==
  ASSUME NEW r
  PROVE  \A a, b \in Seq(Carrier) : FramesIn(Cat(a, b), r) = Cat(FramesIn(a, r), FramesIn(b, r))
  BY FramesInConcat, CarrierFrames DEF Cat

LEMMA SplitHead ==
  ASSUME NEW q \in Seq(Carrier), NEW r, q # <<>>
  PROVE  /\ Head(q) \in Carrier /\ Tail(q) \in Seq(Carrier)
         /\ FramesIn(<<Head(q)>>, r) \in FrameSeq /\ FramesIn(Tail(q), r) \in FrameSeq
         /\ FramesIn(q, r) = Cat(FramesIn(<<Head(q)>>, r), FramesIn(Tail(q), r))
<1>1. Head(q) \in Carrier /\ Tail(q) \in Seq(Carrier) /\ q = <<Head(q)>> \o Tail(q)
  BY HeadAndTail
<1>2. <<Head(q)>> \in Seq(Carrier)
  BY <1>1, OneCarried
<1>3. q = Cat(<<Head(q)>>, Tail(q))
  BY <1>1 DEF Cat
<1>4. FramesIn(q, r) = Cat(FramesIn(<<Head(q)>>, r), FramesIn(Tail(q), r))
  BY <1>1, <1>2, <1>3, CarrierConcat
<1>5. QED
  BY <1>1, <1>2, <1>4, CarrierIn

LEMMA SplitLast ==
  ASSUME NEW q \in Seq(Carrier), NEW e \in Carrier, NEW r
  PROVE  FramesIn(Append(q, e), r) = Cat(FramesIn(q, r), FramesIn(<<e>>, r))
<1>1. <<e>> \in Seq(Carrier)
  BY OneCarried
<1>2. Append(q, e) = Cat(q, <<e>>)
  BY AppendIsConcat DEF Cat
<1>3. QED
  BY <1>1, <1>2, CarrierConcat

LEMMA QueuesCarry ==
  ASSUME TypeInv, NEW r \in Radios
  PROVE  /\ hand[r] \in Seq(Carrier) /\ txQ[r] \in Seq(Carrier) /\ reads \in Seq(Carrier)
         /\ reading \in Seq(Carrier) /\ readQ \in Seq(Carrier)
  BY CarrierSeq DEF TypeInv, ThreadType, ReaderType

\* A frame that goes from one place to the next keeps its place in the order.
LEMMA TakeReadPipe ==
  ASSUME TypeInv, TypeInv', UNCHANGED site, NEW r \in Radios, NEW u \in Radios, TakeRead(u)
  PROVE  Pipe(r)' = Pipe(r)
<1>1. PipeParts /\ PipeParts' /\ Radios' = Radios
  BY PipeIsParts, PipeNext DEF Radios
<1>2. /\ hand[u] = <<>> /\ txQ[u] # <<>> /\ hand' = [hand EXCEPT ![u] = <<Head(txQ[u])>>]
      /\ txQ' = [txQ EXCEPT ![u] = Tail(txQ[u])]
      /\ UNCHANGED <<sent, reads, reading, readQ>>
  BY DEF TakeRead, readerVars
<1>3. CASE r # u
  <2>1. hand'[r] = hand[r] /\ txQ'[r] = txQ[r]
    BY <1>2, <1>3 DEF TypeInv, ThreadType
  <2>2. QED
    BY <1>1, <1>2, <2>1 DEF PipeParts
<1>4. CASE r = u
  <2>1. hand'[r] = <<Head(txQ[r])>> /\ txQ'[r] = Tail(txQ[r]) /\ hand[r] = <<>> /\ txQ[r] # <<>>
    BY <1>2, <1>4 DEF TypeInv, ThreadType
  <2> DEFINE x == FramesIn(<<Head(txQ[r])>>, r)
             y == FramesIn(Tail(txQ[r]), r)
             z == Cat(FramesIn(reads, r), Cat(FramesIn(reading, r), FramesIn(readQ, r)))
  <2>2. x \in FrameSeq /\ y \in FrameSeq /\ FramesIn(txQ[r], r) = Cat(x, y)
    BY <2>1, SplitHead, QueuesCarry
  <2>3. z \in FrameSeq
    BY <1>1, CatAlgebra DEF PipeParts
  <2>4. /\ Pipe(r) = Cat(sent[r], Cat(<<>>, Cat(Cat(x, y), z)))
        /\ Pipe(r)' = Cat(sent[r], Cat(x, Cat(y, z)))
    BY <1>1, <1>2, <2>1, <2>2, FramesInEmpty DEF PipeParts
  <2> HIDE DEF x, y, z
  <2>5. Cat(<<>>, Cat(Cat(x, y), z)) = Cat(x, Cat(y, z))
    BY <2>2, <2>3, CatAlgebra
  <2>6. QED
    BY <2>4, <2>5
<1>5. QED
  BY <1>3, <1>4

LEMMA SendPacketPipe ==
  ASSUME TypeInv, TypeInv', UNCHANGED site, NEW r \in Radios, NEW u \in Radios, SendPacket(u)
  PROVE  Pipe(r)' = Pipe(r)
<1>1. PipeParts /\ PipeParts' /\ Radios' = Radios
  BY PipeIsParts, PipeNext DEF Radios
<1>2. UNCHANGED <<txQ, reads, reading, readQ>> /\ hand[u] # <<>>
  BY DEF SendPacket, readerVars
<1>3. \/ UNCHANGED <<hand, sent>>
      \/ /\ hand' = [hand EXCEPT ![u] = <<>>]
         /\ sent' = [sent EXCEPT ![u] = Append(sent[u], hand[u][1].frame)]
  BY DEF SendPacket
<1>4. CASE hand'[r] = hand[r] /\ sent'[r] = sent[r]
  BY <1>1, <1>2, <1>4 DEF PipeParts
<1>5. CASE ~ (hand'[r] = hand[r] /\ sent'[r] = sent[r])
  <2> DEFINE x == <<hand[r][1].frame>>
             z == Cat(FramesIn(txQ[r], r), Cat(FramesIn(reads, r),
                    Cat(FramesIn(reading, r), FramesIn(readQ, r))))
  <2>1. r = u /\ hand'[r] = <<>> /\ sent'[r] = Append(sent[r], hand[r][1].frame)
    BY <1>3, <1>5 DEF TypeInv, ThreadType
  <2>2. /\ hand[r] = <<hand[r][1]>> /\ hand[r][1].radio = r /\ hand[r][1].frame \in Nat
        /\ hand[r][1] \in Carrier
    BY <1>2, <2>1, HandEvent DEF Carrier
  <2>3. FramesIn(hand[r], r) = x /\ x \in FrameSeq
    BY <2>2, OneCarried
  <2>4. sent'[r] = Cat(sent[r], x) /\ sent[r] \in FrameSeq
    <3>1. sent[r] \in Seq(Nat)
      BY DEF TypeInv, ThreadType
    <3>2. Append(sent[r], hand[r][1].frame) = sent[r] \o <<hand[r][1].frame>>
      BY <2>2, <3>1, AppendIsConcat
    <3>3. QED
      BY <2>1, <3>1, <3>2 DEF Cat, FrameSeq
  <2>5. z \in FrameSeq
    BY <1>1, CatAlgebra DEF PipeParts
  <2>6. Pipe(r) = Cat(sent[r], Cat(x, z)) /\ Pipe(r)' = Cat(Cat(sent[r], x), Cat(<<>>, z))
    BY <1>1, <1>2, <2>1, <2>3, <2>4, FramesInEmpty DEF PipeParts
  <2>7. x \in FrameSeq /\ sent[r] \in FrameSeq
    BY <2>3, <2>4
  <2> DEFINE s == sent[r]
  <2> HIDE DEF x, z, s
  <2>8. Cat(s, Cat(x, z)) = Cat(Cat(s, x), Cat(<<>>, z))
    <3>1. x \in FrameSeq /\ s \in FrameSeq /\ z \in FrameSeq
      BY <2>5, <2>7 DEF s
    <3>2. QED
      BY <3>1, CatAlgebra
  <2>9. QED
    BY <2>6, <2>8 DEF s
<1>6. QED
  BY <1>4, <1>5

LEMMA DispatchTxPipe ==
  ASSUME TypeInv, TypeInv', UNCHANGED site, NEW r \in Radios, DispatchTx
  PROVE  Pipe(r)' = Pipe(r)
<1> DEFINE e == Head(reads)
           x == FramesIn(<<e>>, r)
           t == FramesIn(txQ[r], r)
           y == FramesIn(Tail(reads), r)
           z == Cat(FramesIn(reading, r), FramesIn(readQ, r))
<1>1. PipeParts /\ PipeParts' /\ Radios' = Radios
  BY PipeIsParts, PipeNext DEF Radios
<1>2. /\ reads # <<>> /\ reads' = Tail(reads) /\ txQ' = [txQ EXCEPT ![e.radio] = Append(txQ[e.radio], e)]
      /\ UNCHANGED <<hand, sent, reading, readQ>> /\ reads \in Seq(ReadEvent)
  BY DEF DispatchTx, threadVars, readerVars, TypeInv, ReaderType
<1>3. e \in Carrier /\ x \in FrameSeq /\ y \in FrameSeq /\ FramesIn(reads, r) = Cat(x, y)
  <2>1. reads \in Seq(Carrier)
    BY QueuesCarry
  <2>2. QED
    BY <1>2, <2>1, SplitHead
<1>4. e.radio \in Radios
  <2>1. Head(reads) \in ReadEvent
    BY <1>2, HeadAndTail
  <2>2. QED
    BY <2>1 DEF ReadEvent
<1>5. FramesIn(txQ'[r], r) = Cat(t, x) /\ t \in FrameSeq
  <2>1. txQ[r] \in Seq(Carrier)
    BY QueuesCarry
  <2>2. t \in FrameSeq
    BY <2>1, CarrierIn
  <2>3. CASE e.radio = r
    <3>1. txQ'[r] = Append(txQ[r], e)
      BY <1>2, <2>3 DEF TypeInv, ThreadType
    <3>2. QED
      BY <1>3, <2>1, <2>2, <3>1, SplitLast
  <2>4. CASE e.radio # r
    <3>1. txQ'[r] = txQ[r] /\ x = <<>>
      BY <1>2, <1>3, <1>4, <2>4, OneCarried DEF TypeInv, ThreadType
    <3> HIDE DEF e, x, t
    <3>2. Cat(t, x) = t
      BY <2>2, <3>1, CatAlgebra
    <3>3. QED
      BY <2>2, <3>1, <3>2 DEF t
  <2>5. QED
    BY <2>3, <2>4
<1>6. z \in FrameSeq /\ sent[r] \in FrameSeq /\ FramesIn(hand[r], r) \in FrameSeq
  BY <1>1, CatAlgebra DEF PipeParts
<1>7. /\ Pipe(r) = Cat(sent[r], Cat(FramesIn(hand[r], r), Cat(t, Cat(Cat(x, y), z))))
      /\ Pipe(r)' = Cat(sent[r], Cat(FramesIn(hand[r], r), Cat(Cat(t, x), Cat(y, z))))
  BY <1>1, <1>2, <1>3, <1>5 DEF PipeParts
<1> HIDE DEF e, x, t, y, z
<1>8. Cat(t, Cat(Cat(x, y), z)) = Cat(Cat(t, x), Cat(y, z))
  <2>1. Cat(Cat(x, y), z) = Cat(x, Cat(y, z)) /\ Cat(y, z) \in FrameSeq
    BY <1>3, <1>6, CatAlgebra
  <2>2. QED
    BY <1>3, <1>5, <2>1, CatAlgebra
<1>9. QED
  BY <1>7, <1>8

LEMMA ReaderPipe ==
  ASSUME TypeInv, TypeInv', UNCHANGED site, NEW r \in Radios, Reader
  PROVE  Pipe(r)' = Pipe(r)
<1>1. PipeParts /\ PipeParts' /\ Radios' = Radios
  BY PipeIsParts, PipeNext DEF Radios
<1>2. CASE BeginRead
  <2> DEFINE x == FramesIn(<<Head(readQ)>>, r)
             y == FramesIn(Tail(readQ), r)
  <2>1. /\ reading = <<>> /\ readQ # <<>> /\ reading' = <<Head(readQ)>> /\ readQ' = Tail(readQ)
        /\ UNCHANGED <<hand, sent, txQ, reads>>
    BY <1>2 DEF BeginRead, threadVars
  <2>2. x \in FrameSeq /\ y \in FrameSeq /\ FramesIn(readQ, r) = Cat(x, y)
    BY <2>1, SplitHead, QueuesCarry
  <2>3. /\ Pipe(r) = Cat(sent[r], Cat(FramesIn(hand[r], r), Cat(FramesIn(txQ[r], r),
                       Cat(FramesIn(reads, r), Cat(<<>>, Cat(x, y))))))
        /\ Pipe(r)' = Cat(sent[r], Cat(FramesIn(hand[r], r), Cat(FramesIn(txQ[r], r),
                       Cat(FramesIn(reads, r), Cat(x, y)))))
    BY <1>1, <2>1, <2>2, FramesInEmpty DEF PipeParts
  <2> HIDE DEF x, y
  <2>4. Cat(<<>>, Cat(x, y)) = Cat(x, y)
    BY <2>2, CatAlgebra
  <2>5. QED
    BY <2>3, <2>4
<1>3. CASE ReadPacket
  <2>1. UNCHANGED <<hand, sent, txQ, reads, reading, readQ>>
    BY <1>3 DEF ReadPacket, threadVars
  <2>2. QED
    BY <1>1, <2>1 DEF PipeParts
<1>4. CASE FinishRead
  <2> DEFINE e == [radio |-> reading[1].radio, frame |-> reading[1].frame,
                   off |-> (offset[reading[1].radio] - PerFrame) % Places]
             x == FramesIn(<<e>>, r)
             d == FramesIn(reads, r)
             q == FramesIn(readQ, r)
  <2>1. /\ reading # <<>> /\ reading' = <<>> /\ reads' = Append(reads, e)
        /\ UNCHANGED <<hand, sent, txQ, readQ>>
    BY <1>4 DEF FinishRead, threadVars
  <2>2. reading = <<reading[1]>> /\ reading[1] \in Carrier /\ e \in Carrier
    <3>1. reading = <<reading[1]>> /\ reading[1] \in Event
      BY <2>1, ReadingEvent
    <3>3. (offset[reading[1].radio] - PerFrame) % Places \in 0 .. Places - 1
      <4>1. /\ Places \in Nat /\ Places > 0 /\ PerFrame \in Nat
            /\ offset \in [Radios -> 0 .. Places - 1] /\ reading[1].radio \in Radios
        BY <2>1, ReadingEvent, SiteFacts DEF TypeInv, ReaderType
      <4>2. offset[reading[1].radio] \in 0 .. Places - 1
        BY <4>1
      <4>3. QED
        BY <4>1, <4>2
    <3>4. e \in ReadEvent
      BY <3>1, <3>3 DEF Event, ReadEvent
    <3>5. QED
      BY <3>1, <3>4 DEF Carrier
  <2>3. FramesIn(reading, r) = x /\ x \in FrameSeq
    <3> DEFINE g == reading[1]
    <3>1. e.radio = g.radio /\ e.frame = g.frame
      OBVIOUS
    <3>2. g \in Carrier /\ e \in Carrier /\ reading = <<g>>
      BY <2>2
    <3> HIDE DEF e, g
    <3>3. FramesIn(<<g>>, r) = IF g.radio = r THEN <<g.frame>> ELSE <<>>
      BY <3>2, OneCarried
    <3>4. x \in FrameSeq /\ x = IF e.radio = r THEN <<e.frame>> ELSE <<>>
      BY <3>2, OneCarried
    <3>5. QED
      BY <3>1, <3>2, <3>3, <3>4
  <2>4. FramesIn(reads', r) = Cat(d, x)
    BY <2>1, <2>2, SplitLast, QueuesCarry
  <2>5. d \in FrameSeq /\ q \in FrameSeq
    BY <1>1 DEF PipeParts
  <2>6. /\ Pipe(r) = Cat(sent[r], Cat(FramesIn(hand[r], r), Cat(FramesIn(txQ[r], r),
                       Cat(d, Cat(x, q)))))
        /\ Pipe(r)' = Cat(sent[r], Cat(FramesIn(hand[r], r), Cat(FramesIn(txQ[r], r),
                       Cat(Cat(d, x), Cat(<<>>, q)))))
    BY <1>1, <2>1, <2>3, <2>4, FramesInEmpty DEF PipeParts
  <2> HIDE DEF e, x, d, q
  <2>7. Cat(d, Cat(x, q)) = Cat(Cat(d, x), Cat(<<>>, q))
    BY <2>3, <2>5, CatAlgebra
  <2>8. QED
    BY <2>6, <2>7
<1>5. QED
  BY <1>2, <1>3, <1>4 DEF Reader

\* An event that is handed to the reader is the last one.
LEMMA DispatchReadPipe ==
  ASSUME TypeInv, TypeInv', UNCHANGED site, NEW r \in Radios, NEW e \in requests, DispatchRead(e)
  PROVE  Pipe(r)' = Cat(Pipe(r), IF e.radio = r THEN <<e.frame>> ELSE <<>>)
<1> DEFINE x == FramesIn(<<e>>, r)
           s == sent[r]
           h == FramesIn(hand[r], r)
           t == FramesIn(txQ[r], r)
           d == FramesIn(reads, r)
           g == FramesIn(reading, r)
           q == FramesIn(readQ, r)
<1>1. PipeParts /\ PipeParts' /\ Radios' = Radios
  BY PipeIsParts, PipeNext DEF Radios
<1>2. readQ' = Append(readQ, e) /\ UNCHANGED <<hand, sent, txQ, reads, reading>> /\ e \in Carrier
  BY DEF DispatchRead, threadVars, readerVars, TypeInv, ReaderType, Carrier
<1>3. FramesIn(readQ', r) = Cat(q, x)
  BY <1>2, SplitLast, QueuesCarry
<1>4. x = (IF e.radio = r THEN <<e.frame>> ELSE <<>>) /\ x \in FrameSeq
  BY <1>2, OneCarried
<1>5. /\ s \in FrameSeq /\ h \in FrameSeq /\ t \in FrameSeq /\ d \in FrameSeq /\ g \in FrameSeq
      /\ q \in FrameSeq
  BY <1>1 DEF PipeParts
<1>6. /\ Pipe(r) = Cat(s, Cat(h, Cat(t, Cat(d, Cat(g, q)))))
      /\ Pipe(r)' = Cat(s, Cat(h, Cat(t, Cat(d, Cat(g, Cat(q, x))))))
  BY <1>1, <1>2, <1>3 DEF PipeParts
<1> HIDE DEF x, s, h, t, d, g, q
<1>7. x \in FrameSeq
  BY <1>4
<1>8. /\ Cat(g, q) \in FrameSeq /\ Cat(d, Cat(g, q)) \in FrameSeq
      /\ Cat(t, Cat(d, Cat(g, q))) \in FrameSeq /\ Cat(h, Cat(t, Cat(d, Cat(g, q)))) \in FrameSeq
  BY <1>5, CatAlgebra
<1>9. Cat(g, Cat(q, x)) = Cat(Cat(g, q), x)
  BY <1>7, <1>5, CatAlgebra
<1>10. Cat(d, Cat(Cat(g, q), x)) = Cat(Cat(d, Cat(g, q)), x)
  BY <1>7, <1>5, <1>8, CatAlgebra
<1>11. Cat(t, Cat(Cat(d, Cat(g, q)), x)) = Cat(Cat(t, Cat(d, Cat(g, q))), x)
  BY <1>7, <1>5, <1>8, CatAlgebra
<1>12. Cat(h, Cat(Cat(t, Cat(d, Cat(g, q))), x)) = Cat(Cat(h, Cat(t, Cat(d, Cat(g, q)))), x)
  BY <1>7, <1>5, <1>8, CatAlgebra
<1>13. Cat(s, Cat(Cat(h, Cat(t, Cat(d, Cat(g, q)))), x))
         = Cat(Cat(s, Cat(h, Cat(t, Cat(d, Cat(g, q))))), x)
  BY <1>7, <1>5, <1>8, CatAlgebra
<1>14. QED
  BY <1>4, <1>6, <1>9, <1>10, <1>11, <1>12, <1>13

\* The events handed over to the reader are added at the end of the order;
\* no other step changes it.
LEMMA ThreadPipe ==
  ASSUME TypeInv, TypeInv', UNCHANGED site, NEW r \in Radios, NEW u \in Radios, Thread(u)
  PROVE  Pipe(r)' = Pipe(r)
<1>1. PipeParts /\ PipeParts' /\ Radios' = Radios
  BY PipeIsParts, PipeNext DEF Radios
<1>2. CASE UNCHANGED <<sent, hand, txQ, reads, reading, readQ>>
  BY <1>1, <1>2 DEF PipeParts
<1>3. CASE BeginFrame(u) \/ AskFrame(u) \/ Drained(u) \/ NextFrame(u)
  <2>1. UNCHANGED <<sent, hand, txQ, reads, reading, readQ>>
    BY <1>3 DEF BeginFrame, AskFrame, Drained, NextFrame, readerVars
  <2>2. QED
    BY <1>2, <2>1
<1>4. QED
  BY <1>3, TakeReadPipe, SendPacketPipe DEF Thread

LEMMA NextCases ==
  ASSUME [Next]_vars
  PROVE  \/ UNCHANGED vars
         \/ /\ UNCHANGED site
            /\ \/ \E u \in Radios : Thread(u)
               \/ \E e \in requests : DispatchRead(e)
               \/ DispatchTx \/ Reader
  BY DEF Next, Finished

LEMMA PipeStutter ==
  ASSUME TypeInv, TypeInv', UNCHANGED vars, NEW r \in Radios
  PROVE  Pipe(r)' = Pipe(r)
<1>1. PipeParts /\ PipeParts' /\ Radios' = Radios
  BY PipeIsParts, PipeNext DEF Radios, vars
<1>2. UNCHANGED <<sent, hand, txQ, reads, reading, readQ>>
  BY DEF vars, threadVars, readerVars
<1>3. QED
  BY <1>1, <1>2 DEF PipeParts

LEMMA PipeStep ==
  ASSUME TypeInv, TypeInv', [Next]_vars, NEW r \in Radios
  PROVE  \/ Pipe(r)' = Pipe(r)
         \/ \E e \in requests : /\ UNCHANGED site /\ DispatchRead(e) /\ e.radio = r
                               /\ Pipe(r)' = Cat(Pipe(r), <<e.frame>>)
<1>1. PipeParts
  BY PipeIsParts
<1>2. Pipe(r) \in FrameSeq
  BY <1>1, PipeIsSeq
<1>3. CASE UNCHANGED vars
  BY <1>3, PipeStutter
<1>4. ASSUME UNCHANGED site, NEW e \in requests, DispatchRead(e)
      PROVE  \/ Pipe(r)' = Pipe(r)
             \/ \E f \in requests : /\ UNCHANGED site /\ DispatchRead(f) /\ f.radio = r
                                   /\ Pipe(r)' = Cat(Pipe(r), <<f.frame>>)
  <2>1. Pipe(r)' = Cat(Pipe(r), IF e.radio = r THEN <<e.frame>> ELSE <<>>)
    BY <1>4, DispatchReadPipe
  <2>2. CASE e.radio = r
    BY <1>4, <2>1, <2>2
  <2>3. CASE e.radio # r
    <3>1. Pipe(r)' = Cat(Pipe(r), <<>>)
      BY <2>1, <2>3
    <3>2. Cat(Pipe(r), <<>>) = Pipe(r)
      BY <1>2, CatAlgebra
    <3>3. QED
      BY <3>1, <3>2
  <2>4. QED
    BY <2>2, <2>3
<1>5. CASE /\ UNCHANGED site
           /\ \/ \E u \in Radios : Thread(u)
              \/ \E e \in requests : DispatchRead(e)
              \/ DispatchTx \/ Reader
  <2>1. CASE \E u \in Radios : Thread(u)
    BY <1>5, <2>1, ThreadPipe
  <2>2. CASE \E e \in requests : DispatchRead(e)
    BY <1>4, <1>5, <2>2
  <2>3. CASE DispatchTx \/ Reader
    BY <1>5, <2>3, DispatchTxPipe, ReaderPipe
  <2>4. QED
    BY <1>5, <2>1, <2>2, <2>3
<1>6. QED
  BY <1>3, <1>5, NextCases

LEMMA PrefixOfCat ==
  ASSUME NEW p \in Seq(Nat), NEW x \in Seq(Nat)
  PROVE  IsPrefix(p, p) /\ IsPrefix(p, Cat(p, x))
<1>1. \A a \in Seq(Nat) : a = SubSeq(a, 1, Len(a))
  OBVIOUS
<1>2. Cat(p, x) \in Seq(Nat) /\ Len(Cat(p, x)) = Len(p) + Len(x)
  BY DEF Cat
<1>3. SubSeq(Cat(p, x), 1, Len(p)) = p
  BY DEF Cat
<1>4. QED
  BY <1>1, <1>2, <1>3 DEF IsPrefix

\* The type invariant holds in every behaviour.
THEOREM TypeCorrect == Spec => []TypeInv
<1>1. Init => TypeInv
  BY InitType
<1>2. QED
  BY <1>1, TypeStep, PTL DEF Spec

\* From the reader's queue to the air the frames of a radio keep their order
\* and none is lost or doubled (scheduler.cc:257-290, receiver.cc:253), for
\* every site, every length of the run and every content of the queues.
THEOREM OrderKept == Spec => KeepsOrder
<1>1. ASSUME TypeInv, TypeInv', [Next]_vars
      PROVE  [\A r \in Radios : IsPrefix(Pipe(r), Pipe(r)')]_vars
  <2> SUFFICES ASSUME NEW r \in Radios PROVE IsPrefix(Pipe(r), Pipe(r)')
    OBVIOUS
  <2>1. Pipe(r) \in Seq(Nat)
    BY <1>1, PipeIsParts, PipeIsSeq DEF FrameSeq
  <2>2. CASE Pipe(r)' = Pipe(r)
    BY <2>1, <2>2, PrefixOfCat
  <2>3. ASSUME NEW e \in requests, Pipe(r)' = Cat(Pipe(r), <<e.frame>>)
        PROVE  IsPrefix(Pipe(r), Pipe(r)')
    <3>1. e.frame \in Nat
      BY <1>1 DEF TypeInv, ReaderType, Event
    <3>2. <<e.frame>> \in Seq(Nat)
      BY <3>1
    <3>3. QED
      BY <2>1, <2>3, <3>2, PrefixOfCat
  <2>4. QED
    BY <1>1, <2>2, <2>3, PipeStep
<1>2. QED
  BY <1>1, TypeCorrect, PTL DEF Spec, KeepsOrder
-----------------------------------------------------------------------------
(* Every frame once *)

LEMMA AppendOnce ==
  ASSUME NEW p \in Seq(Nat), NEW f \in Nat
  PROVE  /\ \A g : g \in ToSet(Append(p, f)) <=> g \in ToSet(p) \/ g = f
         /\ IsInjective(p) /\ f \notin ToSet(p) => IsInjective(Append(p, f))
<1> DEFINE a == Append(p, f)
           n == Len(p)
<1>1. /\ n \in Nat /\ DOMAIN p = 1 .. n /\ DOMAIN a = 1 .. n + 1 /\ a[n + 1] = f
      /\ \A k \in 1 .. n : a[k] = p[k]
  OBVIOUS
<1> HIDE DEF a, n
<1>2. \A k \in DOMAIN a : k \in DOMAIN p \/ k = n + 1
  BY <1>1
<1>3. n + 1 \in DOMAIN a /\ DOMAIN p \subseteq DOMAIN a /\ \A k \in DOMAIN p : a[k] = p[k]
  BY <1>1
<1>4. \A g : g \in ToSet(a) <=> g \in ToSet(p) \/ g = f
  BY <1>1, <1>2, <1>3 DEF ToSet
<1>5. IsInjective(p) /\ f \notin ToSet(p) => IsInjective(a)
  BY <1>1, <1>2, <1>3 DEF ToSet, IsInjective
<1>6. QED
  BY <1>4, <1>5 DEF a

\* A queue that holds no frame of a radio twice.
LEMMA FramesHeld ==
  ASSUME NEW q \in Seq(Carrier), NEW r,
         \A i, j \in 1 .. Len(q) :
           q[i].radio = r /\ q[j].radio = r /\ q[i].frame = q[j].frame => i = j
  PROVE  /\ IsInjective(FramesIn(q, r))
         /\ \A f : f \in ToSet(FramesIn(q, r))
                     <=> \E k \in 1 .. Len(q) : q[k].radio = r /\ q[k].frame = f
<1> DEFINE F == FramesUpTo(q, r)
           Held(m) == /\ IsInjective(F[m])
                      /\ \A f : f \in ToSet(F[m])
                                  <=> \E k \in 1 .. m : q[k].radio = r /\ q[k].frame = f
           Bad == {m \in 0 .. Len(q) : ~ Held(m)}
<1>1. Len(q) \in Nat /\ \A k \in 1 .. Len(q) : q[k].frame \in Nat
  <2>1. Len(q) \in Nat /\ \A k \in 1 .. Len(q) : q[k] \in Carrier
    OBVIOUS
  <2>2. QED
    BY <2>1, CarrierFrames
<1>2. ASSUME Bad # {} PROVE FALSE
  <2>1. PICK m \in Bad : \A x \in Bad : m <= x
    <3>1. Bad \in SUBSET Nat
      OBVIOUS
    <3> HIDE DEF Bad
    <3>2. QED
      BY <1>2, <3>1, SmallestOf
  <2>2. m \in 0 .. Len(q) /\ ~ Held(m)
    BY <2>1
  <2>3. m # 0
    <3>1. F[0] = <<>>
      BY <1>1, FramesUpToDef
    <3>2. IsInjective(F[0])
      <4>1. IsInjective(<<>>)
        BY DEF IsInjective
      <4>2. QED
        BY <3>1, <4>1
    <3>3. ToSet(F[0]) = {}
      <4>1. ToSet(<<>>) = {}
        BY DEF ToSet
      <4>2. QED
        BY <3>1, <4>1
    <3>4. \A k : k \notin 1 .. 0
      OBVIOUS
    <3> HIDE DEF F
    <3>5. Held(0)
      BY <3>2, <3>3, <3>4
    <3> HIDE DEF Held
    <3>6. QED
      BY <2>2, <3>5
  <2>4. m - 1 \in 0 .. Len(q) /\ m \in 1 .. Len(q) /\ m - 1 \notin Bad
    <3>1. m - 1 \in 0 .. Len(q) /\ m \in 1 .. Len(q) /\ ~ (m <= m - 1)
      BY <1>1, <2>2, <2>3
    <3> HIDE DEF Bad
    <3>2. QED
      BY <2>1, <3>1
  <2>5. Held(m - 1)
    BY <2>4
  <2>6. F[m - 1] \in Seq(Nat) /\ q[m].frame \in Nat
    BY <1>1, <2>4, FramesUpToSeq
  <2>7. F[m] = IF q[m].radio = r THEN Append(F[m - 1], q[m].frame) ELSE F[m - 1]
    BY <1>1, <2>2, <2>3, FramesUpToDef
  <2>8. 1 .. m = (1 .. m - 1) \cup {m} /\ 1 .. m \subseteq 1 .. Len(q) /\ m \notin 1 .. m - 1
    BY <1>1, <2>4
  <2> HIDE DEF F, Bad
  <2>9. CASE q[m].radio = r
    <3>1. q[m].frame \notin ToSet(F[m - 1])
      BY <2>4, <2>5, <2>8, <2>9
    <3>2. Held(m)
      BY <2>5, <2>6, <2>7, <2>8, <2>9, <3>1, AppendOnce
    <3>3. QED
      BY <2>2, <3>2
  <2>10. CASE q[m].radio # r
    <3>1. F[m] = F[m - 1]
      BY <2>7, <2>10
    <3>2. Held(m)
      BY <2>5, <2>8, <2>10, <3>1
    <3>3. QED
      BY <2>2, <3>2
  <2>11. QED
    BY <2>9, <2>10
<1>3. Len(q) \notin Bad
  BY <1>2
<1>4. Held(Len(q))
  BY <1>1, <1>3
<1>5. QED
  BY <1>4 DEF FramesIn

\* What a radio's thread has asked for and the reader's queue has not got yet.
Waiting(r) == {e.frame : e \in {q \in requests : q.radio = r}}

\* The frame of the next request: the thread asks once in each of its frames.
AskedNow(r) == pc[r] = "end" \/ (Client /\ pc[r] = "drain")
Coming(r)   == frame[r] + Delta + (IF AskedNow(r) THEN 1 ELSE 0)

\* OnceEach, and nothing on the way is ahead of the requests.
AskInv ==
  \A r \in Radios :
    /\ IsInjective(Pipe(r)) /\ ToSet(Pipe(r)) \cap Waiting(r) = {}
    /\ \A f \in ToSet(Pipe(r)) \cup Waiting(r) : f \in Nat /\ f < Coming(r)
    /\ ~ Gaps => \A f \in Nat : f < Coming(r) => f \in ToSet(Pipe(r)) \cup Waiting(r)

LEMMA AskGivesOnce == TypeInv /\ AskInv => OnceEach
<1> SUFFICES ASSUME TypeInv, AskInv, NEW r \in Radios
             PROVE  /\ IsInjective(Pipe(r)) /\ ToSet(Pipe(r)) \cap Waiting(r) = {}
                    /\ ~ Gaps => ToSet(Pipe(r)) \cup Waiting(r) =
                                    0 .. frame[r] + Delta - (IF AskedNow(r) THEN 0 ELSE 1)
  BY DEF OnceEach, Waiting, AskedNow
<1>1. frame[r] \in Nat /\ Delta \in Nat
  BY SiteFacts DEF TypeInv, ThreadType
<1>2. 0 .. frame[r] + Delta - (IF AskedNow(r) THEN 0 ELSE 1) = {f \in Nat : f < Coming(r)}
  BY <1>1 DEF Coming
<1>3. QED
  BY <1>2 DEF AskInv

LEMMA InitAsk == Init => AskInv
<1> SUFFICES ASSUME Init, NEW r \in Radios PROVE AskInv!(r)
  BY DEF AskInv
<1>1. TypeInv
  BY InitType
<1> DEFINE R == site.radios
           M == Delta * R
<1>2. R \in Nat \ {0} /\ Delta \in Nat \ {0} /\ M \in Nat /\ r \in 0 .. R - 1
  BY <1>1, SiteFacts DEF TypeInv
<1>3. Initially \in Seq(Carrier) /\ readQ = Initially
  BY <1>1, CarrierSeq DEF Init, TypeInv, ReaderType
<1>4. /\ Len(Initially) = M
      /\ \A n \in 1 .. M : /\ Initially[n].radio = (n - 1) % R
                           /\ Initially[n].frame = (n - 1) \div R
  <2>1. Initially = [n \in 1 .. M |-> [radio |-> (n - 1) % R, frame |-> (n - 1) \div R]]
    BY DEF Initially
  <2> HIDE DEF R, M
  <2>2. DOMAIN Initially = 1 .. M /\ DOMAIN Initially = 1 .. Len(Initially) /\ Len(Initially) \in Nat
    BY <1>3, <2>1, LenProperties
  <2>3. Len(Initially) = M
    BY <1>2, <2>2
  <2>4. QED
    BY <2>1, <2>3
<1>5. ASSUME NEW n \in 1 .. M
      PROVE  /\ n - 1 = R * ((n - 1) \div R) + ((n - 1) % R)
             /\ (n - 1) % R = r => (n - 1) \div R \in 0 .. Delta - 1
  <2>1. n - 1 \in Nat /\ n - 1 < Delta * R
    BY <1>2
  <2> HIDE DEF R, M
  <2>2. PICK k \in Nat, j \in Nat : k = (n - 1) \div R /\ j = (n - 1) % R
    BY <1>2, <2>1
  <2>3. n - 1 = R * k + j /\ j < R
    BY <1>2, <2>1, <2>2
  <2>4. k < Delta
    <3>1. k >= Delta => R * k >= R * Delta
      BY <1>2
    <3>2. R * Delta = Delta * R
      BY <1>2
    <3> DEFINE a == R * k
               b == Delta * R
    <3>3. a \in Nat /\ b \in Nat /\ n - 1 = a + j /\ n - 1 < b /\ (k >= Delta => a >= b)
      BY <1>2, <2>1, <2>3, <3>1, <3>2
    <3> HIDE DEF a, b
    <3>4. ~ (k >= Delta)
      BY <3>3
    <3>5. QED
      BY <1>2, <3>4
  <2>5. k \in 0 .. Delta - 1
    BY <1>2, <2>4
  <2>6. n - 1 = R * ((n - 1) \div R) + ((n - 1) % R)
    BY <2>2, <2>3, Zenon
  <2>7. (n - 1) \div R \in 0 .. Delta - 1
    BY <2>2, <2>5, Zenon
  <2>8. QED
    BY <2>6, <2>7
<1>6. ASSUME NEW f \in 0 .. Delta - 1
      PROVE  /\ f * R + r + 1 \in 1 .. M
             /\ ((f * R + r + 1) - 1) % R = r /\ ((f * R + r + 1) - 1) \div R = f
  <2> HIDE DEF R
  <2>1. f * R + r + 1 \in 1 .. M
    <3>1. f * R \in Nat /\ f * R + R = (f + 1) * R
      BY <1>2
    <3>2. (f + 1) * R <= Delta * R
      BY <1>2
    <3>3. QED
      BY <1>2, <3>1, <3>2
  <2>2. (f * R + r) % R = r /\ (f * R + r) \div R = f
    BY <1>2
  <2>3. (f * R + r + 1) - 1 = f * R + r
    BY <1>2
  <2>4. QED
    BY <2>1, <2>2, <2>3
<1> HIDE DEF R, M
<1>7. /\ IsInjective(FramesIn(Initially, r))
      /\ \A f : f \in ToSet(FramesIn(Initially, r)) <=> f \in 0 .. Delta - 1
  <2>1. \A i, j \in 1 .. M :
          Initially[i].radio = r /\ Initially[j].radio = r /\ Initially[i].frame = Initially[j].frame
            => i = j
    <3> SUFFICES ASSUME NEW i \in 1 .. M, NEW j \in 1 .. M, Initially[i].radio = r,
                        Initially[j].radio = r, Initially[i].frame = Initially[j].frame
                 PROVE  i = j
      OBVIOUS
    <3>1. (i - 1) % R = (j - 1) % R /\ (i - 1) \div R = (j - 1) \div R
      BY <1>4
    <3>2. /\ i - 1 = R * ((i - 1) \div R) + ((i - 1) % R)
          /\ j - 1 = R * ((j - 1) \div R) + ((j - 1) % R)
      BY <1>5
    <3> DEFINE di == (i - 1) \div R
               mi == (i - 1) % R
               dj == (j - 1) \div R
               mj == (j - 1) % R
    <3>5. mi = mj /\ di = dj /\ i - 1 = R * di + mi /\ j - 1 = R * dj + mj
      BY <3>1, <3>2
    <3> HIDE DEF di, mi, dj, mj
    <3>3. i - 1 = j - 1
      BY <3>5
    <3>4. QED
      BY <1>2, <3>3
  <2>2. /\ IsInjective(FramesIn(Initially, r))
        /\ \A f : f \in ToSet(FramesIn(Initially, r))
                    <=> \E k \in 1 .. M : Initially[k].radio = r /\ Initially[k].frame = f
    BY <1>3, <1>4, <2>1, FramesHeld
  <2>3. ASSUME NEW f
        PROVE  f \in 0 .. Delta - 1
                 <=> \E k \in 1 .. M : Initially[k].radio = r /\ Initially[k].frame = f
    <3>1. ASSUME f \in 0 .. Delta - 1
          PROVE  \E k \in 1 .. M : Initially[k].radio = r /\ Initially[k].frame = f
      BY <1>4, <1>6, <3>1
    <3>2. ASSUME NEW k \in 1 .. M, Initially[k].radio = r, Initially[k].frame = f
          PROVE  f \in 0 .. Delta - 1
      BY <1>4, <1>5, <3>2
    <3>3. QED
      BY <3>1, <3>2
  <2>4. QED
    BY <2>2, <2>3
<1>8. Pipe(r) = FramesIn(Initially, r)
  <2>1. /\ sent[r] = <<>> /\ hand[r] = <<>> /\ txQ[r] = <<>> /\ reads = <<>> /\ reading = <<>>
        /\ FramesIn(<<>>, r) = <<>>
    BY FramesInEmpty DEF Init
  <2>2. /\ PipeParts
        /\ FramesIn(Initially, r) \in FrameSeq
    BY <1>1, <1>3, PipeIsParts DEF PipeParts
  <2>3. Pipe(r) = Cat(<<>>, Cat(<<>>, Cat(<<>>, Cat(<<>>, Cat(<<>>, FramesIn(Initially, r))))))
    BY <1>3, <2>1, <2>2 DEF PipeParts
  <2>4. Cat(<<>>, FramesIn(Initially, r)) = FramesIn(Initially, r)
    BY <2>2, CatAlgebra
  <2>5. QED
    BY <2>3, <2>4
<1>9. Waiting(r) = {}
  BY DEF Waiting, Init
<1>10. frame[r] \in Nat /\ Coming(r) = frame[r] + Delta /\ (~ Gaps => frame[r] = 0)
  BY <1>1, <1>2 DEF Init, Coming, AskedNow, TypeInv, ThreadType
<1>11. QED
  BY <1>2, <1>7, <1>8, <1>9, <1>10

\* What a step does to the frames of a radio: nothing but to let its thread
\* come to the next frame, a request, or a request that is handed over.
Passes(r) == /\ Pipe(r)' = Pipe(r) /\ Waiting(r)' = Waiting(r)
             /\ Coming(r)' \in Nat /\ Coming(r)' >= Coming(r)
             /\ ~ Gaps => Coming(r)' = Coming(r)
Asks(r)   == /\ Pipe(r)' = Pipe(r) /\ Waiting(r)' = Waiting(r) \cup {Coming(r)}
             /\ Coming(r)' = Coming(r) + 1
Hands(r)  == \E f \in Waiting(r) :
               /\ Pipe(r)' = Cat(Pipe(r), <<f>>) /\ Waiting(r)' = Waiting(r) \ {f}
               /\ Coming(r)' = Coming(r)

LEMMA ComingType ==
  ASSUME TypeInv, NEW r \in Radios
  PROVE  Coming(r) \in Nat /\ frame[r] \in Nat /\ Delta \in Nat
  BY SiteFacts DEF TypeInv, ThreadType, Coming

LEMMA ThreadAsks ==
  ASSUME TypeInv, TypeInv', UNCHANGED site, NEW u \in Radios, Thread(u), NEW r \in Radios
  PROVE  Passes(r) \/ Asks(r)
<1>1. Pipe(r)' = Pipe(r)
  BY ThreadPipe
<1>2. /\ Client' = Client /\ Delta' = Delta /\ Gaps' = Gaps /\ Client \in BOOLEAN
      /\ pc \in [Radios -> {"begin", "request", "drain", "end"}] /\ frame \in [Radios -> Nat]
      /\ Delta \in Nat
  BY SiteFacts DEF Client, Delta, Gaps, TypeInv, ThreadType
<1>3. Coming(r) \in Nat /\ (Client => ~ Gaps)
  BY ComingType, SiteFacts DEF TypeInv
<1>4. ASSUME requests' = requests, frame'[r] = frame[r], AskedNow(r)' = AskedNow(r)
      PROVE  Passes(r)
  <2>1. Waiting(r)' = Waiting(r)
    BY <1>4 DEF Waiting
  <2>2. Coming(r)' = Coming(r)
    BY <1>2, <1>4 DEF Coming
  <2>3. QED
    BY <1>1, <1>3, <2>1, <2>2 DEF Passes
<1>5. CASE BeginFrame(u) \/ Drained(u)
  <2>1. requests' = requests /\ frame' = frame
    BY <1>5 DEF BeginFrame, Drained
  <2>2. AskedNow(r)' = AskedNow(r)
    BY <1>2, <1>5 DEF BeginFrame, Drained, Goto, AskedNow
  <2>3. QED
    BY <1>4, <2>1, <2>2
<1>6. CASE TakeRead(u) \/ SendPacket(u)
  <2>1. requests' = requests /\ frame' = frame /\ pc' = pc
    BY <1>6 DEF TakeRead, SendPacket
  <2>2. AskedNow(r)' = AskedNow(r)
    BY <1>2, <2>1 DEF AskedNow
  <2>3. QED
    BY <1>4, <2>1, <2>2
<1>7. CASE AskFrame(u)
  <2>1. /\ requests' = requests \cup {[radio |-> u, frame |-> frame[u] + Delta]}
        /\ pc[u] = "request" /\ pc' = [pc EXCEPT ![u] = IF Client THEN "drain" ELSE "end"]
        /\ frame' = frame
    BY <1>7 DEF AskFrame, Goto
  <2>2. CASE r = u
    <3>1. Waiting(r)' = Waiting(r) \cup {frame[r] + Delta}
      <4> DEFINE e == [radio |-> u, frame |-> frame[u] + Delta]
      <4>1. requests' = requests \cup {e} /\ e.radio = r /\ e.frame = frame[r] + Delta
        BY <2>1, <2>2
      <4> HIDE DEF e
      <4>2. {q \in requests' : q.radio = r} = {q \in requests : q.radio = r} \cup {e}
        BY <4>1
      <4>3. QED
        BY <4>1, <4>2 DEF Waiting
    <3>2. ~ AskedNow(r) /\ AskedNow(r)'
      BY <1>2, <2>1, <2>2 DEF AskedNow
    <3>3. Coming(r) = frame[r] + Delta /\ Coming(r)' = frame[r] + Delta + 1
      BY <1>2, <2>1, <3>2 DEF Coming
    <3>4. QED
      BY <1>1, <3>1, <3>3 DEF Asks
  <2>3. CASE r # u
    <3>1. Waiting(r)' = Waiting(r)
      BY <2>1, <2>3 DEF Waiting
    <3>2. AskedNow(r)' = AskedNow(r)
      BY <1>2, <2>1, <2>3 DEF AskedNow
    <3>3. Coming(r)' = Coming(r)
      BY <1>2, <2>1, <3>2 DEF Coming
    <3>4. QED
      BY <1>1, <1>3, <3>1, <3>3 DEF Passes
  <2>4. QED
    BY <2>2, <2>3
<1>8. CASE NextFrame(u)
  <2>1. PICK f \in Frames : /\ f > frame[u] /\ (f # frame[u] + 1 => Gaps)
                           /\ frame' = [frame EXCEPT ![u] = f]
    BY <1>8 DEF NextFrame
  <2>2. requests' = requests /\ pc[u] = "end" /\ pc' = [pc EXCEPT ![u] = "begin"]
    BY <1>8 DEF NextFrame, Goto
  <2>3. f \in Nat
    BY SiteFacts DEF Frames, TypeInv
  <2>4. CASE r = u
    <3>1. AskedNow(r) /\ ~ AskedNow(r)' /\ frame'[r] = f /\ pc'[r] = "begin"
      BY <1>2, <2>1, <2>2, <2>4 DEF AskedNow
    <3>2. Coming(r) = frame[r] + Delta + 1 /\ Coming(r)' = f + Delta
      BY <1>2, <2>3, <3>1 DEF Coming
    <3>3. Waiting(r)' = Waiting(r)
      BY <2>2 DEF Waiting
    <3>4. frame[r] \in Nat
      BY <1>2
    <3>5. QED
      BY <1>1, <1>2, <2>1, <2>3, <2>4, <3>2, <3>3, <3>4 DEF Passes
  <2>5. CASE r # u
    <3>1. frame'[r] = frame[r] /\ pc'[r] = pc[r]
      BY <1>2, <2>1, <2>2, <2>5
    <3>2. AskedNow(r)' = AskedNow(r)
      BY <1>2, <3>1 DEF AskedNow
    <3>3. QED
      BY <1>4, <2>2, <3>1, <3>2
  <2>6. QED
    BY <2>4, <2>5
<1>9. QED
  BY <1>5, <1>6, <1>7, <1>8 DEF Thread

LEMMA AskEffects ==
  ASSUME TypeInv, TypeInv', [Next]_vars, NEW r \in Radios
  PROVE  Passes(r) \/ Asks(r) \/ Hands(r)
<1>1. ASSUME UNCHANGED <<site, pc, frame>>
      PROVE  Coming(r)' = Coming(r) /\ Coming(r) \in Nat
  BY <1>1, ComingType DEF Coming, AskedNow, Client, Delta
<1>2. ASSUME UNCHANGED <<site, pc, frame, requests>>, Pipe(r)' = Pipe(r)
      PROVE  Passes(r)
  BY <1>1, <1>2 DEF Passes, Waiting
<1>3. CASE UNCHANGED vars
  BY <1>2, <1>3, PipeStutter DEF vars, threadVars
<1>4. ASSUME UNCHANGED site, NEW u \in Radios, Thread(u)
      PROVE  Passes(r) \/ Asks(r)
  BY <1>4, ThreadAsks
<1>5. ASSUME UNCHANGED site, DispatchTx \/ Reader
      PROVE  Passes(r)
  <2>1. UNCHANGED <<pc, frame, requests>>
    BY <1>5 DEF DispatchTx, Reader, BeginRead, ReadPacket, FinishRead, threadVars
  <2>2. QED
    BY <1>2, <1>5, <2>1, DispatchTxPipe, ReaderPipe
<1>6. ASSUME UNCHANGED site, NEW e \in requests, DispatchRead(e)
      PROVE  Passes(r) \/ Hands(r)
  <2>1. requests' = requests \ {e} /\ UNCHANGED <<pc, frame>> /\ requests \subseteq Event
    BY <1>6 DEF DispatchRead, threadVars, TypeInv, ReaderType
  <2>2. Pipe(r)' = Cat(Pipe(r), IF e.radio = r THEN <<e.frame>> ELSE <<>>)
    BY <1>6, DispatchReadPipe
  <2>3. CASE e.radio = r
    <3>1. \A x \in requests : x.radio = r /\ x.frame = e.frame => x = e
      BY <2>1, <2>3 DEF Event
    <3>2. Waiting(r)' = Waiting(r) \ {e.frame} /\ e.frame \in Waiting(r)
      BY <2>1, <2>3, <3>1 DEF Waiting
    <3>3. QED
      BY <1>1, <1>6, <2>1, <2>2, <2>3, <3>2 DEF Hands
  <2>4. CASE e.radio # r
    <3>1. Waiting(r)' = Waiting(r)
      BY <2>1, <2>4 DEF Waiting
    <3>2. Pipe(r)' = Cat(Pipe(r), <<>>)
      BY <2>2, <2>4
    <3>3. Pipe(r) \in FrameSeq
      BY PipeIsParts, PipeIsSeq
    <3>4. Pipe(r)' = Pipe(r)
      BY <3>2, <3>3, CatAlgebra
    <3>5. QED
      BY <1>1, <1>6, <2>1, <3>1, <3>4 DEF Passes
  <2>5. QED
    BY <2>3, <2>4
<1>7. QED
  BY <1>3, <1>4, <1>5, <1>6, NextCases

LEMMA AskStep ==
  TypeInv /\ TypeInv' /\ AskInv /\ [Next]_vars => AskInv'
<1> SUFFICES ASSUME TypeInv, TypeInv', AskInv, [Next]_vars, NEW r \in Radios'
             PROVE  AskInv!(r)'
  BY DEF AskInv
<1>1. r \in Radios /\ Gaps' = Gaps
  BY NextCases DEF Radios, Gaps, Client, vars
<1>2. AskInv!(r) /\ Coming(r) \in Nat
  BY <1>1, ComingType DEF AskInv
<1>3. CASE Passes(r)
  BY <1>1, <1>2, <1>3 DEF Passes
<1>4. CASE Asks(r)
  BY <1>1, <1>2, <1>4 DEF Asks
<1>5. CASE Hands(r)
  <2>1. PICK f \in Waiting(r) :
               /\ Pipe(r)' = Cat(Pipe(r), <<f>>) /\ Waiting(r)' = Waiting(r) \ {f}
               /\ Coming(r)' = Coming(r)
    BY <1>5 DEF Hands
  <2>2. Pipe(r) \in Seq(Nat) /\ f \in Nat /\ f \notin ToSet(Pipe(r))
    BY <1>1, <1>2, PipeIsParts, PipeIsSeq DEF FrameSeq
  <2>3. Cat(Pipe(r), <<f>>) = Append(Pipe(r), f)
    BY <2>2, AppendIsConcat DEF Cat
  <2>4. IsInjective(Pipe(r)') /\ \A g : g \in ToSet(Pipe(r)') <=> g \in ToSet(Pipe(r)) \/ g = f
    <3> DEFINE p == Pipe(r)
    <3>1. p \in Seq(Nat) /\ f \in Nat /\ IsInjective(p) /\ f \notin ToSet(p)
      BY <1>2, <2>2
    <3>2. Pipe(r)' = Append(p, f)
      BY <2>1, <2>3
    <3> HIDE DEF p
    <3>3. IsInjective(Append(p, f)) /\ \A g : g \in ToSet(Append(p, f)) <=> g \in ToSet(p) \/ g = f
      BY <3>1, AppendOnce
    <3>4. QED
      BY <3>2, <3>3 DEF p
  <2>5. QED
    BY <1>1, <1>2, <2>1, <2>4
<1>6. QED
  BY <1>1, <1>3, <1>4, <1>5, AskEffects

\* Every frame that was asked for is once on the way or sent, and so are the
\* frames the reader starts with (hdf5_reader.cc:168-171, receiver.cc:527).
THEOREM EachOnce == Spec => []OnceEach
<1>1. Init => TypeInv /\ AskInv
  BY InitType, InitAsk
<1>2. TypeInv /\ AskInv /\ [Next]_vars => (TypeInv /\ AskInv)'
  BY TypeStep, AskStep
<1>3. TypeInv /\ AskInv => OnceEach
  BY AskGivesOnce
<1>4. QED
  BY <1>1, <1>2, <1>3, PTL DEF Spec
-----------------------------------------------------------------------------
(* The ring: places and packets on the way *)

\* A place of a ring of P packets, counted from its beginning, one turn before
\* or after.
Wrap(P, x) == IF x < 0 THEN x + P ELSE IF x < P THEN x ELSE x - P

LEMMA WrapIsMod ==
  ASSUME NEW P \in Nat \ {0}, NEW x \in Int, - P <= x, x < P + P
  PROVE  x % P = Wrap(P, x) /\ Wrap(P, x) \in 0 .. P - 1
<1>1. \A y \in 0 .. P - 1 : y % P = y /\ (y + P) % P = y /\ (y - P) % P = y
  OBVIOUS
<1>2. CASE x < 0
  <2>1. x + P \in 0 .. P - 1 /\ (x + P) - P = x
    BY <1>2
  <2>2. x % P = x + P
    BY <1>1, <2>1
  <2>3. QED
    BY <1>2, <2>1, <2>2 DEF Wrap
<1>3. CASE x >= 0 /\ x < P
  BY <1>1, <1>3 DEF Wrap
<1>4. CASE x >= P
  <2>1. x - P \in 0 .. P - 1 /\ (x - P) + P = x /\ ~ (x < 0) /\ ~ (x < P)
    BY <1>4
  <2>2. x % P = x - P
    BY <1>1, <2>1
  <2>3. QED
    BY <2>1, <2>2 DEF Wrap
<1>5. QED
  BY <1>2, <1>3, <1>4

\* The packet of the file with which frame f begins.
First(s, f) == (f % s.file) * s.per

\* n packets from place o of a ring on are those from packet x of the file on.
Holds(row, P, o, n, x) == \A k \in 0 .. n - 1 : row[Wrap(P, o + k)].data = x + k

\* d packets into a frame, at place o of the ring: the event, the b-th from the
\* last, has the place of its frame, whose samples lie there, and so do the
\* packets read of frame f, unless the frame was read out of step.
Sound(s, row, o, d, bad, e, b) ==
  /\ e.off = Wrap(s.places, o - (b * s.per + d))
  /\ e.frame \in bad \/ Holds(row, s.places, e.off, s.per, First(s, e.frame))
Loaded(s, row, o, d, bad, f) ==
  f \in bad \/ Holds(row, s.places, Wrap(s.places, o - d), d, First(s, f))

LEMMA Times ==
  ASSUME NEW p \in Nat
  PROVE  /\ \A a \in Nat : a * p \in Nat /\ (a + 1) * p = a * p + p
         /\ \A a, b \in Nat : a <= b => a * p <= b * p
  OBVIOUS

\* A packet is written where no frame on the way lies.
LEMMA Apart ==
  ASSUME NEW P \in Nat, NEW o \in 0 .. P - 1, NEW c \in 1 .. P - 1
  PROVE  /\ Wrap(P, Wrap(P, o + 1) - (c + 1)) = Wrap(P, o - c)
         /\ \A k \in 0 .. c - 1 : /\ Wrap(P, Wrap(P, o - c) + k) \in 0 .. P - 1
                                 /\ Wrap(P, Wrap(P, o - c) + k) # o
         /\ Wrap(P, Wrap(P, o - c) + c) = o
  BY DEF Wrap

LEMMA SoundWrite ==
  ASSUME NEW s, s.places \in Nat, s.per \in Nat \ {0},
         NEW row, NEW row2, NEW o \in 0 .. s.places - 1,
         \A i \in 0 .. s.places - 1 : i # o => row2[i] = row[i],
         NEW d \in 0 .. s.per - 1, NEW bad, NEW e, NEW u \in Nat, NEW b \in 1 .. u,
         (u + 1) * s.per <= s.places, Sound(s, row, o, d, bad, e, b)
  PROVE  Sound(s, row2, Wrap(s.places, o + 1), d + 1, bad, e, b)
<1> DEFINE P == s.places
           p == s.per
           c == b * p + d
<1>1. c \in p .. P - 1
  <2>1. p \in Nat \ {0} /\ b \in Nat /\ b * p \in Nat /\ 1 * p = p /\ 1 * p <= b * p
    BY Times
  <2>2. b * p <= u * p /\ (u + 1) * p = u * p + p /\ u * p \in Nat
    BY Times
  <2> DEFINE x == b * p
             y == u * p
  <2>3. x \in Nat /\ y \in Nat /\ p <= x /\ x <= y /\ y + p <= P /\ p \in Nat /\ P \in Nat
        /\ d \in 0 .. p - 1 /\ c = x + d
    BY <2>1, <2>2
  <2> HIDE DEF x, y, p, P, c
  <2>4. QED
    BY <2>3
<1>2. P \in Nat /\ p \in Nat \ {0} /\ o \in 0 .. P - 1 /\ c \in 1 .. P - 1
  BY <1>1
<1>3. /\ e.off = Wrap(P, o - c)
      /\ e.frame \in bad \/ Holds(row, P, e.off, p, First(s, e.frame))
  BY DEF Sound
<1>4. b * p + (d + 1) = c + 1
  <2>1. b * p \in Nat
    BY Times
  <2> DEFINE x == b * p
  <2> HIDE DEF x
  <2>2. x + (d + 1) = (x + d) + 1
    BY <2>1 DEF x
  <2>3. QED
    BY <2>2 DEF x
<1>5. \A i \in 0 .. P - 1 : i # o => row2[i] = row[i]
  OBVIOUS
<1> HIDE DEF P, p, c
<1>6. e.off = Wrap(P, Wrap(P, o + 1) - (c + 1))
  BY <1>2, <1>3, Apart
<1>7. Holds(row, P, e.off, p, First(s, e.frame)) => Holds(row2, P, e.off, p, First(s, e.frame))
  <2>1. \A k \in 0 .. p - 1 : k \in 0 .. c - 1
    BY <1>1, <1>2
  <2>2. \A k \in 0 .. c - 1 : /\ Wrap(P, Wrap(P, o - c) + k) \in 0 .. P - 1
                              /\ Wrap(P, Wrap(P, o - c) + k) # o
    BY <1>2, Apart
  <2>3. \A k \in 0 .. p - 1 : Wrap(P, e.off + k) \in 0 .. P - 1 /\ Wrap(P, e.off + k) # o
    BY <1>3, <2>1, <2>2
  <2>4. QED
    BY <1>5, <2>3 DEF Holds
<1>8. QED
  BY <1>3, <1>4, <1>6, <1>7 DEF Sound, P, p

LEMMA LoadedWrite ==
  ASSUME NEW s, s.places \in Nat, s.per \in Nat \ {0}, s.per <= s.places,
         NEW row, NEW row2, NEW o \in 0 .. s.places - 1,
         \A i \in 0 .. s.places - 1 : i # o => row2[i] = row[i],
         NEW d \in 0 .. s.per - 1, NEW bad, NEW f, Loaded(s, row, o, d, bad, f),
         f \in bad \/ row2[o].data = First(s, f) + d
  PROVE  Loaded(s, row2, Wrap(s.places, o + 1), d + 1, bad, f)
<1> DEFINE P == s.places
           w == Wrap(P, o - d)
           x == First(s, f)
<1>1. P \in Nat /\ d \in Nat /\ d <= P - 1 /\ o \in 0 .. P - 1
  OBVIOUS
<1>2. Wrap(P, Wrap(P, o + 1) - (d + 1)) = w
  BY <1>1 DEF Wrap
<1>3. \A k \in 0 .. d - 1 : Wrap(P, w + k) \in 0 .. P - 1 /\ Wrap(P, w + k) # o
  BY <1>1 DEF Wrap
<1>4. Wrap(P, w + d) = o
  BY <1>1 DEF Wrap
<1>5. \A i \in 0 .. P - 1 : i # o => row2[i] = row[i]
  OBVIOUS
<1>6. ASSUME f \notin bad PROVE Holds(row2, P, w, d + 1, x)
  <2>1. Holds(row, P, w, d, x) /\ row2[o].data = x + d
    BY <1>6 DEF Loaded
  <2> HIDE DEF w, x, P
  <2>2. \A k \in 0 .. (d + 1) - 1 : k \in 0 .. d - 1 \/ k = d
    BY <1>1
  <2>3. QED
    BY <1>3, <1>4, <1>5, <2>1, <2>2 DEF Holds
<1>7. QED
  BY <1>2, <1>6 DEF Loaded

\* The frame is read: it is the last one.
LEMMA SoundFinish ==
  ASSUME NEW s, s.places \in Nat, s.per \in Nat \ {0},
         NEW row, NEW o \in 0 .. s.places - 1, NEW bad, NEW e, NEW b \in Nat, b > 0,
         Sound(s, row, o, s.per, bad, e, b - 1)
  PROVE  Sound(s, row, o, 0, bad, e, b)
<1> DEFINE p == s.per
           x == (b - 1) * p
           y == b * p
<1>1. x \in Nat /\ y \in Nat /\ p \in Nat /\ y = x + p
  <2>1. b - 1 \in Nat /\ (b - 1) + 1 = b
    OBVIOUS
  <2>2. QED
    BY <2>1, Times
<1> HIDE DEF p, x, y
<1>2. y + 0 = x + p
  BY <1>1
<1>3. QED
  BY <1>2 DEF Sound, p, x, y

LEMMA SoundNew ==
  ASSUME NEW s, s.places \in Nat, s.per \in Nat \ {0}, s.per <= s.places,
         NEW row, NEW o \in 0 .. s.places - 1, NEW bad, NEW e,
         e.off = (o - s.per) % s.places, Loaded(s, row, o, s.per, bad, e.frame)
  PROVE  Sound(s, row, o, 0, bad, e, 1)
<1>1. e.off = Wrap(s.places, o - s.per)
  BY WrapIsMod
<1>2. 1 * s.per + 0 = s.per
  OBVIOUS
<1>3. QED
  BY <1>1, <1>2 DEF Sound, Loaded

LEMMA SoundGrows ==
  ASSUME NEW s, NEW row, NEW o, NEW d, NEW bad, NEW bad2, bad \subseteq bad2, NEW e, NEW b,
         Sound(s, row, o, d, bad, e, b)
  PROVE  Sound(s, row, o, d, bad2, e, b)
  BY DEF Sound

\* The read events of a radio in a queue, from the j-th on.
From(q, j, r)   == {k \in j .. Len(q) : q[k].radio = r}
Behind(q, j, r) == Cardinality(From(q, j, r))

LEMMA BehindType ==
  ASSUME NEW q \in Seq(Carrier), NEW r, NEW j \in Nat
  PROVE  /\ IsFiniteSet(From(q, j, r)) /\ Behind(q, j, r) \in Nat
         /\ Count(q, r) = Behind(q, 1, r)
<1>1. Len(q) \in Nat /\ DOMAIN q = 1 .. Len(q)
  OBVIOUS
<1>2. IsFiniteSet(j .. Len(q)) /\ From(q, j, r) \subseteq j .. Len(q)
  BY <1>1, FS_Interval DEF From
<1>3. QED
  BY <1>1, <1>2, FS_Subset, FS_CardinalityType DEF Behind, From, Count

\* One more, from the j-th on, if the j-th is of the radio.
LEMMA BehindNext ==
  ASSUME NEW q \in Seq(Carrier), NEW r, NEW j \in 1 .. Len(q)
  PROVE  Behind(q, j, r) = Behind(q, j + 1, r) + (IF q[j].radio = r THEN 1 ELSE 0)
<1>1. Len(q) \in Nat /\ j + 1 \in Nat /\ j \in Nat
  OBVIOUS
<1>2. IsFiniteSet(From(q, j + 1, r)) /\ j \notin From(q, j + 1, r)
  <2>1. IsFiniteSet(From(q, j + 1, r))
    BY <1>1, BehindType
  <2>2. QED
    BY <1>1, <2>1 DEF From
<1>3. Behind(q, j + 1, r) \in Nat
  BY <1>1, BehindType
<1>4. j .. Len(q) = (j + 1 .. Len(q)) \cup {j}
  BY <1>1
<1>5. CASE q[j].radio = r
  <2>1. From(q, j, r) = From(q, j + 1, r) \cup {j}
    BY <1>4, <1>5 DEF From
  <2>2. QED
    BY <1>2, <1>5, <2>1, FS_AddElement DEF Behind
<1>6. CASE q[j].radio # r
  <2>1. From(q, j, r) = From(q, j + 1, r)
    BY <1>4, <1>6 DEF From
  <2>2. QED
    BY <1>3, <1>6, <2>1 DEF Behind
<1>7. QED
  BY <1>5, <1>6

\* What is behind the first is what was behind the second.
LEMMA BehindTail ==
  ASSUME NEW q \in Seq(Carrier), NEW r, q # <<>>, NEW j \in 1 .. Len(q)
  PROVE  Behind(Tail(q), j, r) = Behind(q, j + 1, r)
<1> DEFINE t == Tail(q)
           A == From(t, j, r)
           B == From(q, j + 1, r)
           f == [k \in A |-> k + 1]
<1>1. /\ t \in Seq(Carrier) /\ Len(q) \in Nat /\ Len(t) = Len(q) - 1
      /\ \A k \in 1 .. Len(t) : t[k] = q[k + 1]
  OBVIOUS
<1> HIDE DEF t
<1>2. A \subseteq Nat /\ B \subseteq Nat /\ j \in Nat
  BY <1>1 DEF From
<1>3. \A k \in Nat : k \in A <=> k + 1 \in B
  BY <1>1, <1>2 DEF From
<1>4. \A k \in B : k - 1 \in A /\ (k - 1) + 1 = k
  BY <1>1, <1>2 DEF From
<1>5. IsFiniteSet(A)
  BY <1>1, <1>2, BehindType
<1> HIDE DEF A, B
<1>6. f \in Bijection(A, B)
  <2>1. f \in [A -> B]
    BY <1>2, <1>3
  <2>2. \A x, y \in A : f[x] = f[y] => x = y
    BY <1>2
  <2>3. \A k \in B : \E x \in A : f[x] = k
    BY <1>4
  <2>4. QED
    BY <2>1, <2>2, <2>3 DEF Bijection, Injection, Surjection, IsInjective
<1>7. Cardinality(A) = Cardinality(B)
  BY <1>5, <1>6, FS_Bijection DEF ExistsBijection
<1>8. QED
  BY <1>7 DEF A, B, t, Behind

\* An event at the end of the queue is behind every other.
LEMMA BehindAppend ==
  ASSUME NEW q \in Seq(Carrier), NEW e \in Carrier, NEW r, NEW j \in 1 .. Len(q) + 1
  PROVE  Behind(Append(q, e), j, r) = Behind(q, j, r) + (IF e.radio = r THEN 1 ELSE 0)
<1> DEFINE a == Append(q, e)
           n == Len(q) + 1
<1>1. /\ Len(q) \in Nat /\ n \in Nat /\ j \in Nat /\ j <= n /\ Len(a) = n /\ a[n] = e
      /\ \A k \in 1 .. n - 1 : a[k] = q[k]
  OBVIOUS
<1> HIDE DEF a
<1>2. IsFiniteSet(From(q, j, r)) /\ Behind(q, j, r) \in Nat /\ n \notin From(q, j, r)
  <2>1. IsFiniteSet(From(q, j, r)) /\ Behind(q, j, r) \in Nat
    BY <1>1, BehindType
  <2>2. n \notin From(q, j, r)
    BY <1>1 DEF From
  <2>3. QED
    BY <2>1, <2>2
<1>3. j .. Len(a) = (j .. Len(q)) \cup {n} /\ \A k \in j .. Len(q) : k \in 1 .. n - 1
  BY <1>1
<1> HIDE DEF n
<1>4. CASE e.radio = r
  <2>1. From(a, j, r) = From(q, j, r) \cup {n}
    BY <1>1, <1>3, <1>4 DEF From
  <2>2. QED
    BY <1>2, <1>4, <2>1, FS_AddElement DEF Behind, a
<1>5. CASE e.radio # r
  <2>1. From(a, j, r) = From(q, j, r)
    BY <1>1, <1>3, <1>5 DEF From
  <2>2. QED
    BY <1>2, <1>5, <2>1 DEF Behind, a
<1>6. QED
  BY <1>4, <1>5

\* The later, the fewer.
LEMMA BehindFewer ==
  ASSUME NEW q \in Seq(Carrier), NEW r, NEW j \in 1 .. Len(q), q[j].radio = r
  PROVE  Behind(q, j, r) \in 1 .. Count(q, r)
<1>1. Len(q) \in Nat /\ j + 1 \in Nat /\ j \in Nat
  OBVIOUS
<1>2. Behind(q, j + 1, r) \in Nat /\ Behind(q, j, r) \in Nat /\ Behind(q, j, r) = Behind(q, j + 1, r) + 1
  BY <1>1, BehindType, BehindNext
<1>3. From(q, j, r) \subseteq From(q, 1, r) /\ IsFiniteSet(From(q, 1, r))
  <2>1. j .. Len(q) \subseteq 1 .. Len(q)
    BY <1>1
  <2>2. QED
    BY <2>1, BehindType DEF From
<1>4. Behind(q, j, r) <= Behind(q, 1, r)
  BY <1>3, FS_Subset DEF Behind
<1>5. Count(q, r) = Behind(q, 1, r) /\ Behind(q, 1, r) \in Nat
  BY BehindType
<1>6. QED
  BY <1>2, <1>4, <1>5

LEMMA CountTail ==
  ASSUME NEW q \in Seq(Carrier), NEW r, q # <<>>
  PROVE  /\ Count(Tail(q), r) \in Nat /\ Count(q, r) \in Nat
         /\ Count(q, r) = Count(Tail(q), r) + (IF Head(q).radio = r THEN 1 ELSE 0)
<1>1. Len(q) \in Nat /\ 1 \in 1 .. Len(q) /\ Head(q) = q[1] /\ Tail(q) \in Seq(Carrier)
  OBVIOUS
<1>2. Behind(Tail(q), 1, r) = Behind(q, 1 + 1, r)
  BY <1>1, BehindTail
<1>3. Behind(q, 1, r) = Behind(q, 1 + 1, r) + (IF q[1].radio = r THEN 1 ELSE 0)
  BY <1>1, BehindNext
<1>4. /\ Count(Tail(q), r) = Behind(Tail(q), 1, r) /\ Behind(Tail(q), 1, r) \in Nat
      /\ Count(q, r) = Behind(q, 1, r) /\ Behind(q, 1, r) \in Nat
  BY <1>1, BehindType
<1>5. QED
  BY <1>1, <1>2, <1>3, <1>4

LEMMA CountAppend ==
  ASSUME NEW q \in Seq(Carrier), NEW e \in Carrier, NEW r
  PROVE  /\ Count(q, r) \in Nat
         /\ Count(Append(q, e), r) = Count(q, r) + (IF e.radio = r THEN 1 ELSE 0)
<1>1. 1 \in 1 .. Len(q) + 1 /\ Append(q, e) \in Seq(Carrier)
  OBVIOUS
<1>2. Behind(Append(q, e), 1, r) = Behind(q, 1, r) + (IF e.radio = r THEN 1 ELSE 0)
  BY <1>1, BehindAppend
<1>3. /\ Count(q, r) = Behind(q, 1, r) /\ Behind(q, 1, r) \in Nat
      /\ Count(Append(q, e), r) = Behind(Append(q, e), 1, r)
  BY <1>1, BehindType
<1>4. QED
  BY <1>2, <1>3

\* The event is on its way to the radio, the b-th from the last that was read.
OnWay(r, e, b) ==
  \/ hand[r] # <<>> /\ e = hand[r][1] /\ b = 1 + Len(txQ[r]) + Count(reads, r)
  \/ \E k \in 1 .. Len(txQ[r]) : e = txQ[r][k] /\ b = (Len(txQ[r]) - k) + 1 + Count(reads, r)
  \/ \E j \in 1 .. Len(reads) : reads[j].radio = r /\ e = reads[j] /\ b = Behind(reads, j, r)

LEMMA WayTypes ==
  ASSUME TypeInv, NEW r \in Radios
  PROVE  /\ hand[r] \in Seq(Carrier) /\ Len(hand[r]) \in {0, 1} /\ (hand[r] # <<>> <=> Len(hand[r]) = 1)
         /\ txQ[r] \in Seq(Carrier) /\ Len(txQ[r]) \in Nat
         /\ reads \in Seq(Carrier) /\ Len(reads) \in Nat /\ Count(reads, r) \in Nat
         /\ UnderWay(r) = Count(reads, r) + Len(txQ[r]) + Len(hand[r]) /\ UnderWay(r) \in Nat
<1>1. hand[r] \in Seq(Carrier) /\ txQ[r] \in Seq(Carrier) /\ reads \in Seq(Carrier)
  BY QueuesCarry
<1>2. Len(hand[r]) <= 1
  BY DEF TypeInv, ThreadType
<1>3. Len(hand[r]) \in {0, 1} /\ (hand[r] # <<>> <=> Len(hand[r]) = 1)
  <2> DEFINE h == hand[r]
  <2>1. h \in Seq(Carrier) /\ Len(h) <= 1
    BY <1>1, <1>2
  <2> HIDE DEF h
  <2>2. Len(h) \in {0, 1}
    <3>1. Len(h) \in Nat /\ Len(h) <= 1
      BY <2>1, LenProperties
    <3> DEFINE n == Len(h)
    <3> HIDE DEF n
    <3>2. n \in Nat /\ n <= 1 => n \in {0, 1}
      OBVIOUS
    <3>3. QED
      BY <3>1, <3>2 DEF n
  <2>3. h # <<>> => Len(h) = 1
    BY <2>1, OneEvent
  <2>4. h = <<>> => Len(h) = 0
    OBVIOUS
  <2>5. QED
    BY <2>2, <2>3, <2>4 DEF h
<1>4. Count(reads, r) \in Nat
  BY <1>1, BehindType
<1>5. Len(txQ[r]) \in Nat /\ Len(reads) \in Nat
  BY <1>1
<1>6. QED
  BY <1>1, <1>3, <1>4, <1>5 DEF UnderWay

LEMMA OnWayRange ==
  ASSUME TypeInv, NEW r \in Radios, NEW e, NEW b, OnWay(r, e, b)
  PROVE  b \in 1 .. UnderWay(r) /\ e.frame \in Nat /\ e.off \in 0 .. Places - 1
<1>1. CASE hand[r] # <<>> /\ e = hand[r][1] /\ b = 1 + Len(txQ[r]) + Count(reads, r)
  <2>1. e.frame \in Nat /\ e.off \in 0 .. Places - 1
    BY <1>1, HandEvent
  <2>2. UnderWay(r) = Count(reads, r) + Len(txQ[r]) + 1
    BY <1>1, WayTypes
  <2>3. Count(reads, r) \in Nat /\ Len(txQ[r]) \in Nat
    BY WayTypes
  <2>4. b \in 1 .. UnderWay(r)
    BY <1>1, <2>2, <2>3
  <2>5. QED
    BY <2>1, <2>4
<1>2. ASSUME NEW k \in 1 .. Len(txQ[r]), e = txQ[r][k], b = (Len(txQ[r]) - k) + 1 + Count(reads, r)
      PROVE  b \in 1 .. UnderWay(r) /\ e.frame \in Nat /\ e.off \in 0 .. Places - 1
  <2>1. txQ[r] \in Seq(ReadEvent)
    BY DEF TypeInv, ThreadType
  <2>2. e \in ReadEvent
    BY <1>2, <2>1
  <2>3. b \in 1 .. UnderWay(r)
    <3>1. /\ UnderWay(r) = Count(reads, r) + Len(txQ[r]) + Len(hand[r])
          /\ Count(reads, r) \in Nat /\ Len(txQ[r]) \in Nat /\ Len(hand[r]) \in Nat
      BY WayTypes
    <3>2. QED
      BY <1>2, <3>1
  <2>4. QED
    BY <2>2, <2>3 DEF ReadEvent
<1>3. ASSUME NEW j \in 1 .. Len(reads), reads[j].radio = r, e = reads[j], b = Behind(reads, j, r)
      PROVE  b \in 1 .. UnderWay(r) /\ e.frame \in Nat /\ e.off \in 0 .. Places - 1
  <2>1. reads \in Seq(ReadEvent)
    BY DEF TypeInv, ReaderType
  <2>2. e \in ReadEvent
    BY <1>3, <2>1
  <2>3. b \in 1 .. Count(reads, r)
    BY <1>3, WayTypes, BehindFewer
  <2>4. b \in 1 .. UnderWay(r)
    BY <2>3, WayTypes
  <2>5. QED
    BY <2>2, <2>4 DEF ReadEvent
<1>4. QED
  BY <1>1, <1>2, <1>3 DEF OnWay

\* What a step may do to the events on the way: none gets nearer the end.
LEMMA TakeReadWay ==
  ASSUME TypeInv, NEW r \in Radios, NEW u \in Radios, TakeRead(u)
  PROVE  /\ UnderWay(r)' = UnderWay(r)
         /\ \A e, b : OnWay(r, e, b)' => OnWay(r, e, b)
<1>1. /\ hand[u] = <<>> /\ txQ[u] # <<>> /\ hand' = [hand EXCEPT ![u] = <<Head(txQ[u])>>]
      /\ txQ' = [txQ EXCEPT ![u] = Tail(txQ[u])] /\ reads' = reads
      /\ hand \in [Radios -> Seq(ReadEvent)] /\ txQ \in [Radios -> Seq(ReadEvent)]
  BY DEF TakeRead, TypeInv, ThreadType
<1>2. CASE r # u
  <2>1. hand'[r] = hand[r] /\ txQ'[r] = txQ[r]
    BY <1>1, <1>2
  <2>2. QED
    BY <1>1, <2>1 DEF OnWay, UnderWay
<1>3. CASE r = u
  <2> DEFINE q == txQ[r]
             c == Count(reads, r)
  <2>1. hand'[r] = <<Head(q)>> /\ txQ'[r] = Tail(q) /\ hand[r] = <<>> /\ q # <<>> /\ reads' = reads
    BY <1>1, <1>3
  <2>2. q \in Seq(ReadEvent) /\ c \in Nat
    BY <1>1, WayTypes
  <2>3. /\ Len(q) \in Nat /\ Len(q) >= 1 /\ Len(Tail(q)) = Len(q) - 1 /\ Head(q) = q[1]
        /\ \A k \in 1 .. Len(q) - 1 : Tail(q)[k] = q[k + 1]
    BY <2>1, <2>2
  <2>4. UnderWay(r)' = UnderWay(r)
    <3>1. UnderWay(r)' = c + (Len(q) - 1) + 1 /\ UnderWay(r) = c + Len(q) + 0
      BY <2>1, <2>3 DEF UnderWay
    <3>2. QED
      BY <2>2, <2>3, <3>1
  <2>5. ASSUME NEW e, NEW b, OnWay(r, e, b)' PROVE OnWay(r, e, b)
    <3>1. CASE e = q[1] /\ b = 1 + (Len(q) - 1) + c
      <4>1. 1 \in 1 .. Len(q) /\ b = (Len(q) - 1) + 1 + c
        BY <2>2, <2>3, <3>1
      <4>2. QED
        BY <3>1, <4>1 DEF OnWay
    <3>2. ASSUME NEW k \in 1 .. Len(q) - 1, e = q[k + 1], b = ((Len(q) - 1) - k) + 1 + c
          PROVE  OnWay(r, e, b)
      <4>1. k + 1 \in 1 .. Len(q) /\ b = (Len(q) - (k + 1)) + 1 + c
        BY <2>2, <2>3, <3>2
      <4>2. QED
        BY <3>2, <4>1 DEF OnWay
    <3>3. CASE \E j \in 1 .. Len(reads) : reads[j].radio = r /\ e = reads[j] /\ b = Behind(reads, j, r)
      BY <3>3 DEF OnWay
    <3>4. \/ e = q[1] /\ b = 1 + (Len(q) - 1) + c
          \/ \E k \in 1 .. Len(q) - 1 : e = q[k + 1] /\ b = ((Len(q) - 1) - k) + 1 + c
          \/ \E j \in 1 .. Len(reads) : reads[j].radio = r /\ e = reads[j] /\ b = Behind(reads, j, r)
      BY <2>1, <2>3, <2>5 DEF OnWay
    <3>5. QED
      BY <3>1, <3>2, <3>3, <3>4
  <2>6. QED
    BY <2>4, <2>5
<1>4. QED
  BY <1>2, <1>3

LEMMA SendPacketWay ==
  ASSUME TypeInv, NEW r \in Radios, NEW u \in Radios, SendPacket(u)
  PROVE  /\ UnderWay(r)' <= UnderWay(r) /\ UnderWay(r)' \in Nat
         /\ \A e, b : OnWay(r, e, b)' => OnWay(r, e, b)
<1>1. /\ txQ' = txQ /\ reads' = reads /\ hand \in [Radios -> Seq(ReadEvent)]
      /\ hand' = hand \/ hand' = [hand EXCEPT ![u] = <<>>]
  BY DEF SendPacket, TypeInv, ThreadType
<1>2. hand'[r] = hand[r] \/ hand'[r] = <<>>
  BY <1>1
<1>3. \A e, b : OnWay(r, e, b)' => OnWay(r, e, b)
  BY <1>1, <1>2 DEF OnWay
<1>4. UnderWay(r)' = Count(reads, r) + Len(txQ[r]) + Len(hand'[r])
  BY <1>1 DEF UnderWay
<1> DEFINE c == Count(reads, r)
           m == Len(txQ[r])
           h == Len(hand[r])
           g == Len(hand'[r])
<1>5. /\ c \in Nat /\ m \in Nat /\ h \in {0, 1} /\ g \in {0, h}
      /\ UnderWay(r)' = c + m + g /\ UnderWay(r) = c + m + h
  BY <1>2, <1>4, WayTypes
<1> HIDE DEF c, m, h, g
<1>6. UnderWay(r)' <= UnderWay(r) /\ UnderWay(r)' \in Nat
  BY <1>5
<1>7. QED
  BY <1>3, <1>6

LEMMA DispatchTxWay ==
  ASSUME TypeInv, NEW r \in Radios, DispatchTx
  PROVE  /\ UnderWay(r)' = UnderWay(r)
         /\ \A e, b : OnWay(r, e, b)' => OnWay(r, e, b)
<1> DEFINE d == Head(reads)
           q == txQ[r]
           c == Count(reads, r)
           t == Tail(reads)
           ct == Count(t, r)
<1>1. /\ reads # <<>> /\ reads' = t /\ txQ' = [txQ EXCEPT ![d.radio] = Append(txQ[d.radio], d)]
      /\ hand' = hand /\ txQ \in [Radios -> Seq(ReadEvent)] /\ reads \in Seq(Carrier)
  BY QueuesCarry DEF DispatchTx, threadVars, TypeInv, ThreadType
<1>2. /\ Len(reads) \in Nat /\ Len(reads) >= 1 /\ Len(t) = Len(reads) - 1 /\ d = reads[1]
      /\ \A j \in 1 .. Len(reads) - 1 : t[j] = reads[j + 1]
  BY <1>1
<1>3. ct \in Nat /\ c \in Nat /\ c = ct + (IF d.radio = r THEN 1 ELSE 0)
  BY <1>1, CountTail
<1>4. q \in Seq(ReadEvent) /\ Len(q) \in Nat /\ Len(hand[r]) \in Nat
  BY <1>1, WayTypes
<1>5. /\ d.radio = r => txQ'[r] = Append(q, d)
      /\ d.radio # r => txQ'[r] = q
  BY <1>1
<1>6. UnderWay(r) = c + Len(q) + Len(hand[r]) /\ UnderWay(r)' = ct + Len(txQ'[r]) + Len(hand[r])
  BY <1>1 DEF UnderWay
<1>7. ASSUME NEW e, NEW b, NEW j \in 1 .. Len(t), t[j].radio = r, e = t[j], b = Behind(t, j, r)
      PROVE  OnWay(r, e, b)
  <2>1. j \in 1 .. Len(reads) /\ j + 1 \in 1 .. Len(reads) /\ t[j] = reads[j + 1]
    BY <1>2, <1>7
  <2>2. Behind(t, j, r) = Behind(reads, j + 1, r)
    BY <1>1, <2>1, BehindTail
  <2>3. reads[j + 1].radio = r /\ e = reads[j + 1] /\ b = Behind(reads, j + 1, r)
    BY <1>7, <2>1, <2>2
  <2>4. QED
    BY <2>1, <2>3 DEF OnWay
<1>8. CASE d.radio = r
  <2> DEFINE a == Append(q, d)
  <2>1. /\ Len(a) = Len(q) + 1 /\ a[Len(q) + 1] = d /\ \A k \in 1 .. Len(q) : a[k] = q[k]
    BY <1>4
  <2>2. txQ'[r] = a /\ c = ct + 1
    BY <1>3, <1>5, <1>8
  <2> HIDE DEF a, ct, c, t, d
  <2> DEFINE l == Len(q)
             h == Len(hand[r])
  <2>6. /\ UnderWay(r) = c + l + h /\ UnderWay(r)' = ct + (l + 1) + h /\ l \in Nat /\ h \in Nat
        /\ c \in Nat /\ ct \in Nat /\ c = ct + 1
    BY <1>3, <1>4, <1>6, <2>1, <2>2
  <2> HIDE DEF l, h
  <2>3. UnderWay(r)' = UnderWay(r)
    BY <2>6
  <2>4. ASSUME NEW e, NEW b, OnWay(r, e, b)' PROVE OnWay(r, e, b)
    <3>1. \/ hand[r] # <<>> /\ e = hand[r][1] /\ b = 1 + (Len(q) + 1) + ct
          \/ \E k \in 1 .. Len(q) + 1 : e = a[k] /\ b = ((Len(q) + 1) - k) + 1 + ct
          \/ \E j \in 1 .. Len(t) : t[j].radio = r /\ e = t[j] /\ b = Behind(t, j, r)
      <4>1. Len(txQ[r])' = Len(q) + 1 /\ \A k : txQ[r]'[k] = a[k]
        BY <2>1, <2>2
      <4>2. reads' = t /\ Count(reads, r)' = ct /\ hand[r]' = hand[r]
        BY <1>1, <2>2 DEF ct
      <4>3. QED
        BY <2>4, <4>1, <4>2 DEF OnWay
    <3>2. CASE hand[r] # <<>> /\ e = hand[r][1] /\ b = 1 + (Len(q) + 1) + ct
      <4>1. b = 1 + l + c
        <5>1. b = 1 + (l + 1) + ct
          BY <3>2 DEF l
        <5>2. QED
          BY <2>6, <5>1
      <4>2. QED
        BY <3>2, <4>1 DEF OnWay, c, l
    <3>3. ASSUME NEW k \in 1 .. Len(q) + 1, e = a[k], b = ((Len(q) + 1) - k) + 1 + ct
          PROVE  OnWay(r, e, b)
      <4>1. CASE k <= Len(q)
        <5>1. k \in 1 .. l /\ b = ((l + 1) - k) + 1 + ct
          BY <1>4, <3>3, <4>1 DEF l
        <5>2. b = (l - k) + 1 + c
          BY <2>6, <5>1
        <5>3. e = q[k]
          BY <2>1, <3>3, <5>1 DEF l
        <5>4. QED
          BY <5>1, <5>2, <5>3 DEF OnWay, c, l
      <4>2. CASE k > Len(q)
        <5>1. k = l + 1 /\ b = ((l + 1) - k) + 1 + ct
          BY <2>6, <3>3, <4>2 DEF l
        <5>2. e = d
          BY <2>1, <3>3, <5>1 DEF l
        <5>3. b = c
          BY <2>6, <5>1
        <5>4. c = Behind(reads, 1, r) /\ 1 \in 1 .. Len(reads)
          BY <1>1, <1>2, BehindType DEF c
        <5>5. QED
          BY <1>2, <1>8, <5>4, <5>2, <5>3 DEF OnWay
      <4>3. QED
        BY <1>4, <4>1, <4>2
    <3>4. QED
      BY <1>7, <3>1, <3>2, <3>3
  <2>5. QED
    BY <2>3, <2>4
<1>9. CASE d.radio # r
  <2>1. txQ'[r] = q /\ c = ct
    BY <1>3, <1>5, <1>9
  <2>2. UnderWay(r)' = UnderWay(r)
    BY <1>6, <2>1
  <2>3. ASSUME NEW e, NEW b, OnWay(r, e, b)' PROVE OnWay(r, e, b)
    <3> HIDE DEF ct, c, t, d
    <3>1. \/ hand[r] # <<>> /\ e = hand[r][1] /\ b = 1 + Len(q) + ct
          \/ \E k \in 1 .. Len(q) : e = q[k] /\ b = (Len(q) - k) + 1 + ct
          \/ \E j \in 1 .. Len(t) : t[j].radio = r /\ e = t[j] /\ b = Behind(t, j, r)
      BY <1>1, <2>1, <2>3 DEF OnWay, ct
    <3>2. (\E j \in 1 .. Len(t) : t[j].radio = r /\ e = t[j] /\ b = Behind(t, j, r)) => OnWay(r, e, b)
      BY <1>7
    <3>3. QED
      BY <2>1, <3>1, <3>2 DEF OnWay, c
  <2>4. QED
    BY <2>2, <2>3
<1>10. QED
  BY <1>8, <1>9

\* The event of a frame that is read becomes the last; the others of its radio
\* are one further from the end.
LEMMA FinishReadWay ==
  ASSUME TypeInv, TypeInv', NEW r \in Radios, NEW n \in Carrier, reads' = Append(reads, n),
         hand' = hand, txQ' = txQ
  PROVE  LET one == IF n.radio = r THEN 1 ELSE 0
         IN  /\ UnderWay(r)' = UnderWay(r) + one
             /\ \A e, b : OnWay(r, e, b)' =>
                   \/ OnWay(r, e, b - one)
                   \/ n.radio = r /\ e = n /\ b = 1
<1> DEFINE one == IF n.radio = r THEN 1 ELSE 0
           c == Count(reads, r)
           a == Append(reads, n)
           m == Len(reads)
<1>1. /\ reads \in Seq(Carrier) /\ c \in Nat /\ Len(txQ[r]) \in Nat /\ m \in Nat
      /\ UnderWay(r) = c + Len(txQ[r]) + Len(hand[r]) /\ Len(hand[r]) \in {0, 1}
  BY WayTypes
<1>2. Count(a, r) = c + one
  BY <1>1, CountAppend
<1>3. a \in Seq(Carrier) /\ Len(a) = m + 1 /\ a[m + 1] = n /\ \A j \in 1 .. m : a[j] = reads[j]
  BY <1>1
<1>4. UnderWay(r)' = Count(a, r) + Len(txQ[r]) + Len(hand[r])
  BY DEF UnderWay
<1>5. one \in {0, 1}
  OBVIOUS
<1>6. \A j \in 1 .. m + 1 : Behind(a, j, r) = Behind(reads, j, r) + one
  BY <1>1, BehindAppend
<1>7. n.radio = r => one = 1
  OBVIOUS
<1> DEFINE l == Len(txQ[r])
           h == Len(hand[r])
           ca == Count(a, r)
<1>11. /\ c \in Nat /\ l \in Nat /\ h \in {0, 1} /\ one \in {0, 1} /\ ca = c + one
       /\ UnderWay(r) = c + l + h /\ UnderWay(r)' = ca + l + h
  BY <1>1, <1>2, <1>4, <1>5
<1> HIDE DEF one, c, a, m, l, h, ca
<1>8. UnderWay(r)' = UnderWay(r) + one
  BY <1>11
<1>9. ASSUME NEW e, NEW b, OnWay(r, e, b)'
      PROVE  OnWay(r, e, b - one) \/ (n.radio = r /\ e = n /\ b = 1)
  <2>1. \/ hand[r] # <<>> /\ e = hand[r][1] /\ b = 1 + Len(txQ[r]) + Count(a, r)
        \/ \E k \in 1 .. Len(txQ[r]) : e = txQ[r][k] /\ b = (Len(txQ[r]) - k) + 1 + Count(a, r)
        \/ \E j \in 1 .. Len(a) : a[j].radio = r /\ e = a[j] /\ b = Behind(a, j, r)
    BY <1>9 DEF OnWay, a
  <2>2. CASE hand[r] # <<>> /\ e = hand[r][1] /\ b = 1 + Len(txQ[r]) + Count(a, r)
    <3>1. b = 1 + l + ca
      BY <2>2 DEF l, ca
    <3>2. b - one = 1 + l + c
      BY <1>11, <3>1
    <3>3. QED
      BY <2>2, <3>2 DEF OnWay, c, l
  <2>3. ASSUME NEW k \in 1 .. Len(txQ[r]), e = txQ[r][k], b = (Len(txQ[r]) - k) + 1 + Count(a, r)
        PROVE  OnWay(r, e, b - one)
    <3>1. b = (l - k) + 1 + ca /\ k \in 1 .. l
      BY <2>3 DEF l, ca
    <3>2. b - one = (l - k) + 1 + c
      BY <1>11, <3>1
    <3>3. QED
      BY <2>3, <3>2 DEF OnWay, c, l
  <2>4. ASSUME NEW j \in 1 .. m + 1, a[j].radio = r, e = a[j], b = Behind(a, j, r)
        PROVE  OnWay(r, e, b - one) \/ (n.radio = r /\ e = n /\ b = 1)
    <3>1. CASE j <= m
      <4>1. j \in 1 .. m /\ a[j] = reads[j] /\ Behind(reads, j, r) \in Nat
        BY <1>1, <1>3, <2>4, <3>1, BehindType
      <4>2. b - one = Behind(reads, j, r)
        BY <1>5, <1>6, <2>4, <4>1
      <4>3. QED
        BY <2>4, <4>1, <4>2 DEF OnWay, m
    <3>2. CASE j > m
      <4>1. j = m + 1 /\ e = n /\ n.radio = r
        BY <1>1, <1>3, <2>4, <3>2
      <4>2. Behind(reads, m + 1, r) = 0
        <5>1. From(reads, m + 1, r) = {}
          BY <1>1 DEF From, m
        <5>2. QED
          BY <5>1, FS_EmptySet DEF Behind
      <4>3. b = 1
        BY <1>1, <1>6, <1>7, <2>4, <4>1, <4>2
      <4>4. QED
        BY <4>1, <4>3
    <3>3. QED
      BY <1>1, <3>1, <3>2
  <2>5. QED
    BY <1>3, <2>1, <2>2, <2>3, <2>4
<1>10. QED
  BY <1>8, <1>9 DEF one
-----------------------------------------------------------------------------
(* What is sent is right *)

ReadingOf(r) == reading # <<>> /\ reading[1].radio = r
DoneOf(r)    == IF ReadingOf(r) THEN done ELSE 0
Being(r)     == IF ReadingOf(r) THEN 1 ELSE 0

\* The reader's place in the file of a radio.
InFile(r) ==
  /\ newest[r] \in Nat \cup {-1} /\ (ReadingOf(r) => reading[1].frame = newest[r])
  /\ \/ newest[r] \in slipped[r]
     \/ file[r] = IF newest[r] = -1 THEN 0
                  ELSE First(site, newest[r]) + (IF ReadingOf(r) THEN done ELSE site.per)

\* The ring of a radio has the room for what is under way and being read, and
\* every frame lies where its event says.
InRing(r) ==
  /\ (UnderWay(r) + Being(r)) * site.per <= site.places
  /\ \A e, b : OnWay(r, e, b) => Sound(site, ring[r], offset[r], DoneOf(r), slipped[r], e, b)
  /\ ReadingOf(r) => Loaded(site, ring[r], offset[r], done, slipped[r], newest[r])

RingInv ==
  \A r \in Radios :
    /\ InFile(r)
    /\ crowded[r] \/ (wrong[r] \subseteq slipped[r] /\ InRing(r))

LEMMA SiteRing ==
  ASSUME site \in Sites
  PROVE  /\ site.places \in Nat /\ site.places \in Nat \ {0} /\ site.per \in Nat \ {0}
         /\ site.per <= site.places /\ site.file \in Nat \ {0}
         /\ Places = site.places /\ PerFrame = site.per /\ FrameNum = site.file
  BY TxAssumption DEF Places, PerFrame, FrameNum

LEMMA InitRing == Init => RingInv
<1> SUFFICES ASSUME Init, NEW r \in Radios PROVE RingInv!(r)
  BY DEF RingInv
<1>1. TypeInv /\ site \in Sites
  BY InitType DEF TypeInv
<1>2. /\ newest[r] = -1 /\ file[r] = 0 /\ wrong[r] = {} /\ slipped[r] = {} /\ reading = <<>>
      /\ hand[r] = <<>> /\ txQ[r] = <<>> /\ reads = <<>>
  BY DEF Init
<1>3. InFile(r) /\ ~ ReadingOf(r)
  BY <1>2 DEF InFile, ReadingOf
<1>4. UnderWay(r) = 0
  <2>1. Len(hand[r]) = 0 /\ Len(txQ[r]) = 0
    BY <1>2
  <2>2. Count(reads, r) = 0
    <3>1. {k \in DOMAIN reads : reads[k].radio = r} = {}
      BY <1>2
    <3>2. QED
      BY <3>1, FS_EmptySet DEF Count
  <2>3. QED
    BY <2>1, <2>2 DEF UnderWay
<1>5. ASSUME NEW e, NEW b, OnWay(r, e, b) PROVE FALSE
  BY <1>1, <1>4, <1>5, OnWayRange
<1>6. (UnderWay(r) + Being(r)) * site.per <= site.places
  <2>1. UnderWay(r) + Being(r) = 0
    BY <1>3, <1>4 DEF Being
  <2>2. 0 * site.per = 0 /\ site.places \in Nat
    BY <1>1, SiteRing
  <2>3. QED
    BY <2>1, <2>2
<1>7. InRing(r)
  BY <1>3, <1>5, <1>6 DEF InRing
<1>8. QED
  BY <1>2, <1>3, <1>7

LEMMA WayRange ==
  TypeInv => \A r \in Radios : UnderWay(r) \in Nat
                              /\ \A e, b : OnWay(r, e, b) => b \in 1 .. UnderWay(r) /\ e.frame \in Nat
  BY OnWayRange, WayTypes

LEMMA WayRangeNext ==
  TypeInv' => (\A r \in Radios : UnderWay(r) \in Nat
                              /\ \A e, b : OnWay(r, e, b) => b \in 1 .. UnderWay(r) /\ e.frame \in Nat)'
  BY WayRange, PTL

\* A step that leaves the reader alone.
LEMMA QuietRing ==
  ASSUME TypeInv, TypeInv', UNCHANGED <<site, readerVars>>, NEW r \in Radios,
         UnderWay(r)' <= UnderWay(r), \A e, b : OnWay(r, e, b)' => OnWay(r, e, b)
  PROVE  (InFile(r) => InFile(r)') /\ (InRing(r) => InRing(r)')
<1>1. /\ UNCHANGED <<site, reading, done, offset, file, ring, newest, slipped>>
      /\ ReadingOf(r)' = ReadingOf(r) /\ DoneOf(r)' = DoneOf(r) /\ Being(r)' = Being(r)
  BY DEF readerVars, ReadingOf, DoneOf, Being
<1>2. InFile(r) => InFile(r)'
  BY <1>1 DEF InFile
<1>3. ASSUME InRing(r) PROVE InRing(r)'
  <2>1. (UnderWay(r) + Being(r))' * site.per <= (UnderWay(r) + Being(r)) * site.per
    <3> DEFINE x == UnderWay(r)' + Being(r)
               y == UnderWay(r) + Being(r)
    <3>1. UnderWay(r) \in Nat /\ UnderWay(r)' \in Nat /\ Radios' = Radios /\ Being(r) \in Nat
      BY <1>1, WayRange, WayRangeNext DEF Radios, Being
    <3>2. x \in Nat /\ y \in Nat /\ x <= y
      BY <3>1
    <3>3. site.per \in Nat
      BY SiteRing DEF TypeInv
    <3> HIDE DEF x, y
    <3>4. x * site.per <= y * site.per
      BY <3>2, <3>3, Times
    <3>5. QED
      BY <1>1, <3>4 DEF x, y
  <2>2. (UnderWay(r) + Being(r)) * site.per <= site.places
    BY <1>3 DEF InRing
  <2> DEFINE x == (UnderWay(r) + Being(r))' * site.per
             y == (UnderWay(r) + Being(r)) * site.per
  <2>3. x <= site.places
    <3>1. x \in Nat /\ y \in Nat /\ site.places \in Nat
      <4>1. UnderWay(r) \in Nat /\ UnderWay(r)' \in Nat /\ Radios' = Radios /\ Being(r) \in Nat
        BY <1>1, WayRange, WayRangeNext DEF Radios, Being
      <4>2. site.per \in Nat /\ site.places \in Nat
        BY SiteRing DEF TypeInv
      <4>3. UnderWay(r) + Being(r) \in Nat /\ (UnderWay(r) + Being(r))' \in Nat
        BY <1>1, <4>1
      <4>4. QED
        BY <4>2, <4>3, Times
    <3>2. x <= y /\ y <= site.places
      BY <2>1, <2>2
    <3> HIDE DEF x, y
    <3>3. QED
      BY <3>1, <3>2
  <2>4. (\A e, b : OnWay(r, e, b) => Sound(site, ring[r], offset[r], DoneOf(r), slipped[r], e, b))'
    BY <1>1, <1>3 DEF InRing
  <2>5. (ReadingOf(r) => Loaded(site, ring[r], offset[r], done, slipped[r], newest[r]))'
    BY <1>1, <1>3 DEF InRing
  <2>6. QED
    BY <1>1, <2>3, <2>4, <2>5 DEF InRing
<1>4. QED
  BY <1>2, <1>3

\* What a packet that is sent holds.
LEMMA SentPacket ==
  ASSUME TypeInv, NEW r \in Radios, hand[r] # <<>>, InRing(r)
  PROVE  LET e == hand[r][1]
         IN  e.frame \in slipped[r] \/ ring[r][(e.off + at[r]) % Places].data = Right(e.frame, at[r])
<1> DEFINE e == hand[r][1]
           a == at[r]
           P == site.places
           p == site.per
<1>1. /\ e.off \in 0 .. P - 1 /\ a \in 0 .. p - 1 /\ P \in Nat \ {0} /\ p \in Nat \ {0} /\ p <= P
      /\ Places = P
  <2>1. P \in Nat \ {0} /\ p \in Nat \ {0} /\ p <= P /\ Places = P /\ PerFrame = p
    BY SiteRing DEF TypeInv
  <2>2. at[r] \in Nat /\ at[r] < PerFrame
    BY DEF TypeInv, ThreadType
  <2>3. e.off \in 0 .. Places - 1
    BY HandEvent
  <2>4. QED
    BY <2>1, <2>2, <2>3
<1>2. OnWay(r, e, 1 + Len(txQ[r]) + Count(reads, r))
  BY DEF OnWay
<1>3. e.frame \in slipped[r] \/ Holds(ring[r], P, e.off, p, First(site, e.frame))
  BY <1>2 DEF InRing, Sound
<1>4. Right(e.frame, a) = First(site, e.frame) + a
  BY DEF Right, First, FrameNum, PerFrame
<1>5. (e.off + a) % P = Wrap(P, e.off + a)
  <2> HIDE DEF e, a, P, p
  <2>1. e.off + a \in Int /\ - P <= e.off + a /\ e.off + a < P + P
    BY <1>1
  <2>2. QED
    BY <1>1, <2>1, WrapIsMod
<1> HIDE DEF e, a, P, p
<1>6. e.frame \in slipped[r] \/ ring[r][(e.off + a) % P].data = Right(e.frame, a)
  BY <1>1, <1>3, <1>4, <1>5 DEF Holds
<1>7. QED
  BY <1>1, <1>6 DEF e, a

LEMMA ThreadRing ==
  ASSUME TypeInv, TypeInv', RingInv, UNCHANGED site, NEW u \in Radios, Thread(u)
  PROVE  RingInv'
<1>1. UNCHANGED readerVars /\ Radios' = Radios
  BY DEF Thread, BeginFrame, AskFrame, TakeRead, SendPacket, Drained, NextFrame, Radios
<1>2. SUFFICES ASSUME NEW r \in Radios
               PROVE  /\ InFile(r)'
                      /\ crowded'[r] \/ (wrong'[r] \subseteq slipped'[r] /\ InRing(r)')
  BY <1>1 DEF RingInv
<1>3. InFile(r) /\ (crowded[r] \/ (wrong[r] \subseteq slipped[r] /\ InRing(r)))
  BY DEF RingInv
<1>4. crowded' = crowded /\ slipped' = slipped
  BY <1>1 DEF readerVars
<1>5. UnderWay(r)' <= UnderWay(r) /\ \A e, b : OnWay(r, e, b)' => OnWay(r, e, b)
  <2>1. UnderWay(r) \in Nat
    BY WayRange
  <2>2. CASE TakeRead(u)
    BY <2>1, <2>2, TakeReadWay
  <2>3. CASE SendPacket(u)
    BY <2>3, SendPacketWay
  <2>4. CASE UNCHANGED <<hand, txQ, reads>>
    <3>1. UnderWay(r)' = UnderWay(r) /\ \A e, b : OnWay(r, e, b)' => OnWay(r, e, b)
      BY <2>4 DEF OnWay, UnderWay
    <3>2. QED
      BY <2>1, <3>1
  <2>5. QED
    BY <2>2, <2>3, <2>4 DEF Thread, BeginFrame, AskFrame, Drained, NextFrame
<1>6. InFile(r)' /\ (InRing(r) => InRing(r)')
  BY <1>1, <1>3, <1>5, QuietRing
<1>7. ASSUME ~ crowded[r] PROVE wrong'[r] \subseteq slipped[r]
  <2>1. wrong[r] \subseteq slipped[r] /\ InRing(r)
    BY <1>3, <1>7
  <2>2. CASE wrong'[r] = wrong[r]
    BY <2>1, <2>2
  <2>3. CASE SendPacket(u) /\ r = u
    <3> DEFINE e == hand[r][1]
    <3>1. /\ hand[r] # <<>>
          /\ wrong' = IF ring[r][(e.off + at[r]) % Places].data = Right(e.frame, at[r]) THEN wrong
                      ELSE [wrong EXCEPT ![r] = @ \cup {e.frame}]
      BY <2>3 DEF SendPacket
    <3>2. e.frame \in slipped[r] \/ ring[r][(e.off + at[r]) % Places].data = Right(e.frame, at[r])
      BY <2>1, <3>1, SentPacket
    <3>3. wrong \in [Radios -> SUBSET Nat]
      BY DEF TypeInv, ThreadType
    <3> HIDE DEF e
    <3>4. QED
      BY <2>1, <3>1, <3>2, <3>3
  <2>4. CASE SendPacket(u) /\ r # u
    BY <2>2, <2>4 DEF SendPacket, TypeInv, ThreadType
  <2>5. CASE ~ SendPacket(u)
    BY <2>2, <2>5 DEF Thread, BeginFrame, AskFrame, TakeRead, Drained, NextFrame
  <2>6. QED
    BY <2>3, <2>4, <2>5
<1>8. QED
  BY <1>3, <1>4, <1>6, <1>7

LEMMA DispatchRing ==
  ASSUME TypeInv, TypeInv', RingInv, UNCHANGED site,
         DispatchTx \/ \E e \in requests : DispatchRead(e)
  PROVE  RingInv'
<1>1. UNCHANGED readerVars /\ wrong' = wrong /\ Radios' = Radios
  BY DEF DispatchTx, DispatchRead, threadVars, Radios
<1>2. SUFFICES ASSUME NEW r \in Radios
               PROVE  /\ InFile(r)'
                      /\ crowded'[r] \/ (wrong'[r] \subseteq slipped'[r] /\ InRing(r)')
  BY <1>1 DEF RingInv
<1>3. InFile(r) /\ (crowded[r] \/ (wrong[r] \subseteq slipped[r] /\ InRing(r)))
  BY DEF RingInv
<1>4. UnderWay(r)' <= UnderWay(r) /\ \A e, b : OnWay(r, e, b)' => OnWay(r, e, b)
  <2>1. UnderWay(r)' = UnderWay(r) /\ \A e, b : OnWay(r, e, b)' => OnWay(r, e, b)
    <3>1. CASE DispatchTx
      BY <3>1, DispatchTxWay
    <3>2. CASE UNCHANGED <<hand, txQ, reads>>
      BY <3>2 DEF OnWay, UnderWay
    <3>3. QED
      BY <3>1, <3>2 DEF DispatchRead, threadVars
  <2>2. UnderWay(r) \in Nat
    BY WayRange
  <2>3. QED
    BY <2>1, <2>2
<1>5. InFile(r)' /\ (InRing(r) => InRing(r)')
  BY <1>1, <1>3, <1>4, QuietRing
<1>6. QED
  BY <1>1, <1>3, <1>5 DEF readerVars

\* The samples of a frame that is read in step begin where the reader is.
LEMMA NextInFile ==
  ASSUME NEW F \in Nat \ {0}, NEW p \in Nat, NEW f \in Nat
  PROVE  /\ f % F = 0 => (f % F) * p = 0
         /\ f = 0 => f % F = 0
         /\ f > 0 /\ f % F # 0 => (f % F) * p = ((f - 1) % F) * p + p
         /\ (f % F) * p \in Nat /\ (f % F) * p + p <= F * p /\ F * p \in Nat
<1>1. f % F \in 0 .. F - 1
  OBVIOUS
<1>2. f % F = 0 => (f % F) * p = 0
  <2>1. 0 * p = 0
    OBVIOUS
  <2>2. QED
    BY <2>1
<1>3. f = 0 => f % F = 0
  OBVIOUS
<1>4. ASSUME f > 0, f % F # 0 PROVE f % F = ((f - 1) % F) + 1
  <2>1. PICK q \in Nat, m \in 0 .. F - 1 : f = F * q + m /\ m = f % F
    <3>1. f \div F \in Nat /\ f = F * (f \div F) + (f % F)
      OBVIOUS
    <3>2. QED
      BY <1>1, <3>1
  <2>2. m - 1 \in 0 .. F - 1 /\ f - 1 = F * q + (m - 1)
    <3>1. m # 0
      BY <1>4, <2>1
    <3> DEFINE x == F * q
    <3>2. x \in Nat /\ f = x + m
      BY <2>1
    <3> HIDE DEF x
    <3>3. m - 1 \in 0 .. F - 1 /\ f - 1 = x + (m - 1)
      BY <3>1, <3>2
    <3>4. QED
      BY <3>3 DEF x
  <2>3. (F * q + (m - 1)) % F = m - 1
    BY <2>2
  <2>4. QED
    BY <2>1, <2>2, <2>3
<1>5. (f % F) * p \in Nat /\ (f % F) * p + p <= F * p /\ F * p \in Nat
  <2>1. f % F \in Nat /\ (f % F) + 1 \in Nat /\ (f % F) + 1 <= F
    BY <1>1
  <2>2. ((f % F) + 1) * p = (f % F) * p + p /\ ((f % F) + 1) * p <= F * p
    BY <2>1, Times
  <2>3. QED
    BY <2>1, <2>2, Times
<1>6. f > 0 /\ f % F # 0 => (f % F) * p = ((f - 1) % F) * p + p
  <2> SUFFICES ASSUME f > 0, f % F # 0 PROVE (f % F) * p = ((f - 1) % F) * p + p
    OBVIOUS
  <2>1. (f - 1) % F \in Nat
    OBVIOUS
  <2>2. (((f - 1) % F) + 1) * p = ((f - 1) % F) * p + p
    BY <2>1, Times
  <2>3. f % F = ((f - 1) % F) + 1
    BY <1>4
  <2>4. QED
    BY <2>2, <2>3
<1>7. QED
  BY <1>2, <1>3, <1>5, <1>6

LEMMA BeginReadRing ==
  ASSUME TypeInv, TypeInv', RingInv, UNCHANGED site, BeginRead
  PROVE  RingInv'
<1> DEFINE d == Head(readQ)
           f == d.frame
<1>1. /\ reading = <<>> /\ readQ # <<>> /\ reading' = <<d>> /\ done' = 0 /\ Radios' = Radios
      /\ file' = IF Rewinds(f) THEN [file EXCEPT ![d.radio] = 0] ELSE file
      /\ newest' = [newest EXCEPT ![d.radio] = f]
      /\ slipped' = IF InStep(d) THEN slipped
                    ELSE [slipped EXCEPT ![d.radio] = slipped[d.radio] \cup {f}]
      /\ crowded' = [crowded EXCEPT ![d.radio] = crowded[d.radio] \/ ~ Fits(d.radio)]
      /\ UNCHANGED <<hand, txQ, reads, wrong, offset, ring>>
  BY DEF BeginRead, threadVars, Radios
<1>2. /\ file \in [Radios -> Nat] /\ newest \in [Radios -> Int] /\ slipped \in [Radios -> SUBSET Nat]
      /\ crowded \in [Radios -> BOOLEAN]
  BY DEF TypeInv, ReaderType
<1>3. d \in Event /\ d.radio \in Radios /\ f \in Nat
  <2>1. d \in Event
    BY <1>1, HeadAndTail DEF TypeInv, ReaderType
  <2>2. QED
    BY <2>1 DEF Event
<1>4. \A r \in Radios : UnderWay(r)' = UnderWay(r) /\ \A e, b : OnWay(r, e, b)' => OnWay(r, e, b)
  BY <1>1 DEF OnWay, UnderWay
<1>5. \A r \in Radios : ~ ReadingOf(r) /\ DoneOf(r) = 0 /\ Being(r) = 0 /\ DoneOf(r)' = 0
  BY <1>1 DEF ReadingOf, DoneOf, Being
<1>6. \A r : ReadingOf(r)' <=> r = d.radio
  BY <1>1 DEF ReadingOf
<1> HIDE DEF d
<1>7. SUFFICES ASSUME NEW r \in Radios
               PROVE  /\ InFile(r)'
                      /\ crowded'[r] \/ (wrong'[r] \subseteq slipped'[r] /\ InRing(r)')
  BY <1>1 DEF RingInv
<1>8. InFile(r) /\ (crowded[r] \/ (wrong[r] \subseteq slipped[r] /\ InRing(r)))
  BY DEF RingInv
<1>9. CASE r # d.radio
  <2>1. /\ file'[r] = file[r] /\ newest'[r] = newest[r] /\ slipped'[r] = slipped[r]
        /\ crowded'[r] = crowded[r] /\ ~ ReadingOf(r)' /\ ~ ReadingOf(r) /\ Being(r)' = 0
    BY <1>1, <1>2, <1>3, <1>5, <1>6, <1>9 DEF Being
  <2>2. InFile(r)'
    BY <1>8, <2>1 DEF InFile
  <2>3. InRing(r) => InRing(r)'
    BY <1>1, <1>4, <1>5, <2>1 DEF InRing
  <2>4. QED
    BY <1>1, <1>8, <2>1, <2>2, <2>3
<1>10. CASE r = d.radio
  <2>1. /\ newest'[r] = f /\ slipped[r] \subseteq slipped'[r] /\ ReadingOf(r)'
        /\ (InStep(d) \/ f \in slipped'[r]) /\ (~ crowded'[r] => ~ crowded[r] /\ Fits(r))
    <3>1. newest'[r] = f /\ ReadingOf(r)'
      BY <1>1, <1>2, <1>6, <1>10
    <3>2. slipped[r] \subseteq slipped'[r] /\ (InStep(d) \/ f \in slipped'[r])
      BY <1>1, <1>2, <1>10
    <3>3. ~ crowded'[r] => ~ crowded[r] /\ Fits(r)
      BY <1>1, <1>2, <1>10
    <3>4. QED
      BY <3>1, <3>2, <3>3
  <2>2. InFile(r)'
    <3>1. f \in Nat \cup {-1} /\ reading'[1].frame = f /\ f # -1
      BY <1>1, <1>3
    <3>2. ASSUME f \notin slipped'[r]
          PROVE  file'[r] = First(site, f) + 0
      <4> DEFINE F == site.file
                 p == site.per
      <4>1. F \in Nat \ {0} /\ p \in Nat /\ First(site, f) = (f % F) * p /\ FrameNum = F
        BY SiteRing DEF TypeInv, First
      <4>2. InStep(d)
        BY <2>1, <3>2
      <4>3. CASE Rewinds(f)
        <5>1. file'[r] = 0 /\ f % F = 0
          BY <1>1, <1>2, <1>10, <4>1, <4>3 DEF Rewinds
        <5>2. (f % F) * p = 0
          BY <1>3, <4>1, <5>1, NextInFile
        <5>3. QED
          BY <4>1, <5>1, <5>2
      <4>4. CASE ~ Rewinds(f)
        <5>1. file'[r] = file[r] /\ f = newest[r] + 1 /\ newest[r] \notin slipped[r]
          BY <1>1, <1>10, <4>2, <4>4 DEF InStep
        <5>2. file[r] = IF newest[r] = -1 THEN 0 ELSE First(site, newest[r]) + site.per
          BY <1>5, <1>8, <5>1 DEF InFile
        <5>3. CASE f = 0
          <6>1. newest[r] = -1 /\ f % F = 0
            BY <1>2, <1>3, <4>1, <5>1, <5>3
          <6>2. (f % F) * p = 0
            BY <1>3, <4>1, <6>1, NextInFile
          <6>3. QED
            BY <4>1, <5>1, <5>2, <6>1, <6>2
        <5>4. CASE f > 0
          <6>1. f % F # 0
            BY <4>1, <4>4, <5>4 DEF Rewinds
          <6>2. newest[r] = f - 1 /\ newest[r] # -1
            BY <1>2, <1>3, <5>1, <5>4
          <6>3. file[r] = ((f - 1) % F) * p + p
            BY <5>2, <6>2 DEF First
          <6>4. (f % F) * p = ((f - 1) % F) * p + p /\ (f % F) * p \in Nat
            BY <1>3, <4>1, <5>4, <6>1, NextInFile
          <6>5. QED
            BY <4>1, <5>1, <6>3, <6>4
        <5>5. QED
          BY <1>3, <5>3, <5>4
      <4>5. QED
        BY <4>3, <4>4
    <3>3. QED
      BY <1>1, <2>1, <3>1, <3>2 DEF InFile
  <2>3. ASSUME ~ crowded'[r] PROVE wrong'[r] \subseteq slipped'[r] /\ InRing(r)'
    <3>1. ~ crowded[r] /\ Fits(r) /\ wrong[r] \subseteq slipped[r] /\ InRing(r)
      BY <1>8, <2>1, <2>3
    <3>2. (UnderWay(r)' + Being(r)') * site.per <= site.places
      BY <1>4, <2>1, <3>1 DEF Fits, PerFrame, Places, Being
    <3>3. ASSUME NEW e, NEW b, OnWay(r, e, b)'
          PROVE  Sound(site, ring[r], offset[r], 0, slipped'[r], e, b)
      <4>1. OnWay(r, e, b)
        BY <1>4, <3>3
      <4>2. Sound(site, ring[r], offset[r], 0, slipped[r], e, b)
        BY <1>5, <3>1, <4>1 DEF InRing
      <4>3. QED
        BY <2>1, <4>2, SoundGrows
    <3>4. Loaded(site, ring[r], offset[r], 0, slipped'[r], f)
      <4>1. \A k : k \notin 0 .. 0 - 1
        OBVIOUS
      <4>2. QED
        BY <4>1 DEF Loaded, Holds
    <3>5. InRing(r)'
      BY <1>1, <1>5, <2>1, <3>2, <3>3, <3>4 DEF InRing
    <3>6. QED
      BY <1>1, <2>1, <3>1, <3>5
  <2>4. QED
    BY <2>2, <2>3
<1>11. QED
  BY <1>9, <1>10

LEMMA ReadPacketRing ==
  ASSUME TypeInv, TypeInv', RingInv, UNCHANGED site, ReadPacket
  PROVE  RingInv'
<1> DEFINE u == reading[1].radio
           f == reading[1].frame
           o == offset[u]
           more == file[u] < FrameNum * PerFrame
<1>1. /\ reading # <<>> /\ done < PerFrame /\ done' = done + 1 /\ Radios' = Radios
      /\ file' = IF more THEN [file EXCEPT ![u] = file[u] + 1] ELSE file
      /\ offset' = [offset EXCEPT ![u] = (o + 1) % Places]
      /\ UNCHANGED <<hand, txQ, reads, reading, wrong, newest, slipped, crowded>>
  BY DEF ReadPacket, threadVars, Radios
<1>2. PICK x : /\ ring' = [ring EXCEPT ![u][o] = [frame |-> f, data |-> x]]
               /\ (more => x = file[u])
  BY DEF ReadPacket
<1>3. /\ u \in Radios /\ f \in Nat /\ o \in 0 .. Places - 1 /\ done \in Nat
      /\ file \in [Radios -> Nat] /\ offset \in [Radios -> 0 .. Places - 1]
      /\ ring \in [Radios -> [0 .. Places - 1 -> Packet]]
  <2>1. u \in Radios /\ f \in Nat
    BY <1>1, ReadingEvent
  <2>2. offset \in [Radios -> 0 .. Places - 1] /\ file \in [Radios -> Nat] /\ done \in 0 .. PerFrame
        /\ ring \in [Radios -> [0 .. Places - 1 -> Packet]]
    BY DEF TypeInv, ReaderType
  <2>3. done \in Nat
    BY <2>2
  <2>4. QED
    BY <2>1, <2>2, <2>3
<1>4. /\ site.places \in Nat \ {0} /\ site.per \in Nat \ {0} /\ site.per <= site.places
      /\ site.file \in Nat \ {0} /\ Places = site.places /\ PerFrame = site.per
      /\ FrameNum = site.file
  BY SiteRing DEF TypeInv
<1>5. \A r \in Radios : UnderWay(r)' = UnderWay(r) /\ \A e, b : OnWay(r, e, b)' => OnWay(r, e, b)
  BY <1>1 DEF OnWay, UnderWay
<1>6. \A r : ReadingOf(r)' = ReadingOf(r) /\ (ReadingOf(r) <=> r = u) /\ Being(r)' = Being(r)
  BY <1>1 DEF ReadingOf, Being
<1>12. ring' = [ring EXCEPT ![u] = [ring[u] EXCEPT ![o] = [frame |-> f, data |-> x]]]
  BY <1>2
<1> HIDE DEF u, f, o, more
<1>7. SUFFICES ASSUME NEW r \in Radios
               PROVE  /\ InFile(r)'
                      /\ crowded'[r] \/ (wrong'[r] \subseteq slipped'[r] /\ InRing(r)')
  BY <1>1 DEF RingInv
<1>8. InFile(r) /\ (crowded[r] \/ (wrong[r] \subseteq slipped[r] /\ InRing(r)))
  BY DEF RingInv
<1>9. CASE r # u
  <2>1. /\ file'[r] = file[r] /\ offset'[r] = offset[r] /\ ring'[r] = ring[r]
        /\ ~ ReadingOf(r)' /\ ~ ReadingOf(r)
    <3>1. file'[r] = file[r]
      BY <1>1, <1>3, <1>9
    <3>2. offset'[r] = offset[r]
      BY <1>1, <1>3, <1>9
    <3>3. ring'[r] = ring[r]
      BY <1>3, <1>9, <1>12
    <3>4. QED
      BY <1>6, <1>9, <3>1, <3>2, <3>3
  <2>2. DoneOf(r)' = 0 /\ DoneOf(r) = 0
    BY <2>1 DEF DoneOf
  <2>3. InFile(r)'
    BY <1>1, <1>8, <2>1 DEF InFile
  <2>4. InRing(r) => InRing(r)'
    BY <1>1, <1>5, <1>6, <2>1, <2>2 DEF InRing
  <2>5. QED
    BY <1>1, <1>8, <2>3, <2>4
<1>10. CASE r = u
  <2>1. ReadingOf(r) /\ ReadingOf(r)' /\ DoneOf(r) = done /\ DoneOf(r)' = done + 1 /\ Being(r) = 1
    BY <1>1, <1>6, <1>10 DEF DoneOf, Being
  <2>2. newest[r] = f /\ newest[r] # -1
    BY <1>3, <1>8, <2>1 DEF InFile, f
  <2>3. ASSUME f \notin slipped[r]
        PROVE  /\ more /\ file[u] = First(site, f) + done /\ First(site, f) \in Nat
    <3> DEFINE F == site.file
               p == site.per
    <3>1. file[u] = First(site, f) + done
      BY <1>8, <1>10, <2>1, <2>2, <2>3 DEF InFile
    <3>2. First(site, f) \in Nat /\ First(site, f) + p <= F * p /\ F * p \in Nat
      BY <1>3, <1>4, NextInFile DEF First
    <3>3. done \in Nat /\ done < p /\ p \in Nat
      BY <1>1, <1>3, <1>4
    <3> DEFINE y == First(site, f)
               z == F * p
    <3>4. y \in Nat /\ z \in Nat /\ y + p <= z /\ file[u] = y + done
      BY <3>1, <3>2
    <3> HIDE DEF y, z, p
    <3>5. file[u] < z
      BY <3>3, <3>4
    <3>6. more
      BY <1>4, <3>5 DEF more, z, p
    <3>7. QED
      BY <3>1, <3>2, <3>6
  <2>4. InFile(r)'
    <3>1. f \notin slipped[r] => file'[r] = First(site, f) + (done + 1)
      <4> SUFFICES ASSUME f \notin slipped[r] PROVE file'[r] = First(site, f) + (done + 1)
        OBVIOUS
      <4>1. file'[r] = file[u] + 1
        BY <1>1, <1>3, <1>10, <2>3
      <4>2. First(site, f) \in Nat /\ file[u] = First(site, f) + done
        BY <2>3
      <4>3. QED
        BY <1>3, <4>1, <4>2
    <3>2. newest'[r] = f /\ newest'[r] \in Nat \cup {-1} /\ newest'[r] # -1
      BY <1>1, <1>8, <2>2 DEF InFile
    <3>3. (ReadingOf(r) => reading[1].frame = newest[r])'
      BY <1>1, <1>8, <2>1 DEF InFile
    <3>4. newest'[r] \in slipped'[r] \/ file'[r] = First(site', newest'[r]) + done'
      BY <1>1, <3>1, <3>2
    <3>5. QED
      BY <1>1, <2>1, <3>2, <3>3, <3>4 DEF InFile
  <2>5. (o + 1) % Places = Wrap(site.places, o + 1)
    <3>1. o + 1 \in Int /\ - site.places <= o + 1 /\ o + 1 < site.places + site.places
      BY <1>3, <1>4
    <3>2. QED
      BY <1>4, <3>1, WrapIsMod
  <2>6. offset'[r] = Wrap(site.places, o + 1) /\ offset[r] = o
    BY <1>1, <1>3, <1>10, <2>5 DEF o
  <2>7. ring'[r][o].data = x /\ \A i \in 0 .. site.places - 1 : i # o => ring'[r][i] = ring[r][i]
    <3> DEFINE row == ring[r]
               p == [frame |-> f, data |-> x]
    <3>1. row \in [0 .. site.places - 1 -> Packet] /\ o \in 0 .. site.places - 1 /\ p.data = x
      BY <1>3, <1>4, <1>10
    <3>2. ring'[r] = [row EXCEPT ![o] = p]
      BY <1>3, <1>10, <1>12
    <3> HIDE DEF row, p
    <3>3. ring'[r][o] = p /\ \A i \in 0 .. site.places - 1 : i # o => ring'[r][i] = row[i]
      BY <3>1, <3>2
    <3>4. QED
      BY <3>1, <3>3 DEF row
  <2>8. o \in 0 .. site.places - 1 /\ done \in 0 .. site.per - 1 /\ site.places \in Nat
    BY <1>1, <1>3, <1>4
  <2>9. ASSUME InRing(r) PROVE InRing(r)'
    <3>1. (UnderWay(r) + 1) * site.per <= site.places /\ UnderWay(r) \in Nat
      BY <2>1, <2>9, WayRange DEF InRing
    <3>2. ASSUME NEW e, NEW b, OnWay(r, e, b)'
          PROVE  Sound(site, ring'[r], offset'[r], done + 1, slipped[r], e, b)
      <4>1. OnWay(r, e, b)
        BY <1>5, <3>2
      <4>2. Sound(site, ring[r], o, done, slipped[r], e, b)
        BY <2>1, <2>6, <2>9, <4>1 DEF InRing
      <4>3. b \in 1 .. UnderWay(r)
        BY <4>1, WayRange
      <4> DEFINE row == ring[r]
                 row2 == ring'[r]
                 w == UnderWay(r)
                 bad == slipped[r]
      <4>4. /\ w \in Nat /\ b \in 1 .. w /\ (w + 1) * site.per <= site.places
            /\ Sound(site, row, o, done, bad, e, b)
            /\ \A i \in 0 .. site.places - 1 : i # o => row2[i] = row[i]
        BY <2>7, <3>1, <4>2, <4>3
      <4> HIDE DEF row, row2, w, bad
      <4>5. Sound(site, row2, Wrap(site.places, o + 1), done + 1, bad, e, b)
        BY <1>4, <2>8, <4>4, SoundWrite
      <4>6. QED
        BY <2>6, <4>5 DEF row2, bad
    <3>3. Loaded(site, ring'[r], offset'[r], done + 1, slipped[r], f)
      <4>1. Loaded(site, ring[r], o, done, slipped[r], f)
        BY <2>1, <2>2, <2>6, <2>9 DEF InRing
      <4>2. f \in slipped[r] \/ ring'[r][o].data = First(site, f) + done
        <5>1. ASSUME f \notin slipped[r] PROVE x = First(site, f) + done
          BY <1>2, <2>3, <5>1
        <5>2. ring'[r][o].data = x
          BY <2>7
        <5>3. QED
          BY <5>1, <5>2
      <4> DEFINE row == ring[r]
                 row2 == ring'[r]
                 bad == slipped[r]
      <4>3. /\ Loaded(site, row, o, done, bad, f)
            /\ \A i \in 0 .. site.places - 1 : i # o => row2[i] = row[i]
            /\ f \in bad \/ row2[o].data = First(site, f) + done
        BY <2>7, <4>1, <4>2
      <4> HIDE DEF row, row2, bad
      <4>4. Loaded(site, row2, Wrap(site.places, o + 1), done + 1, bad, f)
        BY <1>4, <2>8, <4>3, LoadedWrite
      <4>5. QED
        BY <2>6, <4>4 DEF row2, bad
    <3>4. (UnderWay(r)' + Being(r)') * site.per <= site.places
      BY <1>5, <1>6, <2>1, <3>1
    <3>5. (\A e, b : OnWay(r, e, b) => Sound(site, ring[r], offset[r], DoneOf(r), slipped[r], e, b))'
      BY <1>1, <2>1, <3>2
    <3>6. (ReadingOf(r) => Loaded(site, ring[r], offset[r], done, slipped[r], newest[r]))'
      BY <1>1, <2>2, <3>3
    <3>7. QED
      BY <3>4, <3>5, <3>6 DEF InRing
  <2>10. QED
    BY <1>1, <1>8, <2>4, <2>9
<1>11. QED
  BY <1>9, <1>10

LEMMA FinishReadRing ==
  ASSUME TypeInv, TypeInv', RingInv, UNCHANGED site, FinishRead
  PROVE  RingInv'
<1> DEFINE u == reading[1].radio
           f == reading[1].frame
           o == offset[u]
           n == [radio |-> u, frame |-> f, off |-> (o - PerFrame) % Places]
<1>1. /\ reading # <<>> /\ reading' = <<>> /\ done = PerFrame /\ reads' = Append(reads, n)
      /\ Radios' = Radios
      /\ UNCHANGED <<hand, txQ, wrong, done, offset, file, ring, newest, slipped, crowded>>
  BY DEF FinishRead, threadVars, Radios
<1>2. /\ site.places \in Nat \ {0} /\ site.per \in Nat \ {0} /\ site.per <= site.places
      /\ Places = site.places /\ PerFrame = site.per
  BY SiteRing DEF TypeInv
<1>3. u \in Radios /\ f \in Nat /\ o \in 0 .. site.places - 1
  <2>1. u \in Radios /\ f \in Nat
    BY <1>1, ReadingEvent
  <2>2. offset \in [Radios -> 0 .. site.places - 1]
    BY <1>2 DEF TypeInv, ReaderType
  <2>3. QED
    BY <2>1, <2>2
<1>4. n \in Carrier /\ n.radio = u /\ n.frame = f /\ n.off = (o - site.per) % site.places
  <2>1. (o - PerFrame) % Places \in 0 .. Places - 1
    BY <1>2, <1>3
  <2>2. n \in ReadEvent
    BY <1>3, <2>1 DEF ReadEvent
  <2>3. QED
    BY <1>2, <2>2 DEF Carrier
<1>5. \A r : ~ ReadingOf(r)' /\ DoneOf(r)' = 0 /\ Being(r)' = 0 /\ (ReadingOf(r) <=> r = u)
  BY <1>1 DEF ReadingOf, DoneOf, Being
<1> HIDE DEF u, f, o, n
<1>6. SUFFICES ASSUME NEW r \in Radios
               PROVE  /\ InFile(r)'
                      /\ crowded'[r] \/ (wrong'[r] \subseteq slipped'[r] /\ InRing(r)')
  BY <1>1 DEF RingInv
<1>7. InFile(r) /\ (crowded[r] \/ (wrong[r] \subseteq slipped[r] /\ InRing(r)))
  BY DEF RingInv
<1>8. InFile(r)'
  BY <1>1, <1>2, <1>5, <1>7 DEF InFile
<1>9. \A e, b : OnWay(r, e, b)' => b \in Nat /\ b > 0
  BY <1>1, WayRangeNext
<1>10. CASE r # u
  <2>1. /\ UnderWay(r)' = UnderWay(r) + 0
        /\ \A e, b : OnWay(r, e, b)' => OnWay(r, e, b - 0)
    BY <1>1, <1>4, <1>10, FinishReadWay
  <2>2. UnderWay(r)' = UnderWay(r)
    BY <2>1, WayRange
  <2>3. \A e, b : OnWay(r, e, b)' => OnWay(r, e, b)
    <3> SUFFICES ASSUME NEW e, NEW b, OnWay(r, e, b)' PROVE OnWay(r, e, b)
      OBVIOUS
    <3>1. b - 0 = b
      BY <1>9
    <3>2. OnWay(r, e, b - 0)
      BY <2>1
    <3>3. QED
      BY <3>1, <3>2
  <2>4. ~ ReadingOf(r) /\ DoneOf(r) = 0 /\ Being(r) = 0
    BY <1>5, <1>10 DEF DoneOf, Being
  <2>5. InRing(r) => InRing(r)'
    BY <1>1, <1>5, <2>2, <2>3, <2>4 DEF InRing
  <2>6. QED
    BY <1>1, <1>7, <1>8, <2>5
<1>11. CASE r = u
  <2>1. /\ UnderWay(r)' = UnderWay(r) + 1
        /\ \A e, b : OnWay(r, e, b)' => OnWay(r, e, b - 1) \/ (e = n /\ b = 1)
    BY <1>1, <1>4, <1>11, FinishReadWay
  <2>2. ReadingOf(r) /\ DoneOf(r) = site.per /\ Being(r) = 1 /\ offset[r] = o
    BY <1>1, <1>2, <1>5, <1>11 DEF DoneOf, Being, o
  <2>3. newest[r] = f
    BY <1>7, <2>2 DEF InFile, f
  <2>4. ASSUME InRing(r) PROVE InRing(r)'
    <3>1. (UnderWay(r)' + Being(r)') * site.per <= site.places
      <4>1. UnderWay(r)' + Being(r)' = UnderWay(r) + 1
        BY <1>5, <2>1, WayRange
      <4>2. QED
        BY <2>2, <2>4, <4>1 DEF InRing
    <3>2. ASSUME NEW e, NEW b, OnWay(r, e, b)'
          PROVE  Sound(site, ring[r], o, 0, slipped[r], e, b)
      <4>1. CASE OnWay(r, e, b - 1)
        <5>1. Sound(site, ring[r], o, site.per, slipped[r], e, b - 1)
          BY <2>2, <2>4, <4>1 DEF InRing
        <5>2. b \in Nat /\ b > 0
          BY <1>9, <3>2
        <5>3. QED
          BY <1>2, <1>3, <5>1, <5>2, SoundFinish
      <4>2. CASE e = n /\ b = 1
        <5>1. Loaded(site, ring[r], o, site.per, slipped[r], n.frame)
          BY <1>1, <1>2, <1>4, <2>2, <2>3, <2>4 DEF InRing
        <5>2. Sound(site, ring[r], o, 0, slipped[r], n, 1)
          BY <1>2, <1>3, <1>4, <5>1, SoundNew
        <5>3. QED
          BY <4>2, <5>2
      <4>3. QED
        BY <2>1, <3>2, <4>1, <4>2
    <3>3. (\A e, b : OnWay(r, e, b) => Sound(site, ring[r], offset[r], DoneOf(r), slipped[r], e, b))'
      BY <1>1, <1>5, <2>2, <3>2
    <3>4. QED
      BY <1>5, <3>1, <3>3 DEF InRing
  <2>5. QED
    BY <1>1, <1>7, <1>8, <2>4
<1>12. QED
  BY <1>10, <1>11

LEMMA RingStep == TypeInv /\ TypeInv' /\ RingInv /\ [Next]_vars => RingInv'
<1> SUFFICES ASSUME TypeInv, TypeInv', RingInv, [Next]_vars PROVE RingInv'
  OBVIOUS
<1>1. CASE UNCHANGED vars
  <2>1. /\ UNCHANGED <<site, readerVars, wrong, hand, txQ, reads>> /\ UNCHANGED crowded
        /\ UNCHANGED slipped /\ Radios' = Radios
    BY <1>1 DEF vars, threadVars, readerVars, Radios
  <2>2. \A r \in Radios : UnderWay(r)' <= UnderWay(r) /\ \A e, b : OnWay(r, e, b)' => OnWay(r, e, b)
    <3>1. \A r \in Radios : UnderWay(r)' = UnderWay(r) /\ \A e, b : OnWay(r, e, b)' => OnWay(r, e, b)
      BY <2>1 DEF OnWay, UnderWay
    <3>2. \A r \in Radios : UnderWay(r) \in Nat
      BY WayRange
    <3>3. QED
      BY <3>1, <3>2
  <2>3. \A r \in Radios : (InFile(r) => InFile(r)') /\ (InRing(r) => InRing(r)')
    BY <2>1, <2>2, QuietRing
  <2>4. QED
    BY <2>1, <2>3 DEF RingInv
<1>2. CASE UNCHANGED site /\ \E u \in Radios : Thread(u)
  BY <1>2, ThreadRing
<1>3. CASE UNCHANGED site /\ (DispatchTx \/ \E e \in requests : DispatchRead(e))
  BY <1>3, DispatchRing
<1>4. CASE UNCHANGED site /\ Reader
  BY <1>4, BeginReadRing, ReadPacketRing, FinishReadRing DEF Reader
<1>5. QED
  BY <1>1, <1>2, <1>3, <1>4, NextCases

\* A frame that was read in step with the file is sent with its own samples as
\* long as no more frames were under way than the ring holds
\* (hdf5_reader.cc:101-125, receiver.cc:267-272), for every file, ring and
\* length of a frame.
THEOREM SentRight == Spec => []SentIsRight
<1>1. Init => TypeInv /\ RingInv
  BY InitType, InitRing
<1>2. TypeInv /\ RingInv /\ [Next]_vars => (TypeInv /\ RingInv)'
  BY TypeStep, RingStep
<1>3. RingInv => SentIsRight
  BY DEF RingInv, SentIsRight
<1>4. QED
  BY <1>1, <1>2, <1>3, PTL DEF Spec
=============================================================================
