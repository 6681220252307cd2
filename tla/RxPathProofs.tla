---------------------------- MODULE RxPathProofs ----------------------------
(***************************************************************************)
(* Proofs about the receive path for every number of cells, radios,        *)
(* threads, channels, recorders and ring buffers.                          *)
(***************************************************************************)
EXTENDS RxPath, TLAPS

-----------------------------------------------------------------------------
(* Arithmetic of the partitions *)

\* The number of radios is a positive natural number.
LEMMA RadioCount == NumRadios \in Nat \ {0}
<1>1. NumRadios \in Nat
  BY CellAssumption DEF NumRadios
<1>2. QED
  BY <1>1, SizeAssumption

\* A buffer offset names one buffer of one thread (scheduler.cc:253,
\* recorder_thread.cc:138-139): the recorder finds the ring and the place
\* that the receive thread meant.
LEMMA OffsetSplits ==
  ASSUME NEW t \in Threads, NEW i \in Index
  PROVE  /\ Offset(t, i) \in Offsets
         /\ BufferId(Offset(t, i)) = t
         /\ BufferOffset(Offset(t, i)) = i
<1> DEFINE o == Offset(t, i)
<1>1. /\ t \in Nat /\ t < NumThreads /\ NumThreads \in Nat
      /\ i \in Nat /\ i < Chunk /\ Chunk \in Nat \ {0}
  BY SizeAssumption DEF Threads, Index
<1>2. t * Chunk \in Nat /\ NumThreads * Chunk \in Nat
  BY <1>1
<1>3. (t + 1) * Chunk <= NumThreads * Chunk
  BY <1>1
<1>4. (t + 1) * Chunk = t * Chunk + Chunk
  BY <1>1
<1>5. o \in Offsets
  BY <1>1, <1>2, <1>3, <1>4 DEF Offset, Offsets
<1>6. (i + t * Chunk) \div Chunk = t
  BY <1>1, <1>2
<1>7. QED
  BY <1>1, <1>2, <1>5, <1>6 DEF Offset, BufferId, BufferOffset

\* Conversely every offset is the offset of a buffer of a thread.
LEMMA OffsetCovers ==
  ASSUME NEW o \in Offsets
  PROVE  /\ BufferId(o) \in Threads
         /\ BufferOffset(o) \in Index
         /\ o = Offset(BufferId(o), BufferOffset(o))
<1> DEFINE q == o \div Chunk
<1>1. NumThreads \in Nat \ {0} /\ Chunk \in Nat \ {0}
  BY SizeAssumption
<1>2. o \in Nat /\ o < NumThreads * Chunk
  BY <1>1 DEF Offsets
<1>3. q \in Nat /\ q * Chunk <= o /\ o < (q + 1) * Chunk
  BY <1>1, <1>2
<1>4. q < NumThreads
  <2>1. SUFFICES ASSUME q >= NumThreads PROVE FALSE
    BY <1>1, <1>3
  <2>2. q * Chunk >= NumThreads * Chunk
    BY <2>1, <1>1, <1>3
  <2>3. QED
    BY <2>2, <1>1, <1>2, <1>3
<1>5. (q + 1) * Chunk = q * Chunk + Chunk
  BY <1>1, <1>3
<1>6. o - q * Chunk \in 0 .. Chunk - 1
  BY <1>1, <1>2, <1>3, <1>5
<1>7. QED
  BY <1>1, <1>2, <1>3, <1>4, <1>6
     DEF BufferId, BufferOffset, Threads, Index, Offset

\* Every receive thread serves at least one radio, and only existing ones
\* (receiver.cc:370-373).
LEMMA RadioPartition ==
  ASSUME NEW t \in Threads
  PROVE  /\ RadioStart(t) \in Nat /\ RadioEnd(t) \in Nat
         /\ RadioStart(t) < RadioEnd(t)
         /\ RadioEnd(t) <= NumRadios
<1> DEFINE n == NumRadios
           k == NumThreads
           a == RadioStart(t)
           b == RadioEnd(t)
<1>1. n \in Nat \ {0} /\ k \in Nat \ {0} /\ k <= n /\ t \in Nat /\ t < k
  BY RadioCount, SizeAssumption DEF Threads
<1>2. /\ t * n \in Nat /\ (t + 1) * n \in Nat
      /\ (t + 1) * n = t * n + n
      /\ (t + 1) * n <= k * n
  BY <1>1
<1>3. a \in Nat /\ a * k <= t * n
  BY <1>1, <1>2 DEF RadioStart
<1>4. b \in Nat /\ b * k <= (t + 1) * n /\ (t + 1) * n < (b + 1) * k
  BY <1>1, <1>2 DEF RadioEnd
<1>5. a < b
  <2>1. SUFFICES ASSUME b <= a PROVE FALSE
    BY <1>3, <1>4
  <2>2. (b + 1) * k <= (a + 1) * k /\ (a + 1) * k = a * k + k
    BY <2>1, <1>1, <1>3, <1>4
  <2>3. QED
    BY <2>2, <1>1, <1>2, <1>3, <1>4
<1>6. b <= n
  <2>1. SUFFICES ASSUME b >= n + 1 PROVE FALSE
    BY <1>1, <1>4
  <2>2. b * k >= (n + 1) * k /\ (n + 1) * k = n * k + k /\ k * n = n * k
    BY <2>1, <1>1, <1>4
  <2>3. QED
    BY <2>2, <1>1, <1>2, <1>4
<1>7. QED
  BY <1>3, <1>4, <1>5, <1>6

\* The cell of a radio and its id in the cell.
LEMMA CellOfRadio ==
  ASSUME NEW it \in Radios
  PROVE  /\ CellOf(it) \in 0 .. NumCells - 1
         /\ LocalId(it) \in 0 .. NumRadios - 1
<1>1. \E c \in 0 .. NumCells - 1 : Agg[c] <= it /\ it < Agg[c + 1]
  BY CellAssumption
<1>2. /\ CellOf(it) \in 0 .. NumCells - 1
      /\ Agg[CellOf(it)] <= it
  BY <1>1 DEF CellOf
<1>3. Agg[CellOf(it)] \in Nat
  BY <1>2, CellAssumption
<1>4. QED
  BY <1>2, <1>3, RadioCount DEF LocalId, Radios

\* Every antenna belongs to an existing recorder, and lies in the range that
\* recorder was created with (scheduler.cc:178-198, 244; the assertion at
\* recorder_worker.cc:299-300).
LEMMA AntennaPartition ==
  ASSUME NEW ant \in Antennas
  PROVE  RecorderOf(ant) \in Recorders /\ InRange(RecorderOf(ant), ant)
<1> DEFINE A == TotalAntennas
           R == NumRecorders
           T == ThreadAntennas
           q == ant \div T
<1>1. A \in Nat \ {0} /\ R \in Nat \ {0} /\ ant \in Nat /\ ant < A
  BY RadioCount, SizeAssumption DEF TotalAntennas, Antennas
<1>2. T \in Nat \ {0} /\ A <= R * T
  <2> DEFINE d == A \div R
             m == A % R
  <2>1. d \in Nat /\ m \in Nat /\ A = R * d + m /\ m < R
    BY <1>1
  <2>2. CASE m = 0
    <3>1. T = d
      BY <2>1, <2>2 DEF ThreadAntennas
    <3>2. d # 0
      BY <2>1, <2>2, <1>1
    <3>3. QED
      BY <3>1, <3>2, <2>1, <2>2, <1>1
  <2>3. CASE m # 0
    <3>1. T = d + 1
      BY <2>1, <2>3 DEF ThreadAntennas
    <3>2. R * (d + 1) = R * d + R
      BY <1>1, <2>1
    <3>3. QED
      BY <3>1, <3>2, <2>1, <1>1
  <2>4. QED
    BY <2>2, <2>3
<1> HIDE DEF T
<1>3. q \in Nat /\ q * T <= ant /\ ant < (q + 1) * T /\ (q + 1) * T = q * T + T
  BY <1>1, <1>2
<1>4. q < R
  <2>1. SUFFICES ASSUME q >= R PROVE FALSE
    BY <1>1, <1>3
  <2>2. q * T >= R * T
    BY <2>1, <1>1, <1>2, <1>3
  <2>3. QED
    BY <2>2, <1>1, <1>2, <1>3
<1>5. QED
  BY <1>1, <1>2, <1>3, <1>4 DEF RecorderOf, InRange, Recorders, T
-----------------------------------------------------------------------------
(* Type correctness *)

Control == TypeOK /\ ThreadInv /\ RecorderInv /\ MainInv

\* The sizes as facts for the provers.
LEMMA Sizes ==
  /\ NumThreads \in Nat \ {0} /\ Chunk \in Nat \ {0} /\ NumCh \in {1, 2}
  /\ NumRecorders \in Nat \ {0} /\ SlotPerFrame \in Nat \ {0}
  /\ MaxFrame \in Nat /\ TxFrameDelta \in Nat
BY SizeAssumption, ScheduleAssumption

\* A radio read fits between the cursor and the end of the ring, and the
\* cursor stays at the start of a read (receiver.cc:356 "this is assuming
\* buffer_chunk_size is at least 2").
LEMMA ReadFits ==
  ASSUME NEW c \in Index, c % NumCh = 0
  PROVE  /\ c + NumCh <= Chunk
         /\ (c + NumCh) % Chunk \in Index
         /\ ((c + NumCh) % Chunk) % NumCh = 0
<1>1. c \in Nat /\ c < Chunk /\ Chunk \in Nat \ {0} /\ Chunk % NumCh = 0
  BY SizeAssumption DEF Index
<1>2. c + NumCh <= Chunk
  <2>1. CASE NumCh = 1
    BY <1>1, <2>1
  <2>2. CASE NumCh = 2
    BY <1>1, <2>2
  <2>3. QED
    BY <2>1, <2>2, SizeAssumption
<1>3. (c + NumCh) % Chunk = IF c + NumCh = Chunk THEN 0 ELSE c + NumCh
  BY <1>1, <1>2, Sizes
<1>4. (c + NumCh) % NumCh = 0
  <2>1. CASE NumCh = 1
    BY <1>1, <2>1
  <2>2. CASE NumCh = 2
    BY <1>1, <2>2
  <2>3. QED
    BY <2>1, <2>2, SizeAssumption
<1>5. QED
  BY <1>1, <1>2, <1>3, <1>4, Sizes DEF Index

LEMMA InsideRead ==
  ASSUME NEW c \in Index, NEW k \in 0 .. NumCh - 1, c + NumCh <= Chunk
  PROVE  c + k \in Index /\ (c + k) % Chunk = c + k
<1>1. c \in Nat /\ k \in Nat /\ k < NumCh /\ Chunk \in Nat \ {0} /\ NumCh \in Nat
  BY Sizes DEF Index
<1>2. c + k \in Nat /\ c + k < Chunk
  BY <1>1
<1>3. \A x \in Nat : x < Chunk => x % Chunk = x
  BY <1>1
<1>4. QED
  BY <1>1, <1>2, <1>3 DEF Index

\* The radios of a thread are radios.
LEMMA OwnRadios ==
  ASSUME NEW t \in Threads, NEW it \in RadioStart(t) .. RadioEnd(t) - 1
  PROVE  it \in Radios
BY RadioPartition, RadioCount DEF Radios

LEMMA InitControl == Init => Control
<1> SUFFICES ASSUME Init PROVE Control
  OBVIOUS
<1>1. \A t \in Threads : RadioStart(t) \in RadioStart(t) .. RadioEnd(t) - 1
                         /\ RadioStart(t) \in Radios
  BY RadioPartition, OwnRadios
<1>2. 0 \in Recorders /\ 0 \in Index /\ 0 \in Frames /\ 0 \in 0 .. NumCh - 1
  BY Sizes DEF Recorders, Index, Frames
<1>3. TypeOK
  <2>1. Empty \in Content
    BY DEF Content
  <2>2. <<>> \in Seq(Offsets \cup {Terminate})
    OBVIOUS
  <2>3. 0 \in 0 .. SlotPerFrame
    BY Sizes
  <2>4. QED
    BY <1>1, <1>2, <2>1, <2>2, <2>3 DEF Init, TypeOK
<1>4. ThreadInv
  <2>1. 0 % NumCh = 0
    BY Sizes
  <2>2. 0 \in Slots
    BY Sizes DEF Slots
  <2>3. QED
    BY <1>1, <2>1, <2>2 DEF Init, ThreadInv
<1>5. RecorderInv
  BY DEF Init, RecorderInv
<1>6. MainInv
  BY DEF Init, MainInv
<1>7. QED
  BY <1>3, <1>4, <1>5, <1>6 DEF Control
\* The steps of a receive thread preserve Control.
LEMMA ReceiveControl ==
  ASSUME Control, NEW t \in Threads, Receive(t)
  PROVE  Control'
<1> USE DEF Control
<1>0. /\ ch[t] \in 0 .. NumCh - 1 /\ radio[t] \in RadioStart(t) .. RadioEnd(t) - 1
      /\ radio[t] \in Radios /\ cursor[t] \in Index /\ cursor[t] % NumCh = 0
  BY OwnRadios DEF TypeOK, ThreadInv
<1>00. /\ cursor[t] + NumCh <= Chunk /\ (cursor[t] + NumCh) % Chunk \in Index
       /\ ((cursor[t] + NumCh) % Chunk) % NumCh = 0
  BY <1>0, ReadFits
<1>01. cursor[t] + ch[t] \in Index /\ (cursor[t] + ch[t]) % Chunk = cursor[t] + ch[t]
  BY <1>0, ReadFits, InsideRead
<1>02. MainInv'
  BY DEF Receive, SyncRead, Leave, BeginSlot, Reserve, SwRead, HwRead, ReadError,
     RequestFrame, FreeUnused, Notify, mainVars, MainInv
<1>1. CASE Leave(t)
  BY <1>1 DEF Leave, Goto, TypeOK, ThreadInv, RecorderInv, MainInv, bufVars, mainVars, recVars
<1>s. CASE SyncRead(t)
  <2>1. RadioStart(t) \in RadioStart(t) .. RadioEnd(t) - 1
    BY RadioPartition
  <2>2. radio[t] + 1 < RadioEnd(t) => radio[t] + 1 \in RadioStart(t) .. RadioEnd(t) - 1
    BY <1>0, RadioPartition
  <2>3. /\ radio' \in [Threads -> Radios] /\ radio'[t] \in RadioStart(t) .. RadioEnd(t) - 1
        /\ \A u \in Threads \ {t} : radio'[u] = radio[u]
    BY <1>s, <2>1, <2>2, OwnRadios DEF SyncRead, TypeOK
  <2>4. pc[t] = "sync" /\ (pc' = pc \/ pc' = [pc EXCEPT ![t] = "top"])
    BY <1>s DEF SyncRead, Goto
  <2>5. /\ UNCHANGED <<running, ch, frame, slot, cursor, last, bufVars, msgQ,
                       mainVars, recQ, recVars, readReqs, fault>>
    BY <1>s DEF SyncRead
  <2>6. TypeOK'
    BY <2>3, <2>4, <2>5 DEF TypeOK, bufVars, mainVars, recVars
  <2>7. ThreadInv'
    BY <2>3, <2>4, <2>5 DEF TypeOK, ThreadInv
  <2>8. RecorderInv'
    BY <2>5 DEF RecorderInv, recVars
  <2>9. QED
    BY <1>02, <2>6, <2>7, <2>8
<1>2. CASE BeginSlot(t)
  <2>1. RadioStart(t) \in RadioStart(t) .. RadioEnd(t) - 1 /\ RadioStart(t) \in Radios
    BY RadioPartition, OwnRadios
  <2>2. frame' \in [Threads -> Frames]
    BY <1>2, Sizes DEF BeginSlot, TypeOK, Frames, WrapsFrame
  <2>3. slot' \in [Threads -> 0 .. SlotPerFrame] /\ slot'[t] \in Slots
    BY <1>2, Sizes DEF BeginSlot, TypeOK, Slots, WrapsFrame, ThreadInv
  <2>4. TypeOK'
    BY <1>2, <2>1, <2>2, <2>3, Sizes
       DEF BeginSlot, Goto, TypeOK, bufVars, mainVars, recVars
  <2>5. ThreadInv'
    BY <1>2, <2>1, <2>3 DEF BeginSlot, Goto, TypeOK, ThreadInv, WrapsFrame
  <2>6. RecorderInv'
    BY <1>2 DEF BeginSlot, RecorderInv, recVars
  <2>7. QED
    BY <1>02, <2>4, <2>5, <2>6
<1>3. CASE Reserve(t)
  <2>1. /\ inuse' \in [Threads -> [Index -> BOOLEAN]] /\ fault' \in {"none", "full", fault}
        /\ ch' \in [Threads -> 0 .. NumCh - 1]
        /\ pc' = pc \/ pc' = [pc EXCEPT ![t] = "receive"]
    <3>1. inuse' = [inuse EXCEPT ![t][cursor[t] + ch[t]] = TRUE]
          /\ fault' \in {"full", fault}
      BY <1>3 DEF Reserve
    <3>2. \/ UNCHANGED <<pc, ch>>
          \/ pc' = [pc EXCEPT ![t] = "receive"] /\ ch' = [ch EXCEPT ![t] = 0]
          \/ ch[t] + 1 # NumCh /\ UNCHANGED pc /\ ch' = [ch EXCEPT ![t] = @ + 1]
      BY <1>3 DEF Reserve, Goto
    <3>3. 0 \in 0 .. NumCh - 1 /\ (ch[t] + 1 # NumCh => ch[t] + 1 \in 0 .. NumCh - 1)
      BY <1>0, Sizes
    <3>4. /\ inuse \in [Threads -> [Index -> BOOLEAN]]
          /\ ch \in [Threads -> 0 .. NumCh - 1]
      BY DEF TypeOK
    <3>5. inuse' \in [Threads -> [Index -> BOOLEAN]]
      BY <1>01, <3>1, <3>4
    <3>6. ch' \in [Threads -> 0 .. NumCh - 1]
      BY <3>2, <3>3, <3>4
    <3>7. QED
      BY <3>1, <3>2, <3>5, <3>6
  <2>2. TypeOK'
    BY <1>3, <2>1 DEF Reserve, TypeOK, mainVars, recVars
  <2>3. ThreadInv'
    BY <1>0, <1>3, Sizes DEF Reserve, Goto, TypeOK, ThreadInv
  <2>4. RecorderInv'
    BY <1>3 DEF Reserve, RecorderInv, recVars
  <2>5. QED
    BY <1>02, <2>2, <2>3, <2>4
<1>4. ASSUME Fill(t) PROVE ring' \in [Threads -> [Index -> Content]]
  BY <1>4 DEF Fill, TypeOK, Content
<1>5. CASE SwRead(t)
  BY <1>0, <1>4, <1>5 DEF SwRead, AfterRead, Goto, TypeOK, ThreadInv, RecorderInv, MainInv,
     mainVars, recVars
<1>6. CASE HwRead(t)
  <2>1. PICK f \in Frames, s \in RxSlots[radio[t]] :
          /\ last'  = [last EXCEPT ![radio[t]] = Stamp(f, s)]
          /\ frame' = [frame EXCEPT ![t] = f]
          /\ slot'  = [slot EXCEPT ![t] = s]
          /\ AfterRead(t, s)
    BY <1>6 DEF HwRead
  <2>2. s \in Slots /\ s \in 0 .. SlotPerFrame /\ Stamp(f, s) \in Int
    BY <1>0, ScheduleAssumption, Sizes DEF Slots, Stamp, Frames
  <2>3. TypeOK'
    BY <1>4, <1>6, <2>1, <2>2 DEF HwRead, AfterRead, Goto, TypeOK, mainVars, recVars
  <2>4. ThreadInv'
    BY <1>6, <2>1, <2>2 DEF HwRead, AfterRead, Goto, TypeOK, ThreadInv
  <2>5. RecorderInv'
    BY <1>6 DEF HwRead, RecorderInv, recVars
  <2>6. QED
    BY <1>02, <2>3, <2>4, <2>5
<1>7. CASE ReadError(t)
  BY <1>7 DEF ReadError, Goto, TypeOK, ThreadInv, RecorderInv, MainInv, bufVars, mainVars, recVars
<1>8. CASE RequestFrame(t)
  <2>1. LocalId(radio[t]) \in Antennas
    BY <1>0, CellOfRadio, RadioCount, Sizes DEF Antennas
  <2>2. /\ frame[t] + TxFrameDelta \in Nat /\ 0 \in Slots
        /\ 0 \in Offsets
    <3>1. 0 \in Threads /\ 0 \in Index /\ Offset(0, 0) \in Offsets
      BY Sizes, OffsetSplits DEF Threads, Index
    <3>2. Offset(0, 0) = 0
      BY Sizes DEF Offset
    <3>3. QED
      BY <3>1, <3>2, Sizes DEF TypeOK, Frames, Slots
  <2>3. msgQ' \subseteq Event
    BY <1>0, <1>8, <2>1, <2>2 DEF RequestFrame, TypeOK, Event
  <2>4. QED
    BY <1>8, <2>3 DEF RequestFrame, Goto, TypeOK, ThreadInv, RecorderInv, MainInv,
       bufVars, mainVars, recVars
<1>9. ASSUME NextChannel(t), pc[t] \notin {"sync", "top", "left"}
      PROVE  /\ ch' \in [Threads -> 0 .. NumCh - 1]
             /\ radio' \in [Threads -> Radios]
             /\ slot' \in [Threads -> 0 .. SlotPerFrame]
             /\ \/ pc' = pc /\ radio' = radio /\ slot' = slot
                \/ pc' = [pc EXCEPT ![t] = "reserve"] /\ ch'[t] = 0 /\ slot' = slot
                \/ pc' = [pc EXCEPT ![t] = "top"] /\ ch'[t] = 0
             /\ radio'[t] \in RadioStart(t) .. RadioEnd(t) - 1
             /\ HwFramer => slot' = slot
             /\ \A u \in Threads \ {t} : /\ ch'[u] = ch[u] /\ radio'[u] = radio[u]
                                         /\ slot'[u] = slot[u]
  <2>1. slot[t] \in Slots
    BY <1>9 DEF ThreadInv
  <2>2. CASE ch[t] + 1 # NumCh
    <3>1. UNCHANGED <<radio, slot, pc>> /\ ch' = [ch EXCEPT ![t] = @ + 1]
      BY <1>9, <2>2 DEF NextChannel
    <3>2. ch[t] + 1 \in 0 .. NumCh - 1
      BY <1>0, <2>2, Sizes
    <3>3. QED
      BY <1>0, <3>1, <3>2 DEF TypeOK
  <2>3. CASE ch[t] + 1 = NumCh
    <3>1. ch' = [ch EXCEPT ![t] = 0] /\ 0 \in 0 .. NumCh - 1 /\ NextRadio(t)
      BY <1>9, <2>3, Sizes DEF NextChannel
    <3>2. CASE radio[t] + 1 < RadioEnd(t)
      <4>1. radio[t] + 1 \in RadioStart(t) .. RadioEnd(t) - 1
        BY <1>0, <3>2, RadioPartition
      <4>2. radio[t] + 1 \in Radios
        BY <4>1, OwnRadios
      <4>3. QED
        BY <3>1, <3>2, <4>1, <4>2 DEF NextRadio, Goto, TypeOK
    <3>3. CASE ~(radio[t] + 1 < RadioEnd(t))
      <4>1. slot[t] + 1 \in 0 .. SlotPerFrame
        BY <2>1, Sizes DEF Slots
      <4>2. QED
        BY <1>0, <3>1, <3>3, <4>1 DEF NextRadio, Goto, TypeOK
    <3>4. QED
      BY <3>2, <3>3
  <2>4. QED
    BY <2>2, <2>3
<1>10. CASE FreeUnused(t)
  <2>1. pc[t] \notin {"sync", "top", "left"}
    BY <1>10 DEF FreeUnused
  <2>2. TypeOK'
    <3>1. inuse' \in [Threads -> [Index -> BOOLEAN]] /\ fault' \in {"free", fault}
      BY <1>01, <1>10 DEF FreeUnused, TypeOK
    <3>2. /\ radio' \in [Threads -> Radios] /\ slot' \in [Threads -> 0 .. SlotPerFrame]
          /\ pc' \in [Threads -> {"sync", "top", "reserve", "receive", "request", "free",
                                  "notify", "left", "failed"}]
          /\ ch' \in [Threads -> 0 .. NumCh - 1]
      <4>1. CASE NextChannel(t)
        BY <1>9, <2>1, <4>1 DEF TypeOK
      <4>2. CASE UNCHANGED <<radio, slot, pc, ch>>
        BY <4>2 DEF TypeOK
      <4>3. QED
        BY <1>10, <4>1, <4>2 DEF FreeUnused
    <3>3. QED
      BY <1>10, <3>1, <3>2 DEF FreeUnused, TypeOK, mainVars, recVars
  <2>3. ThreadInv'
    BY <1>9, <1>10, <2>1 DEF FreeUnused, TypeOK, ThreadInv
  <2>4. RecorderInv'
    BY <1>10 DEF FreeUnused, RecorderInv, recVars
  <2>5. QED
    BY <1>02, <2>2, <2>3, <2>4
<1>11. CASE Notify(t)
  <2>1. cursor[t] + ch[t] \in Index /\ (cursor[t] + ch[t]) % Chunk \in Index
    BY <1>01
  <2>2. slot[t] \in Slots /\ slot[t] \in RxSlots[radio[t]]
    BY <1>11 DEF Notify, ThreadInv
  <2>3. LocalId(radio[t]) * NumCh + ch[t] \in Antennas
    <3>1. LocalId(radio[t]) \in 0 .. NumRadios - 1
      BY <1>0, CellOfRadio
    <3>2. CASE NumCh = 1
      BY <1>0, <3>1, <3>2, RadioCount DEF Antennas
    <3>3. CASE NumCh = 2
      BY <1>0, <3>1, <3>3, RadioCount DEF Antennas
    <3>4. QED
      BY <3>2, <3>3, Sizes
  <2>4. PacketOf(t) \in Packet /\ PacketOf(t).ant \in Antennas
    BY <1>0, <2>2, <2>3, CellOfRadio DEF PacketOf, Packet, TypeOK
  <2>5. Offset(t, (cursor[t] + ch[t]) % Chunk) \in Offsets
    BY <2>1, OffsetSplits
  <2>6. msgQ' \subseteq Event
    BY <1>0, <1>11, <2>2, <2>4, <2>5 DEF Notify, Event, TypeOK, Frames
  <2>7. ring' \in [Threads -> [Index -> Content]]
    BY <1>11, <2>1, <2>4 DEF Notify, TypeOK, Content
  <2>8. cursor' \in [Threads -> Index]
    BY <1>00, <1>11 DEF Notify, TypeOK
  <2>9. TypeOK'
    BY <1>9, <1>11, <2>6, <2>7, <2>8 DEF Notify, TypeOK, mainVars, recVars
  <2>10. \A u \in Threads : cursor'[u] % NumCh = 0
    BY <1>00, <1>11 DEF Notify, TypeOK, ThreadInv
  <2>11. ThreadInv'
    BY <1>9, <1>11, <2>2, <2>10 DEF Notify, TypeOK, ThreadInv
  <2>12. RecorderInv'
    BY <1>11 DEF Notify, RecorderInv, recVars
  <2>13. QED
    BY <1>02, <2>9, <2>11, <2>12
<1>12. QED
  BY <1>1, <1>s, <1>2, <1>3, <1>5, <1>6, <1>7, <1>8, <1>10, <1>11 DEF Receive

\* The steps of the main thread preserve Control.
LEMMA MainControl ==
  ASSUME Control, Main \/ ExitSignal
  PROVE  Control'
<1> USE DEF Control
<1>1. CASE Dequeue
  BY <1>1 DEF Dequeue, TypeOK, ThreadInv, RecorderInv, MainInv, rxVars, bufVars, recVars
<1>2. CASE StopLoop \/ ExitSignal
  BY <1>2 DEF StopLoop, ExitSignal, LeaveLoop, TypeOK, ThreadInv, RecorderInv, MainInv,
     rxVars, bufVars, recVars
<1>3. ASSUME NEW e \in batch, DispatchRead(e) PROVE Control'
  <2>1. readReqs' \subseteq [radio : Radios, frame : Nat]
    BY <1>3 DEF DispatchRead, TypeOK, Event
  <2>2. QED
    BY <1>3, <2>1 DEF DispatchRead, AfterDispatch, TypeOK, ThreadInv, RecorderInv, MainInv,
       rxVars, bufVars, recVars
<1>4. ASSUME NEW e \in batch, DispatchRecord(e) PROVE Control'
  <2>1. e.off \in Offsets
    BY DEF TypeOK, Event
  <2>2. /\ recQ' \in [Recorders -> Seq(Offsets \cup {Terminate})]
        /\ fault' \in {"range", fault}
    <3>1. RecorderOf(e.ant) \in Recorders
      BY AntennaPartition DEF TypeOK, Event
    <3>2. recQ' = [recQ EXCEPT ![RecorderOf(e.ant)] = Append(@, e.off)] /\ fault' = fault
      BY <1>4, <3>1 DEF DispatchRecord
    <3>3. QED
      BY <2>1, <3>1, <3>2 DEF TypeOK
  <2>3. QED
    BY <1>4, <2>2 DEF DispatchRecord, AfterDispatch, TypeOK, ThreadInv, RecorderInv, MainInv,
       rxVars, bufVars, recVars
<1>5. CASE JoinReceivers
  BY <1>5 DEF JoinReceivers, TypeOK, ThreadInv, RecorderInv, MainInv, rxVars, bufVars, recVars
<1>6. nextRec \in Recorders /\ 0 \in Recorders
      /\ (nextRec + 1 # NumRecorders => nextRec + 1 \in Recorders)
  BY Sizes DEF TypeOK, Recorders
<1>7. SendTerminate =>
        recQ' \in [Recorders -> Seq(Offsets \cup {Terminate})]
  BY <1>6 DEF SendTerminate, TypeOK
<1>8. CASE StopRecorder
  BY <1>6, <1>7, <1>8 DEF StopRecorder, NextRecorder, TypeOK, ThreadInv, RecorderInv, MainInv,
     rxVars, bufVars, recVars
<1>9. CASE FinalizeRecorder
  BY <1>7, <1>9 DEF FinalizeRecorder, TypeOK, ThreadInv, RecorderInv, MainInv,
     rxVars, bufVars, recVars
<1>10. CASE JoinRecorder
  BY <1>6, <1>10 DEF JoinRecorder, NextRecorder, TypeOK, ThreadInv, RecorderInv, MainInv,
     rxVars, bufVars, recVars
<1>11. QED
  BY <1>1, <1>2, <1>3, <1>4, <1>5, <1>8, <1>9, <1>10 DEF Main

\* The steps of a recorder preserve Control.
LEMMA RecorderControl ==
  ASSUME Control, NEW r \in Recorders, Recorder(r)
  PROVE  Control'
<1> USE DEF Control
<1>0. MainInv'
  BY DEF Recorder, Take, Record, Release, mainVars, MainInv
<1>1. CASE Take(r)
  <2>1. Head(recQ[r]) \in Offsets \cup {Terminate} /\ Tail(recQ[r]) \in Seq(Offsets \cup {Terminate})
    BY <1>1 DEF Take, TypeOK
  <2>2. Nothing \notin Offsets
    BY Sizes DEF Nothing, Offsets
  <2>3. TypeOK'
    BY <1>1, <2>1 DEF Take, TypeOK, rxVars, bufVars, mainVars
  <2>4. ThreadInv'
    BY <1>1 DEF Take, ThreadInv, rxVars
  <2>5. RecorderInv'
    <3>1. CASE Head(recQ[r]) = Terminate
      BY <1>1, <3>1 DEF Take, TypeOK, RecorderInv
    <3>2. CASE Head(recQ[r]) # Terminate
      BY <1>1, <2>1, <2>2, <3>2 DEF Take, TypeOK, RecorderInv
    <3>3. QED
      BY <3>1, <3>2
  <2>6. QED
    BY <1>0, <2>3, <2>4, <2>5
<1>2. cur[r] # Nothing => BufferId(cur[r]) \in Threads /\ BufferOffset(cur[r]) \in Index
  BY OffsetCovers DEF TypeOK
<1>3. CASE Record(r)
  <2>1. InHand(r) \in Content
    BY <1>2, <1>3 DEF Record, InHand, TypeOK, RecorderInv
  <2>2. /\ recorded' \in [Recorders -> SUBSET Content]
        /\ recpc' \in [Recorders -> {"idle", "record", "free", "exited"}]
        /\ fault' \in {"antenna", fault}
    <3>1. \/ /\ recorded' = [recorded EXCEPT ![r] = @ \cup {InHand(r)}]
             /\ recpc' = [recpc EXCEPT ![r] = "free"]
             /\ fault' = fault
          \/ recorded' = recorded /\ recpc' = recpc /\ fault' = "antenna"
      BY <1>3 DEF Record
    <3>2. recorded[r] \cup {InHand(r)} \in SUBSET Content
      BY <2>1 DEF TypeOK
    <3>3. QED
      BY <3>1, <3>2 DEF TypeOK
  <2>3. TypeOK'
    BY <1>3, <2>2 DEF Record, TypeOK, rxVars, bufVars, mainVars
  <2>4. QED
    BY <1>0, <1>3, <2>3 DEF Record, TypeOK, ThreadInv, RecorderInv, MainInv, rxVars
<1>4. CASE Release(r)
  <2>1. TypeOK'
    BY <1>2, <1>4 DEF Release, TypeOK, RecorderInv, rxVars, mainVars
  <2>2. QED
    BY <1>0, <1>4, <2>1 DEF Release, TypeOK, ThreadInv, RecorderInv, MainInv, rxVars
<1>5. QED
  BY <1>1, <1>3, <1>4 DEF Recorder

LEMMA ControlStep == Control /\ [Next]_vars => Control'
<1> SUFFICES ASSUME Control, [Next]_vars PROVE Control'
  OBVIOUS
<1>1. CASE UNCHANGED vars
  BY <1>1 DEF Control, TypeOK, ThreadInv, RecorderInv, MainInv, vars, rxVars, bufVars,
     mainVars, recVars
<1>2. QED
  BY <1>1, ReceiveControl, MainControl, RecorderControl DEF Next, Stutter

\* TypeOK holds of the receive path for every size of the system.
THEOREM TypeCorrect == Spec => []TypeOK
<1>1. Control => TypeOK
  BY DEF Control
<1>2. QED
  BY <1>1, InitControl, ControlStep, PTL DEF Spec
-----------------------------------------------------------------------------
(* Ownership of the packet buffers *)

Own ==
  /\ InUseExact /\ SingleOwner /\ EventMatchesBuffer /\ RoutedToOwner
  /\ OnlyOverrunKills /\ OverrunIsBacklog

\* What every step proof uses of the type invariant: handed offsets are
\* offsets, and Handed is what the main thread and the recorders have.
LEMMA HandedOffsets ==
  ASSUME TypeOK
  PROVE  /\ \A e \in Packets : e.off \in Offsets /\ e.ant \in Antennas /\ e.radio \in Radios
         /\ \A r \in Recorders : Queued(r) \subseteq Offsets
         /\ \A r \in Recorders : cur[r] \in Offsets \cup {Nothing}
         /\ Nothing \notin Offsets /\ Terminate \notin Offsets
         /\ \A o : o \in WithMain <=> \E e \in Packets : e.off = o
         /\ \A o : o \in WithRecorders <=>
              \E r \in Recorders : o \in Queued(r) \/ (o = cur[r] /\ o # Nothing)
         /\ \A o : o \in Handed <=> o \in WithMain \/ o \in WithRecorders
<1>1. \A e \in Packets : e.off \in Offsets /\ e.ant \in Antennas /\ e.radio \in Radios
  BY DEF TypeOK, Packets, Event
<1>2. \A r \in Recorders : Queued(r) \subseteq Offsets
  BY DEF TypeOK, Queued
<1>3. Nothing \notin Offsets /\ Terminate \notin Offsets
  BY Sizes DEF Nothing, Terminate, Offsets
<1>4. \A o : o \in WithRecorders <=>
        \E r \in Recorders : o \in Queued(r) \/ (o = cur[r] /\ o # Nothing)
  BY DEF WithRecorders
<1>5. QED
  BY <1>1, <1>2, <1>3, <1>4 DEF WithMain, Handed, TypeOK

\* The buffers a receive thread holds are in its ring.
LEMMA HeldInRing ==
  ASSUME TypeOK, ThreadInv, NEW t \in Threads
  PROVE  Held(t) \subseteq Index
<1>1. /\ cursor[t] \in Index /\ cursor[t] % NumCh = 0 /\ ch[t] \in 0 .. NumCh - 1
  BY DEF TypeOK, ThreadInv
<1>2. cursor[t] + NumCh <= Chunk
  BY <1>1, ReadFits
<1>3. QED
  BY <1>1, <1>2, Sizes DEF Held, Window, Index

\* Two buffers with the same offset are the same buffer.
LEMMA OffsetInjective ==
  ASSUME NEW t \in Threads, NEW i \in Index, NEW u \in Threads, NEW j \in Index,
         Offset(t, i) = Offset(u, j)
  PROVE  t = u /\ i = j
BY OffsetSplits

\* A step that leaves the buffers, their bits and their owners alone.
LEMMA OwnFrame ==
  ASSUME Own, Alive, Alive',
         \A t \in Threads : Held(t)' = Held(t),
         UNCHANGED <<inuse, ring, cur>>,
         Packets' = Packets,
         \A r \in Recorders : Queued(r)' = Queued(r),
         \A r \in Recorders : NoRepeat(recQ[r])',
         \A e \in msgQ' \cap batch' : ~IsPacket(e)
  PROVE  Own'
<1>1. WithMain' = WithMain
  BY DEF WithMain
<1>2. WithRecorders' = WithRecorders
  BY DEF WithRecorders
<1>3. Handed' = Handed
  BY <1>1, <1>2 DEF Handed
<1>4. InUseExact'
  BY <1>3 DEF Own, InUseExact
<1>5. SingleOwner'
  BY <1>1, <1>2, <1>3 DEF Own, SingleOwner
<1>6. EventMatchesBuffer'
  BY DEF Own, EventMatchesBuffer
<1>7. RoutedToOwner'
  BY DEF Own, RoutedToOwner
<1>8. OnlyOverrunKills' /\ OverrunIsBacklog'
  BY DEF OnlyOverrunKills, OverrunIsBacklog, Alive
<1>9. QED
  BY <1>4, <1>5, <1>6, <1>7, <1>8 DEF Own

LEMMA InitOwn == Init => Own
<1> SUFFICES ASSUME Init PROVE Own
  OBVIOUS
<1>1. /\ Packets = {} /\ WithMain = {}
      /\ \A r \in Recorders : Queued(r) = {} /\ cur[r] = Nothing
      /\ \A t \in Threads : Held(t) = {}
  BY DEF Init, Packets, WithMain, Queued, Held
<1>2. WithRecorders = {} /\ Handed = {}
  BY <1>1 DEF WithRecorders, Handed
<1>3. InUseExact /\ EventMatchesBuffer /\ RoutedToOwner
  BY <1>1, <1>2 DEF Init, InUseExact, EventMatchesBuffer, RoutedToOwner
<1>4. SingleOwner
  BY <1>1, <1>2 DEF Init, SingleOwner, NoRepeat
<1>5. QED
  BY <1>3, <1>4 DEF Init, Own, OnlyOverrunKills, OverrunIsBacklog

\* A step of a receive thread that writes only buffers it holds and keeps
\* every owner: the radio reads.
LEMMA OwnFill ==
  ASSUME Own, Control, Alive, Alive', NEW t \in Threads, Fill(t), Held(t) = Window(t),
         \A u \in Threads : Held(u)' = Held(u),
         UNCHANGED <<inuse, cur, msgQ, batch, recQ>>
  PROVE  Own'
<1>1. UNCHANGED <<Packets, WithMain, WithRecorders, Handed>>
  BY DEF Packets, WithMain, WithRecorders, Queued, Handed
<1>2. /\ \A r \in Recorders : Queued(r)' = Queued(r)
      /\ UNCHANGED <<msgQ, batch, recQ>>
  BY DEF Queued
<1>3. \A o \in Offsets : o \in Handed =>
        ring'[BufferId(o)][BufferOffset(o)] = ring[BufferId(o)][BufferOffset(o)]
  <2>1. SUFFICES ASSUME NEW o \in Offsets, o \in Handed
                 PROVE ring'[BufferId(o)][BufferOffset(o)] = ring[BufferId(o)][BufferOffset(o)]
    OBVIOUS
  <2>2. /\ BufferId(o) \in Threads /\ BufferOffset(o) \in Index
        /\ o = Offset(BufferId(o), BufferOffset(o))
    BY OffsetCovers
  <2>3. BufferId(o) = t => BufferOffset(o) \notin Window(t)
    BY <2>1, <2>2 DEF Own, SingleOwner
  <2>4. QED
    BY <2>2, <2>3 DEF Fill, Control, TypeOK
<1>4. InUseExact'
  BY <1>1 DEF Own, InUseExact
<1>5. SingleOwner'
  BY <1>1, <1>2 DEF Own, SingleOwner, NoRepeat
<1>6. EventMatchesBuffer'
  BY <1>1, <1>3, HandedOffsets DEF Own, EventMatchesBuffer, Control
<1>7. RoutedToOwner'
  <2>1. SUFFICES ASSUME NEW r \in Recorders, NEW o \in Queued(r) \cup ({cur[r]} \ {Nothing})
                 PROVE InRange(r, ring'[BufferId(o)][BufferOffset(o)].ant)
    BY <1>2 DEF RoutedToOwner
  <2>2. o \in Offsets /\ o \in Handed
    BY <2>1, HandedOffsets DEF Control
  <2>3. QED
    BY <2>1, <2>2, <1>3 DEF Own, RoutedToOwner
<1>8. QED
  BY <1>4, <1>5, <1>6, <1>7 DEF Own, OnlyOverrunKills, OverrunIsBacklog, Alive

\* A buffer that a receive thread wants and that is in use has been handed on.
LEMMA OwnReserve ==
  ASSUME Own, Control, Alive, NEW t \in Threads, Reserve(t)
  PROVE  Own'
<1> DEFINE i == cursor[t] + ch[t]
<1>1. /\ cursor[t] \in Index /\ ch[t] \in 0 .. NumCh - 1 /\ cursor[t] + NumCh <= Chunk
      /\ i \in Index /\ pc[t] = "reserve" /\ Held(t) = cursor[t] .. i - 1
  <2>1. /\ cursor[t] \in Index /\ ch[t] \in 0 .. NumCh - 1 /\ pc[t] = "reserve"
        /\ cursor[t] % NumCh = 0
    BY DEF Control, TypeOK, ThreadInv, Reserve
  <2>2. cursor[t] + NumCh <= Chunk
    BY <2>1, ReadFits
  <2>3. i \in Index
    BY <2>1, <2>2, InsideRead
  <2>4. Held(t) = cursor[t] .. i - 1
    <3>1. Held(t) = cursor[t] .. cursor[t] + ch[t] - 1
      BY <2>1 DEF Held, Control, TypeOK
    <3>2. QED
      BY <2>1, <3>1, Sizes DEF Index
  <2>5. QED
    BY <2>1, <2>2, <2>3, <2>4
<1>2. /\ UNCHANGED <<Packets, WithMain, WithRecorders, Handed>>
      /\ \A r \in Recorders : Queued(r)' = Queued(r)
      /\ UNCHANGED <<ring, msgQ, batch, recQ, cur>>
  BY DEF Reserve, Packets, WithMain, WithRecorders, Queued, Handed, mainVars, recVars
<1>3. EventMatchesBuffer' /\ RoutedToOwner'
  BY <1>2 DEF Own, EventMatchesBuffer, RoutedToOwner
<1>4. i \notin Held(t)
  BY <1>1, Sizes DEF Index
<1>5. \A u \in Threads : u # t => Held(u)' = Held(u)
  BY DEF Reserve, Goto, Held, Window, Control, TypeOK
<1>6. CASE inuse[t][i]
  <2>1. fault' = "full" /\ UNCHANGED <<pc, ch, cursor>> /\ inuse' = inuse
    BY <1>1, <1>6 DEF Reserve, Control, TypeOK
  <2>2. \A u \in Threads : Held(u)' = Held(u)
    BY <2>1 DEF Held, Window
  <2>3. Offset(t, i) \in Handed
    BY <1>1, <1>4, <1>6 DEF Own, InUseExact
  <2>4. SingleOwner'
    BY <1>2, <2>2 DEF Own, SingleOwner, NoRepeat
  <2>5. InUseExact' /\ OnlyOverrunKills'
    BY <2>1 DEF InUseExact, Alive, OnlyOverrunKills
  <2>6. OverrunIsBacklog'
    BY <1>1, <1>2, <2>1, <2>3 DEF OverrunIsBacklog
  <2>7. QED
    BY <1>3, <2>4, <2>5, <2>6 DEF Own
<1>7. CASE ~inuse[t][i]
  <2>1. /\ fault' = "none" /\ cursor' = cursor
        /\ inuse' = [inuse EXCEPT ![t][i] = TRUE]
        /\ IF ch[t] + 1 = NumCh
             THEN pc' = [pc EXCEPT ![t] = "receive"] /\ ch' = [ch EXCEPT ![t] = 0]
             ELSE pc' = pc /\ ch' = [ch EXCEPT ![t] = @ + 1]
    BY <1>7 DEF Reserve, Goto, Alive
  <2>2. Held(t)' = Held(t) \cup {i}
    <3>1. CASE ch[t] + 1 = NumCh
      <4>1. Held(t)' = cursor[t] .. cursor[t] + NumCh - 1
        BY <2>1, <3>1 DEF Held, Window, Control, TypeOK
      <4>2. QED
        BY <1>1, <3>1, <4>1, Sizes DEF Index
    <3>2. CASE ch[t] + 1 # NumCh
      <4>1. Held(t)' = cursor[t] .. cursor[t] + (ch[t] + 1) - 1
        BY <1>1, <2>1, <3>2 DEF Held, Control, TypeOK
      <4>2. QED
        BY <1>1, <4>1, Sizes DEF Index
    <3>3. QED
      BY <3>1, <3>2
  <2>3. Offset(t, i) \notin Handed
    BY <1>1, <1>7 DEF Own, InUseExact
  <2>4. InUseExact'
    BY <1>1, <1>2, <1>5, <2>1, <2>2 DEF Own, InUseExact, Control, TypeOK
  <2>5. SingleOwner'
    BY <1>2, <1>5, <2>2, <2>3 DEF Own, SingleOwner, NoRepeat
  <2>6. OnlyOverrunKills' /\ OverrunIsBacklog'
    BY <2>1 DEF OnlyOverrunKills, OverrunIsBacklog
  <2>7. QED
    BY <1>3, <2>4, <2>5, <2>6 DEF Own
<1>8. QED
  BY <1>6, <1>7

\* The buffers of an unrecorded slot leave the thread's hands and are free.
LEMMA OwnFreeUnused ==
  ASSUME Own, Control, Alive, NEW t \in Threads, FreeUnused(t)
  PROVE  Own'
<1> DEFINE i == cursor[t] + ch[t]
<1>1. /\ cursor[t] \in Index /\ ch[t] \in 0 .. NumCh - 1 /\ cursor[t] + NumCh <= Chunk
      /\ i \in Index /\ pc[t] = "free" /\ Held(t) = i .. cursor[t] + NumCh - 1
  BY ReadFits, InsideRead DEF Control, TypeOK, ThreadInv, FreeUnused, Held
<1>2. i \in Held(t)
  BY <1>1, Sizes DEF Index
<1>3. inuse[t][i] /\ Offset(t, i) \notin Handed
  BY <1>1, <1>2 DEF Own, InUseExact, SingleOwner
<1>4. /\ fault' = "none" /\ cursor' = cursor
      /\ inuse' = [inuse EXCEPT ![t][i] = FALSE]
      /\ NextChannel(t)
  BY <1>3 DEF FreeUnused, Alive
<1>5. /\ UNCHANGED <<Packets, WithMain, WithRecorders, Handed>>
      /\ \A r \in Recorders : Queued(r)' = Queued(r)
      /\ UNCHANGED <<ring, msgQ, batch, recQ, cur>>
  BY DEF FreeUnused, Packets, WithMain, WithRecorders, Queued, Handed, mainVars, recVars
<1>6. Held(t)' = Held(t) \ {i}
  <2>1. CASE ch[t] + 1 = NumCh
    <3>1. ch' = [ch EXCEPT ![t] = 0]
          /\ (pc' = [pc EXCEPT ![t] = "reserve"] \/ pc' = [pc EXCEPT ![t] = "top"])
      BY <1>4, <2>1 DEF NextChannel, NextRadio, Goto
    <3>2. Held(t)' = {}
      BY <1>1, <1>4, <3>1 DEF Held, Control, TypeOK, Index
    <3>3. Held(t) = i .. i /\ i \in Nat
      BY <1>1, <2>1, Sizes DEF Index
    <3>4. i .. i = {i}
      BY <3>3
    <3>5. QED
      BY <3>2, <3>3, <3>4
  <2>2. CASE ch[t] + 1 # NumCh
    <3>1. pc' = pc /\ ch' = [ch EXCEPT ![t] = @ + 1]
      BY <1>4, <2>2 DEF NextChannel
    <3>2. Held(t)' = cursor[t] + (ch[t] + 1) .. cursor[t] + NumCh - 1
      BY <1>1, <1>4, <3>1 DEF Held, Control, TypeOK
    <3>3. QED
      BY <1>1, <3>2, Sizes DEF Index
  <2>3. QED
    BY <2>1, <2>2
<1>7. \A u \in Threads : u # t => Held(u)' = Held(u)
  BY <1>4 DEF NextChannel, NextRadio, Goto, Held, Window, Control, TypeOK
<1>8. InUseExact'
  BY <1>1, <1>3, <1>4, <1>5, <1>6, <1>7 DEF Own, InUseExact, Control, TypeOK
<1>9. SingleOwner'
  BY <1>5, <1>6, <1>7 DEF Own, SingleOwner, NoRepeat
<1>10. EventMatchesBuffer' /\ RoutedToOwner'
  BY <1>5 DEF Own, EventMatchesBuffer, RoutedToOwner
<1>11. OnlyOverrunKills' /\ OverrunIsBacklog'
  BY <1>4 DEF OnlyOverrunKills, OverrunIsBacklog
<1>12. QED
  BY <1>8, <1>9, <1>10, <1>11 DEF Own
\* A packet goes from the receive thread to the message queue.
LEMMA OwnNotify ==
  ASSUME Own, Control, Alive, NEW t \in Threads, Notify(t)
  PROVE  Own'
<1> DEFINE i == cursor[t] + ch[t]
           o == Offset(t, i)
           p == PacketOf(t)
           e == [radio |-> radio[t], frame |-> frame[t], slot |-> slot[t],
                 ant |-> p.ant, off |-> o]
<1>1. /\ cursor[t] \in Index /\ ch[t] \in 0 .. NumCh - 1 /\ cursor[t] + NumCh <= Chunk
      /\ pc[t] = "notify" /\ slot[t] \in RxSlots[radio[t]]
      /\ radio[t] \in RadioStart(t) .. RadioEnd(t) - 1
  BY ReadFits DEF Control, TypeOK, ThreadInv, Notify
<1>2. /\ i \in Index /\ i % Chunk = i
  BY <1>1, InsideRead
<1>3. Held(t) = i .. cursor[t] + NumCh - 1
  BY <1>1 DEF Held
<1>4. i \in Held(t)
  BY <1>1, <1>3, Sizes DEF Index
<1>5. inuse[t][i] /\ o \notin Handed /\ o \in Offsets
  BY <1>2, <1>4, OffsetSplits DEF Own, InUseExact, SingleOwner
<1>6. slot[t] # 0
  <2>1. radio[t] \in Radios
    BY <1>1, OwnRadios
  <2>2. QED
    BY <1>1, <2>1, ScheduleAssumption
<1>7. /\ fault' = "none" /\ inuse' = inuse
      /\ ring' = [ring EXCEPT ![t][i] = p]
      /\ msgQ' = msgQ \cup {e}
      /\ UNCHANGED <<batch, recQ, cur>>
      /\ NextChannel(t)
  BY <1>2 DEF Notify, Alive, mainVars, recVars
<1>8. /\ Packets' = Packets \cup {e}
      /\ WithMain' = WithMain \cup {o}
      /\ WithRecorders' = WithRecorders
      /\ Handed' = Handed \cup {o}
      /\ \A r \in Recorders : Queued(r)' = Queued(r)
  <2>1. IsPacket(e)
    BY <1>6 DEF IsPacket
  <2>2. Packets' = Packets \cup {e}
    BY <1>7, <2>1 DEF Packets
  <2>3. WithMain' = WithMain \cup {o}
    <3>1. e.off = o
      OBVIOUS
    <3>2. WithMain' = {f.off : f \in Packets'}
      BY DEF WithMain
    <3>3. QED
      BY <2>2, <3>1, <3>2, Zenon DEF WithMain
  <2>4. \A r \in Recorders : Queued(r)' = Queued(r)
    BY <1>7 DEF Queued
  <2>5. WithRecorders' = WithRecorders
    BY <1>7, <2>4 DEF WithRecorders
  <2>6. QED
    BY <2>2, <2>3, <2>4, <2>5 DEF Handed
<1>9. Held(t)' = Held(t) \ {i}
  <2>1. CASE ch[t] + 1 = NumCh
    <3>1. pc' = [pc EXCEPT ![t] = "reserve"] \/ pc' = [pc EXCEPT ![t] = "top"]
      BY <1>7, <2>1 DEF NextChannel, NextRadio, Goto
    <3>2. ch' = [ch EXCEPT ![t] = 0]
      BY <1>7, <2>1 DEF NextChannel
    <3>3. cursor'[t] \in Nat
      BY <1>1, <2>1, ReadFits DEF Notify, Control, TypeOK, ThreadInv, Index
    <3>4. Held(t)' = {}
      BY <3>1, <3>2, <3>3 DEF Held, Control, TypeOK
    <3>5. Held(t) = i .. i /\ i \in Nat
      BY <1>1, <1>3, <2>1, Sizes DEF Index
    <3>6. i .. i = {i}
      BY <3>5
    <3>7. QED
      BY <3>4, <3>5, <3>6
  <2>2. CASE ch[t] + 1 # NumCh
    <3>1. pc' = pc /\ ch' = [ch EXCEPT ![t] = @ + 1] /\ cursor' = cursor
      BY <1>7, <2>2 DEF NextChannel, Notify
    <3>2. Held(t)' = cursor[t] + (ch[t] + 1) .. cursor[t] + NumCh - 1
      <4>1. pc'[t] = pc[t] /\ ch'[t] = ch[t] + 1 /\ cursor'[t] = cursor[t]
        BY <3>1 DEF Control, TypeOK
      <4>2. QED
        BY <1>1, <4>1 DEF Held
    <3> DEFINE m == cursor[t] + NumCh - 1
    <3>3. i \in Nat /\ cursor[t] + (ch[t] + 1) = i + 1 /\ m \in Int
      BY <1>1, <1>3, Sizes DEF Index
    <3>4. Held(t) = i .. m /\ Held(t)' = i + 1 .. m
      BY <1>1, <1>3, <3>2, <3>3
    <3> HIDE DEF i, m
    <3>5. i + 1 .. m = (i .. m) \ {i}
      BY <3>3
    <3>6. QED
      BY <3>4, <3>5
  <2>3. QED
    BY <2>1, <2>2
<1>10. \A u \in Threads : u # t => Held(u)' = Held(u)
  BY DEF Notify, NextChannel, NextRadio, Goto, Held, Window, Control, TypeOK
<1>11. InUseExact'
  <2>1. \A u \in Threads, j \in Index : Offset(u, j) = o => u = t /\ j = i
    BY <1>2, OffsetInjective
  <2>2. QED
    BY <1>2, <1>5, <1>7, <1>8, <1>9, <1>10, <2>1 DEF Own, InUseExact
<1>12. SingleOwner'
  <2>1. \A u \in Threads : \A j \in Held(u)' : Offset(u, j) \notin Handed'
    <3>1. \A u \in Threads : \A j \in Held(u) : Offset(u, j) = o => u = t /\ j = i
      BY <1>2, OffsetInjective, HeldInRing DEF Control
    <3>2. QED
      BY <1>8, <1>9, <1>10, <3>1 DEF Own, SingleOwner
  <2>2. e.off = o /\ \A f \in Packets : f.off # o
    BY <1>5 DEF Handed, WithMain
  <2>3. \A f \in msgQ' \cap batch' : ~IsPacket(f)
    BY <1>7, <2>2 DEF Own, SingleOwner, Packets
  <2>4. \A f, g \in Packets' : f.off = g.off => f = g
    BY <1>8, <2>2 DEF Own, SingleOwner
  <2>5. WithMain' \cap WithRecorders' = {}
    BY <1>5, <1>8 DEF Own, SingleOwner, Handed
  <2>6. QED
    BY <1>7, <1>8, <2>1, <2>3, <2>4, <2>5 DEF Own, SingleOwner, NoRepeat
<1>13. \A q \in Handed : ring'[BufferId(q)][BufferOffset(q)] = ring[BufferId(q)][BufferOffset(q)]
  <2>1. SUFFICES ASSUME NEW q \in Handed
                 PROVE ring'[BufferId(q)][BufferOffset(q)] = ring[BufferId(q)][BufferOffset(q)]
    OBVIOUS
  <2>2. q \in Offsets
    BY HandedOffsets DEF Control
  <2>3. /\ BufferId(q) \in Threads /\ BufferOffset(q) \in Index
        /\ q = Offset(BufferId(q), BufferOffset(q))
    BY <2>2, OffsetCovers
  <2>4. ~(BufferId(q) = t /\ BufferOffset(q) = i)
    BY <1>5, <2>3
  <2>5. QED
    BY <1>7, <2>3, <2>4 DEF Control, TypeOK
<1>14. EventMatchesBuffer'
  <2>1. BufferId(e.off) = t /\ BufferOffset(e.off) = i
    BY <1>2, OffsetSplits
  <2>2. ring'[t][i] = p
    BY <1>2, <1>7 DEF Control, TypeOK
  <2>3. p = [frame |-> e.frame, slot |-> e.slot, cell |-> CellOf(e.radio), ant |-> e.ant]
    BY DEF PacketOf
  <2>4. \A f \in Packets : f.off \in Handed
    BY DEF Handed, WithMain
  <2>5. QED
    BY <1>8, <1>13, <2>1, <2>2, <2>3, <2>4 DEF Own, EventMatchesBuffer
<1>15. RoutedToOwner'
  <2>1. \A r \in Recorders : Queued(r) \cup ({cur[r]} \ {Nothing}) \subseteq Handed
    BY HandedOffsets DEF Control
  <2>2. QED
    BY <1>7, <1>8, <1>13, <2>1 DEF Own, RoutedToOwner
<1>16. OnlyOverrunKills' /\ OverrunIsBacklog'
  BY <1>7 DEF OnlyOverrunKills, OverrunIsBacklog
<1>17. QED
  BY <1>11, <1>12, <1>14, <1>15, <1>16 DEF Own

LEMMA ReceiveOwn ==
  ASSUME Own, Control, Alive, NEW t \in Threads, Receive(t)
  PROVE  Own'
<1>1. CASE SyncRead(t) \/ Leave(t) \/ BeginSlot(t) \/ ReadError(t)
  <2>1. /\ Alive' /\ UNCHANGED <<inuse, ring, cur, msgQ, batch, recQ, cursor>>
        /\ Packets' = Packets /\ \A r \in Recorders : Queued(r)' = Queued(r)
    BY <1>1 DEF SyncRead, Leave, BeginSlot, ReadError, Alive, bufVars, mainVars, recVars,
       Packets, Queued
  <2>2. \A u \in Threads : Held(u)' = Held(u)
    <3>1. CASE Leave(t)
      BY <3>1 DEF Leave, Goto, Held, Window, Control, TypeOK
    <3>2. CASE BeginSlot(t)
      <4>1. pc[t] = "top" /\ pc' = [pc EXCEPT ![t] = "reserve"] /\ ch' = [ch EXCEPT ![t] = 0]
            /\ cursor' = cursor
        BY <3>2 DEF BeginSlot, Goto
      <4>2. Held(t) = {} /\ Held(t)' = {}
        BY <4>1 DEF Held, Control, TypeOK, Index
      <4>3. \A u \in Threads : u # t => Held(u)' = Held(u)
        BY <4>1 DEF Held, Window, Control, TypeOK
      <4>4. QED
        BY <4>2, <4>3
    <3>3. CASE ReadError(t)
      BY <3>3 DEF ReadError, Goto, Held, Window, Control, TypeOK
    <3>4. CASE SyncRead(t)
      <4>1. pc[t] = "sync" /\ pc'[t] \in {"sync", "top"} /\ UNCHANGED <<ch, cursor>>
            /\ \A u \in Threads : u # t => pc'[u] = pc[u]
        BY <3>4 DEF SyncRead, Goto, Control, TypeOK
      <4>2. QED
        BY <4>1 DEF Held, Window
    <3>5. QED
      BY <1>1, <3>1, <3>2, <3>3, <3>4
  <2>3. QED
    BY <2>1, <2>2, OwnFrame DEF Own, SingleOwner, NoRepeat
<1>2. CASE Reserve(t)
  BY <1>2, OwnReserve
<1>3. CASE SwRead(t) \/ HwRead(t)
  <2>1. /\ Alive' /\ UNCHANGED <<inuse, cur, msgQ, batch, recQ, cursor, ch>>
        /\ Packets' = Packets /\ \A r \in Recorders : Queued(r)' = Queued(r)
    BY <1>3 DEF SwRead, HwRead, Alive, mainVars, recVars, Packets, Queued
  <2>2. /\ pc[t] = "receive"
        /\ \E l \in {"request", "notify", "free"} : pc' = [pc EXCEPT ![t] = l]
    BY <1>3 DEF SwRead, HwRead, AfterRead, Goto
  <2>3. Held(t) = Window(t) /\ \A u \in Threads : Held(u)' = Held(u)
    <3>1. ch[t] = 0 /\ cursor[t] \in Nat
      BY <2>2 DEF Control, ThreadInv, TypeOK, Index
    <3>2. QED
      BY <2>1, <2>2, <3>1 DEF Held, Window, Control, TypeOK
  <2>4. CASE Fill(t)
    BY <2>1, <2>3, <2>4, OwnFill
  <2>5. CASE UNCHANGED ring
    BY <2>1, <2>3, <2>5, OwnFrame DEF Own, SingleOwner, NoRepeat
  <2>6. QED
    BY <1>3, <2>4, <2>5 DEF SwRead, HwRead
<1>4. CASE RequestFrame(t)
  <2>1. /\ Alive' /\ UNCHANGED <<inuse, ring, cur, batch, recQ, cursor, ch>>
        /\ \A r \in Recorders : Queued(r)' = Queued(r)
    BY <1>4 DEF RequestFrame, Alive, bufVars, mainVars, recVars, Queued
  <2>2. \E e : msgQ' = msgQ \cup {e} /\ ~IsPacket(e)
    <3> DEFINE e == [radio |-> radio[t], frame |-> frame[t] + TxFrameDelta, slot |-> 0,
                     ant |-> LocalId(radio[t]), off |-> 0]
    <3>1. msgQ' = msgQ \cup {e}
      BY <1>4 DEF RequestFrame
    <3>2. ~IsPacket(e)
      BY DEF IsPacket
    <3> HIDE DEF e
    <3>3. QED
      BY <3>1, <3>2
  <2>3. Packets' = Packets /\ \A e \in msgQ' \cap batch' : ~IsPacket(e)
    BY <2>1, <2>2 DEF Packets, Own, SingleOwner
  <2>4. \A u \in Threads : Held(u)' = Held(u)
    <3>1. pc[t] = "request" /\ ch[t] = 0 /\ cursor[t] \in Nat
      BY <1>4 DEF RequestFrame, Control, ThreadInv, TypeOK, Index
    <3>2. \E l \in {"notify", "free"} : pc' = [pc EXCEPT ![t] = l]
      <4>1. CASE slot[t] \in RxSlots[radio[t]]
        <5>1. pc' = [pc EXCEPT ![t] = "notify"]
          BY <1>4, <4>1 DEF RequestFrame, Goto
        <5>2. QED
          BY <5>1
      <4>2. CASE slot[t] \notin RxSlots[radio[t]]
        <5>1. pc' = [pc EXCEPT ![t] = "free"]
          BY <1>4, <4>2 DEF RequestFrame, Goto
        <5>2. QED
          BY <5>1
      <4>3. QED
        BY <4>1, <4>2
    <3>3. QED
      BY <2>1, <3>1, <3>2 DEF Held, Window, Control, TypeOK
  <2>5. QED
    BY <2>1, <2>3, <2>4, OwnFrame DEF Own, SingleOwner, NoRepeat
<1>5. CASE FreeUnused(t)
  BY <1>5, OwnFreeUnused
<1>6. CASE Notify(t)
  BY <1>6, OwnNotify
<1>7. QED
  BY <1>1, <1>2, <1>3, <1>4, <1>5, <1>6 DEF Receive

\* Appending to a queue and taking its head, as sets of what is queued.
LEMMA QueueAppend ==
  ASSUME NEW q \in Seq(Offsets \cup {Terminate}), NEW x \in Offsets \cup {Terminate}
  PROVE  /\ {Append(q, x)[k] : k \in DOMAIN Append(q, x)} = {q[k] : k \in DOMAIN q} \cup {x}
         /\ NoRepeat(q) /\ (x = Terminate \/ x \notin {q[k] : k \in DOMAIN q})
              => NoRepeat(Append(q, x))
<1>1. /\ Len(q) \in Nat /\ DOMAIN q = 1 .. Len(q)
      /\ DOMAIN Append(q, x) = 1 .. Len(q) + 1
      /\ \A k \in 1 .. Len(q) : Append(q, x)[k] = q[k]
      /\ Append(q, x)[Len(q) + 1] = x
  OBVIOUS
<1>2. \A y : y \in {Append(q, x)[k] : k \in DOMAIN Append(q, x)}
               <=> y \in {q[k] : k \in DOMAIN q} \cup {x}
  BY <1>1
<1>3. ASSUME NoRepeat(q), x = Terminate \/ x \notin {q[k] : k \in DOMAIN q}
      PROVE  NoRepeat(Append(q, x))
  <2>1. SUFFICES ASSUME NEW j \in 1 .. Len(q) + 1, NEW k \in 1 .. Len(q) + 1,
                        Append(q, x)[j] = Append(q, x)[k], Append(q, x)[j] # Terminate
                 PROVE  j = k
    BY <1>1 DEF NoRepeat
  <2>2. CASE j \in 1 .. Len(q) /\ k \in 1 .. Len(q)
    BY <1>1, <1>3, <2>1, <2>2 DEF NoRepeat
  <2>3. CASE j = Len(q) + 1 \/ k = Len(q) + 1
    BY <1>1, <1>3, <2>1, <2>3
  <2>4. QED
    BY <1>1, <2>2, <2>3
<1>4. QED
  BY <1>2, <1>3

LEMMA QueueTail ==
  ASSUME NEW q \in Seq(Offsets \cup {Terminate}), q # <<>>
  PROVE  /\ Head(q) \in Offsets \cup {Terminate}
         /\ Tail(q) \in Seq(Offsets \cup {Terminate})
         /\ NoRepeat(q) => NoRepeat(Tail(q))
         /\ NoRepeat(q) =>
              {Tail(q)[k] : k \in DOMAIN Tail(q)} \ {Terminate}
                = ({q[k] : k \in DOMAIN q} \ {Terminate}) \ {Head(q)}
         /\ Head(q) \in {q[k] : k \in DOMAIN q}
<1>1. /\ Len(q) \in Nat \ {0} /\ DOMAIN q = 1 .. Len(q) /\ Head(q) = q[1]
      /\ Tail(q) \in Seq(Offsets \cup {Terminate})
      /\ DOMAIN Tail(q) = 1 .. Len(q) - 1
      /\ \A k \in 1 .. Len(q) - 1 : Tail(q)[k] = q[k + 1]
  OBVIOUS
<1>2. ASSUME NoRepeat(q) PROVE NoRepeat(Tail(q))
  BY <1>1, <1>2 DEF NoRepeat
<1>3. ASSUME NoRepeat(q)
      PROVE  {Tail(q)[k] : k \in DOMAIN Tail(q)} \ {Terminate}
               = ({q[k] : k \in DOMAIN q} \ {Terminate}) \ {Head(q)}
  <2>1. ASSUME NEW k \in 1 .. Len(q) - 1, Tail(q)[k] # Terminate
        PROVE  Tail(q)[k] \in {q[j] : j \in DOMAIN q} /\ Tail(q)[k] # Head(q)
    BY <1>1, <1>3, <2>1 DEF NoRepeat
  <2>2. ASSUME NEW j \in 1 .. Len(q), q[j] # Terminate, q[j] # Head(q)
        PROVE  q[j] \in {Tail(q)[k] : k \in DOMAIN Tail(q)}
    <3>1. j - 1 \in 1 .. Len(q) - 1 /\ Tail(q)[j - 1] = q[j]
      BY <1>1, <2>2
    <3>2. QED
      BY <1>1, <3>1
  <2>3. \A x : x \in {Tail(q)[k] : k \in DOMAIN Tail(q)} \ {Terminate}
                 <=> x \in ({q[k] : k \in DOMAIN q} \ {Terminate}) \ {Head(q)}
    BY <1>1, <2>1, <2>2
  <2>4. QED
    BY <2>3
<1>4. Head(q) \in {q[k] : k \in DOMAIN q} /\ Head(q) \in Offsets \cup {Terminate}
  BY <1>1
<1>5. Tail(q) \in Seq(Offsets \cup {Terminate})
  BY <1>1
<1>6. QED
  BY <1>2, <1>3, <1>4, <1>5, Zenon

\* The main thread hands the packet of an event to the recorder of its antenna.
LEMMA OwnDispatch ==
  ASSUME Own, Control, Alive, NEW e \in batch, DispatchRecord(e)
  PROVE  Own'
<1> DEFINE r == RecorderOf(e.ant)
           o == e.off
<1>1. /\ e \in Packets /\ e \in Event /\ o \in Offsets /\ e.ant \in Antennas
      /\ o \in WithMain
  BY DEF DispatchRecord, Packets, WithMain, Control, TypeOK, Event
<1>2. r \in Recorders /\ InRange(r, e.ant)
  BY <1>1, AntennaPartition
<1>3. /\ fault' = "none" /\ recQ' = [recQ EXCEPT ![r] = Append(@, o)]
      /\ batch' = batch \ {e} /\ msgQ' = msgQ
      /\ UNCHANGED <<inuse, ring, cur, rxVars>>
  BY <1>2 DEF DispatchRecord, AfterDispatch, Alive, bufVars, recVars
<1>4. \A t \in Threads : Held(t)' = Held(t)
  BY <1>3 DEF rxVars, Held, Window
<1>5. o \in Handed /\ o \notin WithRecorders
  BY <1>1 DEF Own, SingleOwner, Handed
<1>6. \A s \in Recorders : o \notin Queued(s) /\ o # cur[s]
  BY <1>1, <1>5, HandedOffsets DEF Control
<1>7. o # Terminate /\ o # Nothing
  BY <1>1, HandedOffsets DEF Control
<1>8. /\ recQ[r] \in Seq(Offsets \cup {Terminate}) /\ recQ'[r] = Append(recQ[r], o)
      /\ \A s \in Recorders : s # r => recQ'[s] = recQ[s]
  BY <1>2, <1>3 DEF Control, TypeOK
<1>9. /\ Queued(r)' = Queued(r) \cup {o} /\ NoRepeat(recQ'[r])
      /\ \A s \in Recorders : s # r => Queued(s)' = Queued(s) /\ NoRepeat(recQ'[s])
  <2>1. o \notin {recQ[r][k] : k \in DOMAIN recQ[r]}
    BY <1>2, <1>6, <1>7 DEF Queued
  <2>2. NoRepeat(recQ'[r])
    BY <1>1, <1>2, <1>8, <2>1, QueueAppend DEF Own, SingleOwner
  <2>3. Queued(r)' = Queued(r) \cup {o}
    BY <1>1, <1>7, <1>8, QueueAppend DEF Queued
  <2>4. \A s \in Recorders : s # r => Queued(s)' = Queued(s)
    BY <1>8 DEF Queued
  <2>5. \A s \in Recorders : s # r => NoRepeat(recQ'[s])
    BY <1>8 DEF Own, SingleOwner
  <2>6. QED
    BY <2>2, <2>3, <2>4, <2>5
<1>10. Packets' = Packets \ {e}
  BY <1>1, <1>3 DEF Own, SingleOwner, Packets
<1>11. WithMain' = WithMain \ {o}
  <2>1. \A f \in Packets : f.off = o => f = e
    BY <1>1 DEF Own, SingleOwner
  <2>2. QED
    BY <1>1, <1>10, <2>1 DEF WithMain
<1>12. WithRecorders' = WithRecorders \cup {o}
  BY <1>2, <1>3, <1>7, <1>9 DEF WithRecorders
<1>13. Handed' = Handed
  BY <1>1, <1>11, <1>12 DEF Handed
<1>14. InUseExact'
  BY <1>3, <1>4, <1>13 DEF Own, InUseExact
<1>15. SingleOwner'
  <2>1. \A t \in Threads : \A i \in Held(t)' : Offset(t, i) \notin Handed'
    BY <1>4, <1>13 DEF Own, SingleOwner
  <2>2. \A f \in msgQ' \cap batch' : ~IsPacket(f)
    BY <1>3 DEF Own, SingleOwner
  <2>3. \A f, g \in Packets' : f.off = g.off => f = g
    BY <1>10 DEF Own, SingleOwner
  <2>4. WithMain' \cap WithRecorders' = {}
    BY <1>11, <1>12 DEF Own, SingleOwner
  <2>5. \A s \in Recorders : NoRepeat(recQ'[s])
    BY <1>9
  <2>6. \A s \in Recorders : cur'[s] \notin Queued(s)'
    BY <1>3, <1>6, <1>9 DEF Own, SingleOwner
  <2>7. \A s, u \in Recorders : s # u =>
          (Queued(s)' \cup {cur'[s]}) \cap (Queued(u)' \cup {cur'[u]}) \subseteq {Nothing}
    BY <1>3, <1>6, <1>9 DEF Own, SingleOwner
  <2>8. QED
    BY <2>1, <2>2, <2>3, <2>4, <2>5, <2>6, <2>7 DEF SingleOwner
<1>16. EventMatchesBuffer'
  BY <1>3, <1>10 DEF Own, EventMatchesBuffer
<1>17. RoutedToOwner'
  <2>1. ring[BufferId(o)][BufferOffset(o)].ant = e.ant
    <3>1. ring[BufferId(e.off)][BufferOffset(e.off)] =
            [frame |-> e.frame, slot |-> e.slot, cell |-> CellOf(e.radio), ant |-> e.ant]
      BY <1>1, Zenon DEF Own, EventMatchesBuffer
    <3>2. QED
      BY <3>1
  <2>2. SUFFICES ASSUME NEW s \in Recorders, NEW q \in Queued(s)' \cup ({cur'[s]} \ {Nothing})
                 PROVE InRange(s, ring[BufferId(q)][BufferOffset(q)].ant)
    BY <1>3 DEF RoutedToOwner
  <2>3. (s = r /\ q = o) \/ q \in Queued(s) \cup ({cur[s]} \ {Nothing})
    BY <1>3, <1>9, <2>2
  <2>4. QED
    BY <1>2, <2>1, <2>3 DEF Own, RoutedToOwner
<1>18. OnlyOverrunKills' /\ OverrunIsBacklog'
  BY <1>3 DEF OnlyOverrunKills, OverrunIsBacklog
<1>19. QED
  BY <1>14, <1>15, <1>16, <1>17, <1>18 DEF Own

LEMMA MainOwn ==
  ASSUME Own, Control, Alive, Main \/ ExitSignal
  PROVE  Own'
<1>1. CASE Dequeue
  <2>1. batch = {}
    BY <1>1 DEF Dequeue, Control, MainInv
  <2>2. PICK b \in SUBSET msgQ : batch' = b /\ msgQ' = msgQ \ b
    BY <1>1 DEF Dequeue
  <2>3. /\ Packets' = Packets /\ msgQ' \cap batch' = {}
    BY <2>1, <2>2 DEF Packets
  <2>4. /\ Alive' /\ UNCHANGED <<inuse, ring, cur, recQ, rxVars>>
        /\ \A r \in Recorders : Queued(r)' = Queued(r)
    BY <1>1 DEF Dequeue, Alive, bufVars, recVars, Queued
  <2>5. \A t \in Threads : Held(t)' = Held(t)
    BY <2>4 DEF rxVars, Held, Window
  <2>6. QED
    BY <2>3, <2>4, <2>5, OwnFrame DEF Own, SingleOwner, NoRepeat
<1>2. CASE StopLoop \/ ExitSignal \/ JoinReceivers \/ JoinRecorder
  <2>1. /\ Alive' /\ UNCHANGED <<inuse, ring, cur, recQ, rxVars, msgQ, batch>>
        /\ Packets' = Packets /\ \A r \in Recorders : Queued(r)' = Queued(r)
    BY <1>2 DEF StopLoop, ExitSignal, LeaveLoop, JoinReceivers, JoinRecorder, Alive,
       bufVars, recVars, Queued, Packets
  <2>2. \A t \in Threads : Held(t)' = Held(t)
    BY <2>1 DEF rxVars, Held, Window
  <2>3. QED
    BY <2>1, <2>2, OwnFrame DEF Own, SingleOwner, NoRepeat
<1>3. ASSUME NEW e \in batch, DispatchRead(e) PROVE Own'
  <2>1. /\ Alive' /\ UNCHANGED <<inuse, ring, cur, recQ, rxVars, msgQ>>
        /\ batch' = batch \ {e} /\ ~IsPacket(e)
        /\ \A r \in Recorders : Queued(r)' = Queued(r)
    BY <1>3 DEF DispatchRead, AfterDispatch, Alive, bufVars, recVars, Queued
  <2>2. Packets' = Packets /\ \A f \in msgQ' \cap batch' : ~IsPacket(f)
    BY <2>1 DEF Packets, Own, SingleOwner
  <2>3. \A t \in Threads : Held(t)' = Held(t)
    BY <2>1 DEF rxVars, Held, Window
  <2>4. QED
    BY <2>1, <2>2, <2>3, OwnFrame DEF Own, SingleOwner, NoRepeat
<1>4. CASE StopRecorder \/ FinalizeRecorder
  <2>1. /\ Alive' /\ UNCHANGED <<inuse, ring, cur, rxVars, msgQ, batch>>
        /\ recQ' = [recQ EXCEPT ![nextRec] = Append(@, Terminate)]
        /\ Packets' = Packets
    BY <1>4 DEF StopRecorder, FinalizeRecorder, SendTerminate, Alive, bufVars, recVars,
       Packets
  <2>2. \A r \in Recorders :
          recQ'[r] = recQ[r] \/ recQ'[r] = Append(recQ[r], Terminate)
    BY <2>1 DEF Control, TypeOK
  <2>3. \A r \in Recorders : recQ[r] \in Seq(Offsets \cup {Terminate}) /\ NoRepeat(recQ[r])
    BY DEF Control, TypeOK, Own, SingleOwner
  <2>4. ASSUME NEW r \in Recorders
        PROVE  NoRepeat(recQ'[r]) /\ Queued(r)' = Queued(r)
    <3> DEFINE q == recQ[r]
               a == Append(q, Terminate)
    <3>1. q \in Seq(Offsets \cup {Terminate}) /\ NoRepeat(q)
      BY <2>3
    <3>2. recQ'[r] = q \/ recQ'[r] = a
      BY <2>2
    <3> HIDE DEF q
    <3>3. NoRepeat(a) /\ {a[k] : k \in DOMAIN a} = {q[k] : k \in DOMAIN q} \cup {Terminate}
      BY <3>1, QueueAppend
    <3> HIDE DEF a
    <3>4. {recQ'[r][k] : k \in DOMAIN recQ'[r]} \ {Terminate} =
          {q[k] : k \in DOMAIN q} \ {Terminate}
      BY <3>2, <3>3
    <3>5. Queued(r)' = Queued(r)
      BY <3>4 DEF Queued, q
    <3>6. QED
      BY <3>1, <3>2, <3>3, <3>5
  <2>5. \A r \in Recorders : Queued(r)' = Queued(r)
    BY <2>4
  <2>6. \A t \in Threads : Held(t)' = Held(t)
    BY <2>1 DEF rxVars, Held, Window
  <2>7. \A r \in Recorders : NoRepeat(recQ[r])'
    BY <2>4 DEF NoRepeat
  <2>8. \A e \in msgQ' \cap batch' : ~IsPacket(e)
    BY <2>1 DEF Own, SingleOwner
  <2>9. QED
    BY <2>1, <2>5, <2>6, <2>7, <2>8, OwnFrame
<1>5. QED
  BY <1>1, <1>2, <1>3, <1>4, OwnDispatch DEF Main

\* A recorder takes, records and releases a buffer.
LEMMA RecorderOwn ==
  ASSUME Own, Control, Alive, NEW r \in Recorders, Recorder(r)
  PROVE  Own'
<1> DEFINE h == Head(recQ[r])
<1>1. /\ recQ[r] \in Seq(Offsets \cup {Terminate}) /\ NoRepeat(recQ[r])
      /\ recpc[r] \in {"record", "free"} <=> cur[r] # Nothing
  BY DEF Control, TypeOK, Own, SingleOwner, RecorderInv
<1>2. CASE Take(r)
  <2>1. /\ recQ[r] # <<>> /\ recQ' = [recQ EXCEPT ![r] = Tail(@)]
        /\ Alive' /\ UNCHANGED <<inuse, ring, rxVars, msgQ, batch>>
        /\ Packets' = Packets /\ cur[r] = Nothing
    BY <1>1, <1>2 DEF Take, Alive, bufVars, mainVars, Packets
  <2>2. /\ recQ'[r] = Tail(recQ[r])
        /\ \A s \in Recorders : s # r => recQ'[s] = recQ[s]
    BY <2>1 DEF Control, TypeOK
  <2>3. /\ Queued(r)' = Queued(r) \ {h} /\ NoRepeat(recQ'[r])
        /\ h \in Queued(r) \cup {Terminate}
    <3>1. NoRepeat(recQ'[r])
      BY <1>1, <2>1, <2>2, QueueTail
    <3>2. {recQ'[r][k] : k \in DOMAIN recQ'[r]} \ {Terminate} = Queued(r) \ {h}
      <4>1. {Tail(recQ[r])[k] : k \in DOMAIN Tail(recQ[r])} \ {Terminate}
              = ({recQ[r][k] : k \in DOMAIN recQ[r]} \ {Terminate}) \ {Head(recQ[r])}
        BY <1>1, <2>1, QueueTail
      <4>2. QED
        BY <2>2, <4>1, Zenon DEF Queued
    <3>3. h \in Queued(r) \cup {Terminate}
      BY <1>1, <2>1, QueueTail DEF Queued
    <3>4. QED
      BY <3>1, <3>2, <3>3 DEF Queued
  <2>4. \A s \in Recorders : s # r => Queued(s)' = Queued(s) /\ NoRepeat(recQ'[s])
    BY <2>2 DEF Queued, Own, SingleOwner
  <2>5. \A t \in Threads : Held(t)' = Held(t)
    BY <2>1 DEF rxVars, Held, Window
  <2>6. CASE h = Terminate
    <3>1. cur' = cur /\ h \notin Queued(r)
      BY <1>2, <2>6 DEF Take, Queued
    <3>2. \A s \in Recorders : Queued(s)' = Queued(s)
      BY <2>3, <2>4, <3>1
    <3>3. \A s \in Recorders : NoRepeat(recQ[s])'
      BY <2>3, <2>4 DEF NoRepeat
    <3>4. \A e \in msgQ' \cap batch' : ~IsPacket(e)
      BY <2>1 DEF Own, SingleOwner
    <3>5. QED
      BY <2>1, <2>5, <3>1, <3>2, <3>3, <3>4, OwnFrame
  <2>7. CASE h # Terminate
    <3>1. cur' = [cur EXCEPT ![r] = h]
      BY <1>2, <2>7 DEF Take
    <3>2. /\ cur'[r] = h /\ \A s \in Recorders : s # r => cur'[s] = cur[s]
          /\ h \in Queued(r) /\ h # Nothing
      BY <2>3, <2>7, <3>1, HandedOffsets DEF Control, TypeOK
    <3>3. \A s \in Recorders : Queued(s)' \cup ({cur'[s]} \ {Nothing})
                                = Queued(s) \cup ({cur[s]} \ {Nothing})
      BY <2>1, <2>3, <2>4, <3>2
    <3>4. WithRecorders' = WithRecorders
      BY <3>3 DEF WithRecorders
    <3>5. WithMain' = WithMain /\ Handed' = Handed
      BY <2>1, <3>4 DEF WithMain, Handed
    <3>6. InUseExact'
      BY <2>1, <2>5, <3>5 DEF Own, InUseExact
    <3>7. SingleOwner'
      <4>1. \A t \in Threads : \A i \in Held(t)' : Offset(t, i) \notin Handed'
        BY <2>5, <3>5 DEF Own, SingleOwner
      <4>2. \A f \in msgQ' \cap batch' : ~IsPacket(f)
        BY <2>1 DEF Own, SingleOwner
      <4>3. \A f, g \in Packets' : f.off = g.off => f = g
        BY <2>1 DEF Own, SingleOwner
      <4>4. WithMain' \cap WithRecorders' = {}
        BY <3>4, <3>5 DEF Own, SingleOwner
      <4>5. \A s \in Recorders : NoRepeat(recQ'[s])
        BY <2>3, <2>4
      <4>6. \A s \in Recorders : cur'[s] \notin Queued(s)'
        BY <2>3, <2>4, <3>2 DEF Own, SingleOwner
      <4>7. \A s, u \in Recorders : s # u =>
              (Queued(s)' \cup {cur'[s]}) \cap (Queued(u)' \cup {cur'[u]}) \subseteq {Nothing}
        BY <3>3 DEF Own, SingleOwner
      <4>8. QED
        BY <4>1, <4>2, <4>3, <4>4, <4>5, <4>6, <4>7 DEF SingleOwner
    <3>8. EventMatchesBuffer'
      BY <2>1 DEF Own, EventMatchesBuffer
    <3>9. RoutedToOwner'
      BY <2>1, <3>3 DEF Own, RoutedToOwner
    <3>10. OnlyOverrunKills' /\ OverrunIsBacklog'
      BY <2>1 DEF OnlyOverrunKills, OverrunIsBacklog, Alive
    <3>11. QED
      BY <3>6, <3>7, <3>8, <3>9, <3>10 DEF Own
  <2>8. QED
    BY <2>6, <2>7
<1>3. CASE Record(r)
  <2>1. cur[r] # Nothing
    BY <1>1, <1>3 DEF Record
  <2>2. InRange(r, InHand(r).ant)
    BY <2>1 DEF Own, RoutedToOwner, InHand
  <2>3. /\ Alive' /\ UNCHANGED <<inuse, ring, rxVars, msgQ, batch, recQ, cur>>
        /\ Packets' = Packets /\ \A s \in Recorders : Queued(s)' = Queued(s)
    BY <1>3, <2>2 DEF Record, Alive, bufVars, mainVars, Packets, Queued
  <2>4. \A t \in Threads : Held(t)' = Held(t)
    BY <2>3 DEF rxVars, Held, Window
  <2>5. QED
    BY <2>3, <2>4, OwnFrame DEF Own, SingleOwner, NoRepeat
<1>4. CASE Release(r)
  <2> DEFINE o == cur[r]
             t == BufferId(o)
             i == BufferOffset(o)
  <2>1. o # Nothing /\ o \in Offsets
    BY <1>1, <1>4 DEF Release, Control, TypeOK
  <2>2. t \in Threads /\ i \in Index /\ o = Offset(t, i)
    BY <2>1, OffsetCovers
  <2>3. /\ inuse' = [inuse EXCEPT ![t][i] = FALSE] /\ cur' = [cur EXCEPT ![r] = Nothing]
        /\ Alive' /\ UNCHANGED <<ring, rxVars, msgQ, batch, recQ>>
        /\ Packets' = Packets /\ \A s \in Recorders : Queued(s)' = Queued(s)
    BY <1>4 DEF Release, Alive, mainVars, Packets, Queued
  <2>4. cur'[r] = Nothing /\ \A s \in Recorders : s # r => cur'[s] = cur[s]
    BY <2>3 DEF Control, TypeOK
  <2>5. \A s \in Recorders : o \notin Queued(s) /\ (s # r => o # cur[s])
    BY <2>1 DEF Own, SingleOwner
  <2>6. o \in WithRecorders /\ o \notin WithMain
    BY <2>1 DEF Own, SingleOwner, WithRecorders
  <2>7. WithRecorders' = WithRecorders \ {o}
    <3>1. \A q : q \in WithRecorders' <=>
            \E s \in Recorders : q \in Queued(s) \/ (q = cur'[s] /\ q # Nothing)
      BY <2>3 DEF WithRecorders
    <3>2. \A q : q \in WithRecorders <=>
            \E s \in Recorders : q \in Queued(s) \/ (q = cur[s] /\ q # Nothing)
      BY DEF WithRecorders
    <3>3. ASSUME NEW q PROVE q \in WithRecorders' <=> q \in WithRecorders /\ q # o
      BY <2>1, <2>4, <2>5, <3>1, <3>2
    <3>4. QED
      BY <3>3
  <2>8. WithMain' = WithMain /\ Handed' = Handed \ {o}
    BY <2>3, <2>6, <2>7 DEF WithMain, Handed
  <2>9. \A u \in Threads : Held(u)' = Held(u)
    BY <2>3 DEF rxVars, Held, Window
  <2>10. InUseExact'
    <3>1. \A u \in Threads, j \in Index : Offset(u, j) = o => u = t /\ j = i
      BY <2>2, OffsetInjective
    <3>2. i \notin Held(t)
      BY <2>2, <2>6 DEF Own, SingleOwner, Handed
    <3>3. QED
      BY <2>2, <2>3, <2>8, <2>9, <3>1, <3>2 DEF Own, InUseExact, Control, TypeOK
  <2>11. SingleOwner'
    <3>1. \A u \in Threads : \A j \in Held(u)' : Offset(u, j) \notin Handed'
      BY <2>8, <2>9 DEF Own, SingleOwner
    <3>2. \A f \in msgQ' \cap batch' : ~IsPacket(f)
      BY <2>3 DEF Own, SingleOwner
    <3>3. \A f, g \in Packets' : f.off = g.off => f = g
      BY <2>3 DEF Own, SingleOwner
    <3>4. WithMain' \cap WithRecorders' = {}
      BY <2>7, <2>8 DEF Own, SingleOwner
    <3>5. \A s \in Recorders : NoRepeat(recQ'[s])
      BY <2>3 DEF Own, SingleOwner
    <3>6. \A s \in Recorders : cur'[s] \notin Queued(s)'
      BY <2>3, <2>4, HandedOffsets DEF Own, SingleOwner, Control
    <3>7. \A s, u \in Recorders : s # u =>
            (Queued(s)' \cup {cur'[s]}) \cap (Queued(u)' \cup {cur'[u]}) \subseteq {Nothing}
      BY <2>3, <2>4 DEF Own, SingleOwner
    <3>8. QED
      BY <3>1, <3>2, <3>3, <3>4, <3>5, <3>6, <3>7 DEF SingleOwner
  <2>12. EventMatchesBuffer'
    BY <2>3 DEF Own, EventMatchesBuffer
  <2>13. RoutedToOwner'
    BY <2>3, <2>4 DEF Own, RoutedToOwner
  <2>14. OnlyOverrunKills' /\ OverrunIsBacklog'
    BY <2>3 DEF OnlyOverrunKills, OverrunIsBacklog, Alive
  <2>15. QED
    BY <2>10, <2>11, <2>12, <2>13, <2>14 DEF Own
<1>5. QED
  BY <1>2, <1>3, <1>4 DEF Recorder

LEMMA OwnStep == Control /\ Own /\ [Next]_vars => Own'
<1> SUFFICES ASSUME Control, Own, [Next]_vars PROVE Own'
  OBVIOUS
<1>1. CASE UNCHANGED vars
  <2>1. /\ UNCHANGED <<inuse, ring, cur, msgQ, batch, recQ, fault, pc, ch, cursor>>
        /\ Packets' = Packets /\ WithMain' = WithMain /\ WithRecorders' = WithRecorders
        /\ Handed' = Handed
    BY <1>1 DEF vars, rxVars, bufVars, mainVars, recVars, Packets, WithMain, Queued,
       WithRecorders, Handed
  <2>2. /\ \A r \in Recorders : Queued(r)' = Queued(r)
        /\ \A t \in Threads : Held(t)' = Held(t)
    BY <2>1 DEF Queued, Held, Window
  <2>3. InUseExact' /\ EventMatchesBuffer' /\ RoutedToOwner'
    BY <2>1, <2>2 DEF Own, InUseExact, Alive, EventMatchesBuffer, RoutedToOwner
  <2>4. SingleOwner'
    BY <2>1, <2>2 DEF Own, SingleOwner, NoRepeat
  <2>5. OnlyOverrunKills' /\ OverrunIsBacklog'
    BY <2>1 DEF Own, OnlyOverrunKills, OverrunIsBacklog
  <2>6. QED
    BY <2>3, <2>4, <2>5 DEF Own
<1>2. QED
  BY <1>1, ReceiveOwn, MainOwn, RecorderOwn DEF Next, Stutter
-----------------------------------------------------------------------------
(* The theorems *)

\* The inductive invariant: control and ownership together.
THEOREM Inductive == Spec => []IInv
<1>1. Init => Control /\ Own
  BY InitControl, InitOwn
<1>2. (Control /\ Own) /\ [Next]_vars => (Control /\ Own)'
  BY ControlStep, OwnStep
<1>3. Control /\ Own => IInv
  BY DEF Control, Own, IInv
<1>4. QED
  BY <1>1, <1>2, <1>3, PTL DEF Spec

\* The in-use bits are exact: no buffer is freed under a waiting packet, no
\* buffer leaks (receiver.cc:471-482, 530-546, recorder_thread.cc:147-151).
THEOREM InUseIsExact == Spec => []InUseExact
<1>1. IInv => InUseExact
  BY DEF IInv
<1>2. QED
  BY <1>1, Inductive, PTL

\* Every buffer has one owner (receiver.cc:301-316, scheduler.cc:241-256,
\* recorder_thread.cc:86-155).
THEOREM OneOwner == Spec => []SingleOwner
<1>1. IInv => SingleOwner
  BY DEF IInv
<1>2. QED
  BY <1>1, Inductive, PTL

\* Nobody writes a buffer another one needs, and no buffer leaks.
THEOREM BuffersOwned == Spec => []Ownership
<1>1. InUseExact /\ SingleOwner => Ownership
  BY DEF Ownership
<1>2. QED
  BY <1>1, InUseIsExact, OneOwner, PTL

\* An event finds the packet it was made for (scheduler.cc:243-253).
THEOREM EventsMatch == Spec => []EventMatchesBuffer
<1>1. IInv => EventMatchesBuffer
  BY DEF IInv
<1>2. QED
  BY <1>1, Inductive, PTL

\* The process never dies of a double free, of a recorder index out of range
\* or of an antenna at the wrong recorder (receiver.cc:536-541,
\* scheduler.cc:244-252, recorder_worker.cc:299-300); and a full ring is a
\* backlog, never a leak.
THEOREM OnlyBacklogKills == Spec => []DiesOfBacklog
<1>1. IInv => DiesOfBacklog
  BY DEF IInv, DiesOfBacklog
<1>2. QED
  BY <1>1, Inductive, PTL

\* What is handed over is not written.
LEMMA HandedKept ==
  Control /\ Own /\ [Next]_vars =>
    \A t \in Threads, i \in Index : Offset(t, i) \in Handed => ring'[t][i] = ring[t][i]
<1> DEFINE Kept == \A t \in Threads, i \in Index :
                     Offset(t, i) \in Handed => ring'[t][i] = ring[t][i]
<1> SUFFICES ASSUME Control, Own, [Next]_vars PROVE Kept
  OBVIOUS
<1>1. \/ UNCHANGED ring
      \/ \E u \in Threads : pc[u] = "receive" /\ Fill(u)
      \/ \E u \in Threads : Notify(u)
  BY DEF Next, Receive, Main, Recorder, Stutter, SyncRead, Leave, BeginSlot, Reserve, SwRead,
     HwRead, ReadError, RequestFrame, FreeUnused, Dequeue, StopLoop, ExitSignal,
     LeaveLoop, DispatchRead, DispatchRecord, JoinReceivers, StopRecorder,
     FinalizeRecorder, JoinRecorder, Take, Record, Release, vars, bufVars
<1>2. ASSUME NEW u \in Threads, pc[u] = "receive", Fill(u) PROVE Kept
  <2>1. Held(u) = Window(u)
    BY <1>2 DEF Held
  <2>2. \A i \in Index : i \in Window(u) => Offset(u, i) \notin Handed
    BY <2>1 DEF Own, SingleOwner
  <2>3. QED
    BY <1>2, <2>2 DEF Fill, Control, TypeOK
<1>3. ASSUME NEW u \in Threads, Notify(u) PROVE Kept
  <2>1. ring' = [ring EXCEPT ![u][cursor[u] + ch[u]] = PacketOf(u)]
    BY <1>3 DEF Notify
  <2>2. Held(u) = cursor[u] + ch[u] .. cursor[u] + NumCh - 1
    BY <1>3 DEF Notify, Held
  <2>3. cursor[u] + ch[u] \in Held(u)
    BY <2>2, Sizes DEF Control, TypeOK, Index
  <2>4. Offset(u, cursor[u] + ch[u]) \notin Handed
    BY <2>3 DEF Own, SingleOwner
  <2>5. QED
    BY <2>1, <2>4 DEF Control, TypeOK
<1>4. CASE UNCHANGED ring
  BY <1>4
<1>5. QED
  BY <1>1, <1>2, <1>3, <1>4

\* A packet that was handed over is not overwritten before it is recorded.
THEOREM NeverOverwritten == Spec => NoOverwrite
<1> DEFINE Kept == \A t \in Threads, i \in Index :
                     Offset(t, i) \in Handed => ring'[t][i] = ring[t][i]
<1>1. (Control /\ Own) /\ [Next]_vars => [Kept]_vars
  BY HandedKept
<1>2. Init => Control /\ Own
  BY InitControl, InitOwn
<1>3. (Control /\ Own) /\ [Next]_vars => (Control /\ Own)'
  BY ControlStep, OwnStep
<1>4. QED
  BY <1>1, <1>2, <1>3, PTL DEF Spec, NoOverwrite
-----------------------------------------------------------------------------
(* The shutdown *)

NoEnd(q)    == \A k \in 1 .. Len(q) : q[k] # Terminate
OnlyEnds(q) == \A k \in 1 .. Len(q) : q[k] = Terminate
EndsLast(q) == \A j, k \in 1 .. Len(q) : j < k /\ q[j] = Terminate => q[k] = Terminate

LEMMA EndsAppend ==
  ASSUME NEW S, NEW q \in Seq(S), NEW x \in S
  PROVE  /\ NoEnd(q) /\ x # Terminate => NoEnd(Append(q, x))
         /\ x = Terminate =>
              /\ EndsLast(q) => EndsLast(Append(q, x))
              /\ OnlyEnds(q) => OnlyEnds(Append(q, x))
<1>1. /\ Len(q) \in Nat /\ Len(Append(q, x)) = Len(q) + 1
      /\ \A k \in 1 .. Len(q) : Append(q, x)[k] = q[k]
      /\ Append(q, x)[Len(q) + 1] = x
  OBVIOUS
<1>2. \A k \in 1 .. Len(q) + 1 : k \in 1 .. Len(q) \/ k = Len(q) + 1
  BY <1>1
<1>3. \A j, k \in 1 .. Len(q) + 1 : j < k => j \in 1 .. Len(q)
  BY <1>1
<1>4. QED
  BY <1>1, <1>2, <1>3 DEF NoEnd, OnlyEnds, EndsLast

LEMMA EndsTail ==
  ASSUME NEW S, NEW q \in Seq(S), q # <<>>
  PROVE  /\ NoEnd(q) => NoEnd(Tail(q)) /\ Head(q) # Terminate
         /\ EndsLast(q) => EndsLast(Tail(q))
         /\ OnlyEnds(q) => OnlyEnds(Tail(q)) /\ Head(q) = Terminate
         /\ EndsLast(q) /\ Head(q) = Terminate => OnlyEnds(Tail(q))
<1>1. /\ Len(q) \in Nat \ {0} /\ Head(q) = q[1] /\ Len(Tail(q)) = Len(q) - 1
      /\ \A k \in 1 .. Len(q) - 1 : Tail(q)[k] = q[k + 1]
  OBVIOUS
<1>2. /\ 1 \in 1 .. Len(q)
      /\ \A k \in 1 .. Len(q) - 1 : k + 1 \in 1 .. Len(q) /\ 1 < k + 1
      /\ \A j, k \in 1 .. Len(q) - 1 : j < k => j + 1 < k + 1
  BY <1>1
<1>3. NoEnd(q) => NoEnd(Tail(q)) /\ Head(q) # Terminate
  BY <1>1, <1>2 DEF NoEnd
<1>4. EndsLast(q) => EndsLast(Tail(q))
  BY <1>1, <1>2 DEF EndsLast
<1>5. OnlyEnds(q) => OnlyEnds(Tail(q)) /\ Head(q) = Terminate
  BY <1>1, <1>2 DEF OnlyEnds
<1>6. EndsLast(q) /\ Head(q) = Terminate => OnlyEnds(Tail(q))
  BY <1>1, <1>2 DEF EndsLast, OnlyEnds
<1>7. QED
  BY <1>3, <1>4, <1>5, <1>6

\* What a recorder at rp has in its queue q while the main thread is at mp:
\* the end comes behind every packet, and nothing behind the end.
Ending(q, rp, mp) ==
  /\ EndsLast(q)
  /\ mp \in {"loop", "dispatch", "join"} => NoEnd(q) /\ rp # "exited"
  /\ rp = "exited" => OnlyEnds(q)

\* The receive threads are joined before the recorders are told to stop, and
\* each recorder is joined before the next.
JoinInv ==
  /\ mainpc \notin {"loop", "dispatch", "join"} =>
       \A t \in Threads : pc[t] \in {"left", "failed"}
  /\ mainpc \in {"finalize", "joinrec"} =>
       \A r \in Recorders : r < nextRec => recpc[r] = "exited"
  /\ mainpc = "done" => \A r \in Recorders : recpc[r] = "exited"

DrainInv ==
  /\ \A r \in Recorders : Ending(recQ[r], recpc[r], mainpc)
  /\ JoinInv

LEMMA InitDrain == Init => DrainInv
<1> SUFFICES ASSUME Init PROVE DrainInv
  OBVIOUS
<1>1. mainpc = "loop" /\ \A r \in Recorders : recQ[r] = <<>> /\ recpc[r] = "idle"
  BY DEF Init
<1>2. EndsLast(<<>>) /\ NoEnd(<<>>)
  BY DEF EndsLast, NoEnd
<1>3. QED
  BY <1>1, <1>2 DEF DrainInv, Ending, JoinInv

LEMMA ReceiveDrain ==
  ASSUME DrainInv, NEW t \in Threads, Receive(t)
  PROVE  DrainInv'
<1>1. pc[t] \notin {"left", "failed"} /\ UNCHANGED <<mainpc, nextRec, recQ, recpc>>
  BY DEF Receive, SyncRead, Leave, BeginSlot, Reserve, SwRead, HwRead, ReadError, RequestFrame,
     FreeUnused, Notify, mainVars, recVars
<1>2. mainpc \in {"loop", "dispatch", "join"}
  BY <1>1 DEF DrainInv, JoinInv
<1>3. QED
  BY <1>1, <1>2 DEF DrainInv, JoinInv

LEMMA MainDrain ==
  ASSUME Control, DrainInv, Main \/ ExitSignal
  PROVE  DrainInv'
<1>1. \A r \in Recorders : recQ[r] \in Seq(Offsets \cup {Terminate})
  BY DEF Control, TypeOK
<1>2. nextRec \in Recorders /\ \A r \in Recorders : r < NumRecorders /\ r \in Nat
  BY Sizes DEF Control, TypeOK, Recorders
<1>3. ASSUME mainpc \in {"loop", "dispatch"}, mainpc' \in {"loop", "dispatch", "join"},
             UNCHANGED <<recQ, recpc, pc>>
      PROVE  DrainInv'
  BY <1>3 DEF DrainInv, Ending, JoinInv
<1>4. CASE Dequeue \/ StopLoop \/ ExitSignal
  <2>1. /\ mainpc = "loop" /\ mainpc' \in {"dispatch", "join"}
        /\ UNCHANGED <<recQ, recpc, pc>>
    BY <1>4 DEF Dequeue, StopLoop, ExitSignal, LeaveLoop, rxVars, recVars
  <2>2. QED
    BY <1>3, <2>1
<1>5. ASSUME NEW e \in batch, DispatchRead(e) PROVE DrainInv'
  <2>1. /\ mainpc = "dispatch" /\ mainpc' \in {"loop", "dispatch"}
        /\ UNCHANGED <<recQ, recpc, pc>>
    BY <1>5 DEF DispatchRead, AfterDispatch, rxVars, recVars
  <2>2. QED
    BY <1>3, <2>1
<1>6. ASSUME NEW e \in batch, DispatchRecord(e) PROVE DrainInv'
  <2>1. /\ mainpc = "dispatch" /\ mainpc' \in {"loop", "dispatch"}
        /\ UNCHANGED <<recpc, pc>>
    BY <1>6 DEF DispatchRecord, AfterDispatch, rxVars, recVars
  <2>2. PICK u \in Recorders : recQ' = [recQ EXCEPT ![u] = Append(recQ[u], e.off)]
    <3>1. RecorderOf(e.ant) \in Recorders
      BY AntennaPartition DEF Control, TypeOK, Event
    <3>2. QED
      BY <1>6, <3>1 DEF DispatchRecord
  <2>3. e.off \in Offsets /\ e.off # Terminate
    <3>1. e.off \in Offsets
      BY DEF Control, TypeOK, Event
    <3>2. QED
      BY <3>1 DEF Offsets, Terminate
  <2>4. ASSUME NEW r \in Recorders PROVE NoEnd(recQ'[r]) /\ recpc'[r] # "exited"
    <3>1. NoEnd(recQ[r]) /\ recpc[r] # "exited"
      BY <2>1 DEF DrainInv, Ending
    <3>2. recQ'[r] = recQ[r] \/ recQ'[r] = Append(recQ[r], e.off)
      BY <2>2 DEF Control, TypeOK
    <3>3. NoEnd(Append(recQ[r], e.off))
      BY <1>1, <2>3, <3>1, EndsAppend
    <3>4. QED
      BY <2>1, <3>1, <3>2, <3>3
  <2>5. \A r \in Recorders : EndsLast(recQ'[r])
    BY <2>4 DEF NoEnd, EndsLast
  <2>6. QED
    BY <2>1, <2>4, <2>5 DEF DrainInv, Ending, JoinInv
<1>7. CASE JoinReceivers
  <2>1. /\ mainpc' = "stop" /\ UNCHANGED <<recQ, recpc, pc>>
        /\ \A t \in Threads : pc[t] \in {"left", "failed"}
    BY <1>7 DEF JoinReceivers, rxVars, recVars
  <2>2. QED
    BY <2>1 DEF DrainInv, Ending, JoinInv
<1>8. ASSUME SendTerminate, UNCHANGED recpc, mainpc \notin {"loop", "dispatch", "join"},
             mainpc' \notin {"loop", "dispatch", "join"}
      PROVE  \A r \in Recorders : Ending(recQ'[r], recpc'[r], mainpc')
  <2> SUFFICES ASSUME NEW r \in Recorders PROVE Ending(recQ'[r], recpc'[r], mainpc')
    OBVIOUS
  <2>1. recQ'[r] = recQ[r] \/ recQ'[r] = Append(recQ[r], Terminate)
    BY <1>2, <1>8 DEF SendTerminate, Control, TypeOK
  <2>2. EndsLast(recQ[r]) /\ (recpc[r] = "exited" => OnlyEnds(recQ[r]))
    BY DEF DrainInv, Ending
  <2>3. /\ EndsLast(Append(recQ[r], Terminate))
        /\ recpc[r] = "exited" => OnlyEnds(Append(recQ[r], Terminate))
    BY <1>1, <2>2, EndsAppend
  <2>4. QED
    BY <1>8, <2>1, <2>2, <2>3 DEF Ending
<1>9. CASE StopRecorder
  <2>1. /\ mainpc = "stop" /\ SendTerminate /\ UNCHANGED <<recpc, pc>>
        /\ mainpc' = "stop" \/ (mainpc' = "finalize" /\ nextRec' = 0)
    BY <1>9 DEF StopRecorder, NextRecorder, rxVars, recVars
  <2>2. \A r \in Recorders : ~(r < 0)
    BY <1>2
  <2>3. JoinInv'
    BY <2>1, <2>2 DEF DrainInv, JoinInv
  <2>4. QED
    BY <1>8, <2>1, <2>3 DEF DrainInv
<1>10. CASE FinalizeRecorder
  <2>1. /\ mainpc = "finalize" /\ mainpc' = "joinrec" /\ SendTerminate
        /\ UNCHANGED <<recpc, pc, nextRec>>
    BY <1>10 DEF FinalizeRecorder, rxVars, recVars
  <2>2. JoinInv'
    BY <2>1 DEF DrainInv, JoinInv
  <2>3. QED
    BY <1>8, <2>1, <2>2 DEF DrainInv
<1>11. CASE JoinRecorder
  <2>1. /\ mainpc = "joinrec" /\ recpc[nextRec] = "exited" /\ UNCHANGED <<recQ, recpc, pc>>
        /\ IF nextRec + 1 = NumRecorders
             THEN nextRec' = 0 /\ mainpc' = "done"
             ELSE nextRec' = nextRec + 1 /\ mainpc' = "finalize"
    BY <1>11 DEF JoinRecorder, NextRecorder, rxVars, recVars
  <2>2. \A r \in Recorders : r < nextRec + 1 => recpc[r] = "exited"
    <3>1. \A r \in Recorders : r < nextRec + 1 => r < nextRec \/ r = nextRec
      BY <1>2
    <3>2. QED
      BY <2>1, <3>1 DEF DrainInv, JoinInv
  <2>3. JoinInv'
    BY <1>2, <2>1, <2>2 DEF DrainInv, JoinInv
  <2>4. \A r \in Recorders : Ending(recQ'[r], recpc'[r], mainpc')
    BY <2>1 DEF DrainInv, Ending
  <2>5. QED
    BY <2>3, <2>4 DEF DrainInv
<1>12. QED
  BY <1>4, <1>5, <1>6, <1>7, <1>9, <1>10, <1>11 DEF Main

LEMMA RecorderDrain ==
  ASSUME Control, DrainInv, NEW r \in Recorders, Recorder(r)
  PROVE  DrainInv'
<1>1. UNCHANGED <<mainpc, nextRec, pc>>
  BY DEF Recorder, Take, Record, Release, mainVars, rxVars
<1>2. recQ[r] \in Seq(Offsets \cup {Terminate}) /\ recpc \in [Recorders -> {"idle", "record", "free", "exited"}]
      /\ recQ \in [Recorders -> Seq(Offsets \cup {Terminate})]
  BY DEF Control, TypeOK
<1>3. recpc[r] # "exited"
  BY DEF Recorder, Take, Record, Release
<1>4. /\ \A u \in Recorders : u # r => recQ'[u] = recQ[u] /\ recpc'[u] = recpc[u]
      /\ Ending(recQ'[r], recpc'[r], mainpc)
  <2>1. CASE Take(r)
    <3>1. /\ recQ[r] # <<>> /\ recQ' = [recQ EXCEPT ![r] = Tail(recQ[r])]
          /\ recpc' = [recpc EXCEPT ![r] = IF Head(recQ[r]) = Terminate THEN "exited" ELSE "record"]
      BY <2>1 DEF Take
    <3>2. /\ recQ'[r] = Tail(recQ[r])
          /\ recpc'[r] = IF Head(recQ[r]) = Terminate THEN "exited" ELSE "record"
          /\ \A u \in Recorders : u # r => recQ'[u] = recQ[u] /\ recpc'[u] = recpc[u]
      BY <1>2, <3>1
    <3>3. Ending(recQ[r], recpc[r], mainpc)
      BY DEF DrainInv
    <3>4. /\ NoEnd(recQ[r]) => NoEnd(Tail(recQ[r])) /\ Head(recQ[r]) # Terminate
          /\ EndsLast(recQ[r]) => EndsLast(Tail(recQ[r]))
          /\ EndsLast(recQ[r]) /\ Head(recQ[r]) = Terminate => OnlyEnds(Tail(recQ[r]))
      BY <1>2, <3>1, EndsTail
    <3>5. QED
      BY <3>2, <3>3, <3>4 DEF Ending
  <2>2. CASE Record(r) \/ Release(r)
    <3>1. recQ' = recQ /\ (recpc' = recpc \/ \E to \in {"free", "idle"} : recpc' = [recpc EXCEPT ![r] = to])
      BY <2>2 DEF Record, Release
    <3>2. recpc'[r] # "exited" /\ \A u \in Recorders : u # r => recpc'[u] = recpc[u]
      BY <1>2, <1>3, <3>1
    <3>3. QED
      BY <3>1, <3>2 DEF DrainInv, Ending
  <2>3. QED
    BY <2>1, <2>2 DEF Recorder
<1>5. JoinInv'
  <2>1. \A u \in Recorders : recpc[u] = "exited" => recpc'[u] = "exited"
    BY <1>3, <1>4
  <2>2. QED
    BY <1>1, <2>1 DEF DrainInv, JoinInv
<1>6. \A u \in Recorders : Ending(recQ'[u], recpc'[u], mainpc')
  BY <1>1, <1>4 DEF DrainInv
<1>7. QED
  BY <1>5, <1>6 DEF DrainInv

LEMMA DrainStep == Control /\ DrainInv /\ [Next]_vars => DrainInv'
<1> SUFFICES ASSUME Control, DrainInv, [Next]_vars PROVE DrainInv'
  OBVIOUS
<1>1. CASE UNCHANGED vars
  BY <1>1 DEF DrainInv, JoinInv, Ending, vars, rxVars, mainVars, recVars
<1>2. QED
  BY <1>1, ReceiveDrain, MainDrain, RecorderDrain DEF Next, Stutter

\* When do_it returns, the recorders have recorded all they were given and
\* have freed its buffers: what is left is of a read that failed or in the
\* message queue, which nobody reads any more (scheduler.cc:297-310).
THEOREM ShutdownIsOrderly == Spec => []ShutdownDrains
<1>1. Control /\ Own /\ DrainInv => ShutdownDrains
  <2> SUFFICES ASSUME Control, Own, DrainInv, mainpc = "done"
               PROVE  /\ WithRecorders = {}
                      /\ \A r \in Recorders : recpc[r] = "exited"
                      /\ \A t \in Threads : \A i \in Index :
                           inuse[t][i] =>
                             (pc[t] = "failed" /\ i \in Held(t)) \/ Offset(t, i) \in WithMain
    BY DEF ShutdownDrains
  <2>1. /\ \A r \in Recorders : recpc[r] = "exited"
        /\ \A t \in Threads : pc[t] \in {"left", "failed"}
    BY DEF DrainInv, JoinInv
  <2>2. WithRecorders = {}
    <3> SUFFICES ASSUME NEW r \in Recorders PROVE Queued(r) = {} /\ cur[r] = Nothing
      BY DEF WithRecorders
    <3>1. cur[r] = Nothing
      BY <2>1 DEF Control, RecorderInv
    <3>2. OnlyEnds(recQ[r])
      BY <2>1 DEF DrainInv, Ending
    <3>3. DOMAIN recQ[r] = 1 .. Len(recQ[r])
      BY DEF Control, TypeOK
    <3>4. QED
      BY <3>1, <3>2, <3>3 DEF Queued, OnlyEnds
  <2>3. Alive
    BY <2>1 DEF Own, OnlyOverrunKills, OverrunIsBacklog, Alive
  <2>4. ASSUME NEW t \in Threads, NEW i \in Index, inuse[t][i]
        PROVE  (pc[t] = "failed" /\ i \in Held(t)) \/ Offset(t, i) \in WithMain
    <3>1. i \in Held(t) \/ Offset(t, i) \in WithMain
      BY <2>2, <2>3, <2>4 DEF Own, InUseExact, Handed
    <3>2. pc[t] = "left" => Held(t) = {}
      BY DEF Held
    <3>3. QED
      BY <2>1, <3>1, <3>2
  <2>5. QED
    BY <2>1, <2>2, <2>4
<1>2. Init => Control /\ Own /\ DrainInv
  BY InitControl, InitOwn, InitDrain
<1>3. (Control /\ Own /\ DrainInv) /\ [Next]_vars => (Control /\ Own /\ DrainInv)'
  BY ControlStep, OwnStep, DrainStep
<1>4. QED
  BY <1>1, <1>2, <1>3, PTL DEF Spec
-----------------------------------------------------------------------------
(* Each radio's time *)

OwnRadio(t) == RadioStart(t) .. RadioEnd(t) - 1
Now(t)      == Stamp(frame[t], slot[t])

\* With the software framer: the current slot of the radio has been read.
IsRead(t, it) ==
  /\ pc[t] \notin {"sync", "top", "left"}
  /\ it < radio[t] \/ (it = radio[t] /\ pc[t] \in {"request", "free", "notify"})

\* The time stamp of the last slot read of a radio of thread t.
Clock(t, it) ==
  IF HwFramer THEN last[it] ELSE IF IsRead(t, it) THEN Now(t) ELSE Now(t) - 1

CurrentInv ==
  \A t \in Threads :
    /\ pc[t] \in {"request", "notify"} => Clock(t, radio[t]) = Now(t)
    /\ pc[t] = "request" => slot[t] = TxSlot[radio[t]]

\* Thread t is past requesting the downlink for the slot at stamp s, and past
\* its packet of channel c.
Requested(t, it, s) ==
  \/ s < Clock(t, it)
  \/ s = Clock(t, it) /\ ~(radio[t] = it /\ pc[t] = "request")
Passed(t, it, s, c) ==
  /\ Requested(t, it, s)
  /\ s = Clock(t, it) /\ radio[t] = it /\ pc[t] = "notify" => c < ch[t]

\* The radio and the channel of a packet.
RadioOf(p) == Agg[p.cell] + (p.ant \div NumCh)
ChOf(p)    == p.ant % NumCh

\* The packets that wait to be recorded and those that have been.
Buf(o) == ring[BufferId(o)][BufferOffset(o)]
Made   == {Buf(o) : o \in Handed} \cup UNION {recorded[r] : r \in Recorders}

MadeInv ==
  \A t \in Threads, p \in Made :
    RadioOf(p) \in OwnRadio(t) =>
      Passed(t, RadioOf(p), Stamp(p.frame, p.slot), ChOf(p))

AskedInv ==
  \A t \in Threads, q \in Requests :
    q.radio \in OwnRadio(t) =>
      Requested(t, q.radio, Stamp(q.frame - TxFrameDelta, TxSlot[q.radio]))

\* No packet is in two buffers, and one that is recorded is in a buffer only
\* until the recorder that wrote it has freed it.
FreshInv ==
  /\ \A o, q \in Handed : Buf(o) = Buf(q) => o = q
  /\ \A o \in Handed, r \in Recorders :
       Buf(o) \in recorded[r] => \E s \in Recorders : cur[s] = o /\ recpc[s] = "free"

\* No radio is served by two receive threads (receiver.cc:370-373).
LEMMA RadiosApart ==
  ASSUME NEW t \in Threads, NEW u \in Threads, t < u
  PROVE  RadioEnd(t) <= RadioStart(u)
<1> DEFINE n == NumRadios
           k == NumThreads
           a == RadioStart(u)
           b == RadioEnd(t)
<1>1. n \in Nat \ {0} /\ k \in Nat \ {0} /\ t \in Nat /\ u \in Nat /\ t + 1 <= u
  BY RadioCount, SizeAssumption DEF Threads
<1>2. (t + 1) * n \in Nat /\ u * n \in Nat /\ (t + 1) * n <= u * n
  BY <1>1
<1>3. a \in Nat /\ u * n < (a + 1) * k
  BY <1>1, <1>2 DEF RadioStart
<1>4. b \in Nat /\ b * k <= (t + 1) * n
  BY <1>1, <1>2 DEF RadioEnd
<1> HIDE DEF a, b, n, k
<1>5. SUFFICES ASSUME a + 1 <= b PROVE FALSE
  BY <1>3, <1>4 DEF a, b
<1>6. (a + 1) * k <= b * k
  BY <1>1, <1>3, <1>4, <1>5
<1>7. (a + 1) * k \in Nat /\ b * k \in Nat
  BY <1>1, <1>3, <1>4
<1>8. QED
  BY <1>2, <1>3, <1>4, <1>6, <1>7

LEMMA OneThreadEach ==
  ASSUME NEW t \in Threads, NEW u \in Threads, NEW it, it \in OwnRadio(t), it \in OwnRadio(u)
  PROVE  t = u
<1>1. t \in Int /\ u \in Int
  BY Sizes DEF Threads
<1>2. /\ RadioStart(t) \in Nat /\ RadioEnd(t) \in Nat
      /\ RadioStart(u) \in Nat /\ RadioEnd(u) \in Nat
  BY RadioPartition
<1>3. CASE t < u
  <2>1. RadioEnd(t) <= RadioStart(u)
    BY <1>3, RadiosApart
  <2>2. QED
    BY <1>2, <2>1 DEF OwnRadio
<1>4. CASE u < t
  <2>1. RadioEnd(u) <= RadioStart(t)
    BY <1>4, RadiosApart
  <2>2. QED
    BY <1>2, <2>1 DEF OwnRadio
<1>5. QED
  BY <1>1, <1>3, <1>4

\* The packet of a thread is of the radio and the channel it is at.
LEMMA PacketIsOf ==
  ASSUME Control, NEW t \in Threads
  PROVE  /\ RadioOf(PacketOf(t)) = radio[t] /\ ChOf(PacketOf(t)) = ch[t]
         /\ radio[t] \in OwnRadio(t) /\ radio[t] \in Radios
<1>1. /\ radio[t] \in Radios /\ radio[t] \in OwnRadio(t) /\ ch[t] \in 0 .. NumCh - 1
      /\ NumCh \in {1, 2}
  BY Sizes DEF Control, TypeOK, ThreadInv, OwnRadio
<1> DEFINE l == LocalId(radio[t])
           a == Agg[CellOf(radio[t])]
<1>2. l \in Nat /\ CellOf(radio[t]) \in 0 .. NumCells - 1 /\ l = radio[t] - a
  BY <1>1, CellOfRadio, RadioCount DEF LocalId
<1>3. a \in Nat /\ radio[t] \in Nat
  BY <1>1, <1>2, CellAssumption, RadioCount DEF Radios
<1>4. /\ PacketOf(t).cell = CellOf(radio[t])
      /\ PacketOf(t).ant = l * NumCh + ch[t]
  BY DEF PacketOf
<1> HIDE DEF l, a
<1>5. (l * NumCh + ch[t]) \div NumCh = l /\ (l * NumCh + ch[t]) % NumCh = ch[t]
  <2>1. CASE NumCh = 1
    BY <1>1, <1>2, <2>1
  <2>2. CASE NumCh = 2
    BY <1>1, <1>2, <2>2
  <2>3. QED
    BY <1>1, <2>1, <2>2
<1>6. a + l = radio[t]
  BY <1>2, <1>3
<1>7. QED
  BY <1>1, <1>4, <1>5, <1>6 DEF RadioOf, ChOf, a

\* Types of the clocks.
LEMMA ClockTypes ==
  ASSUME Control, NEW t \in Threads, NEW it \in OwnRadio(t)
  PROVE  /\ it \in Radios /\ it \in Int /\ Now(t) \in Int /\ Clock(t, it) \in Int
         /\ radio[t] \in Int /\ it < RadioEnd(t) /\ RadioEnd(t) \in Int
         /\ RadioStart(t) \in Int /\ RadioStart(t) <= it
<1>1. it \in Radios /\ radio[t] \in Radios
  BY OwnRadios DEF OwnRadio, Control, TypeOK
<1>2. RadioStart(t) \in Nat /\ RadioEnd(t) \in Nat
  BY RadioPartition
<1>3. frame[t] \in Int /\ slot[t] \in Int /\ SlotPerFrame \in Int
  BY Sizes DEF Control, TypeOK, Frames
<1>4. Now(t) \in Int
  BY <1>3 DEF Now, Stamp
<1>5. last[it] \in Int
  BY <1>1 DEF Control, TypeOK
<1>6. QED
  BY <1>1, <1>2, <1>4, <1>5, RadioCount DEF Clock, OwnRadio, Radios

\* A thread moves the clocks of its own radios only.
LEMMA OtherClocks ==
  ASSUME Control, NEW t \in Threads, Receive(t), NEW u \in Threads, u # t, NEW it \in OwnRadio(u)
  PROVE  /\ Clock(u, it)' = Clock(u, it) /\ Now(u)' = Now(u)
         /\ pc'[u] = pc[u] /\ radio'[u] = radio[u] /\ ch'[u] = ch[u] /\ slot'[u] = slot[u]
<1>1. /\ pc'[u] = pc[u] /\ radio'[u] = radio[u] /\ ch'[u] = ch[u]
      /\ slot'[u] = slot[u] /\ frame'[u] = frame[u]
  BY DEF Receive, SyncRead, Leave, BeginSlot, Reserve, SwRead, HwRead, ReadError, RequestFrame,
     FreeUnused, Notify, NextChannel, NextRadio, AfterRead, Goto, Control, TypeOK
<1>2. Now(u)' = Now(u)
  BY <1>1 DEF Now
<1>3. last'[it] = last[it]
  <2>1. it # radio[t] /\ it \in Radios
    BY OneThreadEach, PacketIsOf, ClockTypes
  <2>2. last' = last \/ \E x : last' = [last EXCEPT ![radio[t]] = x]
    BY DEF Receive, SyncRead, Leave, BeginSlot, Reserve, SwRead, HwRead, ReadError, RequestFrame,
       FreeUnused, Notify
  <2>3. QED
    BY <2>1, <2>2 DEF Control, TypeOK
<1>4. QED
  BY <1>1, <1>2, <1>3 DEF Clock, IsRead

\* The end of an inner loop leaves the clocks where they are.
LEMMA NextKeepsClocks ==
  ASSUME Control, NEW t \in Threads, pc[t] \in {"free", "notify"}, NextChannel(t),
         UNCHANGED <<frame, last>>, NEW it \in OwnRadio(t)
  PROVE  Clock(t, it)' = Clock(t, it)
<1>1. /\ it \in Int /\ radio[t] \in Int /\ it < RadioEnd(t) /\ RadioEnd(t) \in Int
  BY ClockTypes
<1>2. CASE HwFramer
  BY <1>2 DEF Clock
<1>3. CASE ~HwFramer
  <2>1. Clock(t, it) = IF it <= radio[t] THEN Now(t) ELSE Now(t) - 1
    BY <1>1, <1>3 DEF Clock, IsRead
  <2>2. CASE UNCHANGED <<radio, slot, pc>>
    BY <2>2 DEF Clock, IsRead, Now
  <2>3. CASE NextRadio(t) /\ radio[t] + 1 < RadioEnd(t)
    <3>1. radio'[t] = radio[t] + 1 /\ pc'[t] = "reserve" /\ slot' = slot
      BY <2>3 DEF NextRadio, Goto, Control, TypeOK
    <3>2. Clock(t, it)' = IF it < radio[t] + 1 THEN Now(t) ELSE Now(t) - 1
      BY <1>3, <3>1 DEF Clock, IsRead, Now
    <3>3. QED
      BY <1>1, <2>1, <3>2
  <2>4. CASE NextRadio(t) /\ ~(radio[t] + 1 < RadioEnd(t))
    <3>1. slot'[t] = slot[t] + 1 /\ pc'[t] = "top"
      BY <1>3, <2>4 DEF NextRadio, Goto, Control, TypeOK
    <3>2. Clock(t, it)' = Now(t)' - 1
      BY <1>3, <3>1 DEF Clock, IsRead
    <3>3. Now(t)' = Stamp(frame[t], slot[t] + 1)
      BY <3>1 DEF Now
    <3>4. slot[t] \in Int /\ frame[t] * SlotPerFrame \in Int
      BY Sizes DEF Control, TypeOK, Frames
    <3>5. Now(t)' - 1 = Now(t)
      BY <3>3, <3>4 DEF Now, Stamp
    <3>6. it <= radio[t]
      BY <1>1, <2>4
    <3>7. QED
      BY <2>1, <3>2, <3>5, <3>6
  <2>5. QED
    BY <2>2, <2>3, <2>4 DEF NextChannel
<1>4. QED
  BY <1>2, <1>3

\* A read moves the clock of its radio forward and no other.
LEMMA ReadMoves ==
  ASSUME Control, NEW t \in Threads, SwRead(t) \/ HwRead(t), NEW it \in OwnRadio(t)
  PROVE  /\ it # radio[t] => Clock(t, it)' = Clock(t, it)
         /\ it = radio[t] => /\ Clock(t, it)' \in Int
                            /\ Clock(t, it)' > Clock(t, it)
         /\ radio' = radio
<1>1. /\ it \in Int /\ it \in Radios /\ radio[t] \in Int
      /\ Now(t) \in Int /\ Clock(t, it) \in Int
  BY ClockTypes
<1>2. CASE SwRead(t)
  <2>1. /\ pc[t] = "receive" /\ ~HwFramer /\ UNCHANGED <<radio, frame, slot>>
        /\ pc'[t] \in {"request", "notify", "free"}
    BY <1>2 DEF SwRead, AfterRead, Goto, Control, TypeOK
  <2>2. Now(t)' = Now(t)
    BY <2>1 DEF Now
  <2>3. CASE it = radio[t]
    <3>1. Clock(t, it) = Now(t) - 1
      BY <1>1, <2>1, <2>3 DEF Clock, IsRead
    <3>2. Clock(t, it)' = Now(t)
      BY <1>1, <2>1, <2>2, <2>3 DEF Clock, IsRead
    <3>3. QED
      BY <1>1, <2>1, <2>3, <3>1, <3>2
  <2>4. CASE it # radio[t]
    BY <2>1, <2>2, <2>4 DEF Clock, IsRead
  <2>5. QED
    BY <2>1, <2>3, <2>4
<1>3. CASE HwRead(t)
  <2>1. PICK x \in Int : x > last[radio[t]] /\ last' = [last EXCEPT ![radio[t]] = x]
    <3>1. PICK f \in Frames, s \in RxSlots[radio[t]] :
            Stamp(f, s) > last[radio[t]] /\ last' = [last EXCEPT ![radio[t]] = Stamp(f, s)]
      BY <1>3 DEF HwRead
    <3>2. s \in Slots
      BY PacketIsOf, ScheduleAssumption
    <3>3. Stamp(f, s) \in Int
      BY <3>2, Sizes DEF Stamp, Frames, Slots
    <3>4. QED
      BY <3>1, <3>3
  <2>2. HwFramer /\ radio' = radio
    BY <1>3 DEF HwRead
  <2>3. IF it = radio[t] THEN last'[it] = x ELSE last'[it] = last[it]
    BY <1>1, <2>1 DEF Control, TypeOK
  <2>4. QED
    BY <2>1, <2>2, <2>3 DEF Clock
<1>4. QED
  BY <1>2, <1>3

\* Only a read moves a clock, that of the radio that is read, and forward.
LEMMA OwnClocks ==
  ASSUME Control, NEW t \in Threads, Receive(t), NEW it \in OwnRadio(t)
  PROVE  \/ Clock(t, it)' = Clock(t, it)
         \/ /\ it = radio[t] /\ Clock(t, it)' \in Int
            /\ Clock(t, it)' > Clock(t, it)
<1>1. /\ it \in Int /\ it \in Radios /\ radio[t] \in Int /\ RadioStart(t) \in Int
      /\ Now(t) \in Int /\ Clock(t, it) \in Int /\ RadioStart(t) <= it
  BY ClockTypes
<1>2. CASE Leave(t) \/ Reserve(t) \/ ReadError(t) \/ RequestFrame(t)
  <2>1. UNCHANGED <<radio, frame, slot, last>>
    BY <1>2 DEF Leave, Reserve, ReadError, RequestFrame
  <2>2. IsRead(t, it)' <=> IsRead(t, it)
    <3>1. CASE Leave(t)
      <4>1. pc[t] = "top" /\ pc'[t] = "left"
        BY <3>1 DEF Leave, Goto, Control, TypeOK
      <4>2. QED
        BY <4>1 DEF IsRead
    <3>2. CASE Reserve(t)
      <4>1. pc[t] = "reserve" /\ pc'[t] \in {"reserve", "receive"}
        BY <3>2 DEF Reserve, Goto, Control, TypeOK
      <4>2. QED
        BY <2>1, <4>1 DEF IsRead
    <3>3. CASE ReadError(t)
      <4>1. pc[t] = "receive" /\ pc'[t] = "failed"
        BY <3>3 DEF ReadError, Goto, Control, TypeOK
      <4>2. QED
        BY <2>1, <4>1 DEF IsRead
    <3>4. CASE RequestFrame(t)
      <4>1. pc[t] = "request" /\ pc'[t] \in {"notify", "free"}
        BY <3>4 DEF RequestFrame, Goto, Control, TypeOK
      <4>2. QED
        BY <2>1, <4>1 DEF IsRead
    <3>5. QED
      BY <1>2, <3>1, <3>2, <3>3, <3>4
  <2>3. Now(t)' = Now(t)
    BY <2>1 DEF Now
  <2>4. QED
    BY <2>1, <2>2, <2>3 DEF Clock
<1>s. CASE SyncRead(t)
  <2>1. pc[t] = "sync" /\ pc'[t] \in {"sync", "top"} /\ UNCHANGED <<frame, slot, last>>
    BY <1>s DEF SyncRead, Goto, Control, TypeOK
  <2>2. QED
    BY <2>1 DEF Clock, IsRead, Now
<1>3. CASE BeginSlot(t)
  <2>1. /\ pc[t] = "top" /\ pc'[t] = "reserve" /\ radio'[t] = RadioStart(t) /\ last' = last
    BY <1>3 DEF BeginSlot, Goto, Control, TypeOK
  <2>2. CASE HwFramer
    BY <2>1, <2>2 DEF Clock
  <2>3. CASE ~HwFramer
    <3>1. Clock(t, it) = Now(t) - 1
      BY <2>1, <2>3 DEF Clock, IsRead
    <3>2. ~(it < radio'[t]) /\ pc'[t] = "reserve"
      BY <1>1, <2>1
    <3>3. Clock(t, it)' = Now(t)' - 1
      BY <2>3, <3>2 DEF Clock, IsRead
    <3>4. Now(t)' = Now(t)
      <4>1. CASE WrapsFrame(t)
        <5>1. /\ slot[t] = SlotPerFrame /\ slot'[t] = 0 /\ frame'[t] = frame[t] + 1
          BY <1>3, <4>1 DEF BeginSlot, WrapsFrame, Control, TypeOK
        <5>2. frame[t] \in Int /\ SlotPerFrame \in Int
          BY Sizes DEF Control, TypeOK, Frames
        <5>3. (frame[t] + 1) * SlotPerFrame + 0 = frame[t] * SlotPerFrame + SlotPerFrame
          BY <5>2
        <5>4. QED
          BY <5>1, <5>3 DEF Now, Stamp
      <4>2. CASE ~WrapsFrame(t)
        BY <1>3, <4>2 DEF BeginSlot, Now
      <4>3. QED
        BY <4>1, <4>2
    <3>5. QED
      BY <3>1, <3>3, <3>4
  <2>4. QED
    BY <2>2, <2>3
<1>4. CASE SwRead(t) \/ HwRead(t)
  BY <1>4, ReadMoves
<1>6. CASE FreeUnused(t)
  <2>1. pc[t] = "free" /\ UNCHANGED <<frame, last>>
        /\ (NextChannel(t) \/ UNCHANGED <<radio, slot, pc, ch>>)
    BY <1>6 DEF FreeUnused
  <2>2. CASE NextChannel(t)
    BY <2>1, <2>2, NextKeepsClocks
  <2>3. CASE UNCHANGED <<radio, slot, pc, ch>>
    BY <2>1, <2>3 DEF Clock, IsRead, Now
  <2>4. QED
    BY <2>1, <2>2, <2>3
<1>7. CASE Notify(t)
  <2>1. pc[t] = "notify" /\ UNCHANGED <<frame, last>> /\ NextChannel(t)
    BY <1>7 DEF Notify
  <2>2. QED
    BY <2>1, NextKeepsClocks
<1>8. QED
  BY <1>s, <1>2, <1>3, <1>4, <1>6, <1>7 DEF Receive

\* How a thread comes to request or to notify.
LEMMA Entering ==
  ASSUME Control, NEW t \in Threads, Receive(t), pc'[t] \in {"request", "notify"}
  PROVE  /\ radio'[t] = radio[t]
         /\ \/ SwRead(t) \/ HwRead(t)
            \/ RequestFrame(t) /\ pc[t] = "request" /\ pc'[t] = "notify"
            \/ Notify(t) /\ pc[t] = "notify" /\ pc'[t] = "notify" /\ ch'[t] = ch[t] + 1
<1>1. CASE SyncRead(t) \/ Leave(t) \/ BeginSlot(t) \/ Reserve(t) \/ ReadError(t)
  BY <1>1 DEF SyncRead, Leave, BeginSlot, Reserve, ReadError, Goto, Control, TypeOK
<1>2. CASE SwRead(t) \/ HwRead(t)
  BY <1>2 DEF SwRead, HwRead
<1>3. CASE RequestFrame(t)
  BY <1>3 DEF RequestFrame, Goto, Control, TypeOK
<1>4. CASE FreeUnused(t)
  BY <1>4 DEF FreeUnused, NextChannel, NextRadio, Goto, Control, TypeOK
<1>5. CASE Notify(t)
  BY <1>5 DEF Notify, NextChannel, NextRadio, Goto, Control, TypeOK
<1>6. QED
  BY <1>1, <1>2, <1>3, <1>4, <1>5 DEF Receive

\* What a thread is past it stays past.
LEMMA PassedStays ==
  ASSUME Control, NEW t \in Threads, Receive(t), NEW u \in Threads, NEW it \in OwnRadio(u),
         NEW s \in Int, NEW c \in Int
  PROVE  /\ Requested(u, it, s) => Requested(u, it, s)'
         /\ Passed(u, it, s, c) => Passed(u, it, s, c)'
<1>1. CASE u # t
  <2>1. /\ Clock(u, it)' = Clock(u, it) /\ pc'[u] = pc[u] /\ radio'[u] = radio[u]
        /\ ch'[u] = ch[u]
    BY <1>1, OtherClocks
  <2>2. QED
    BY <2>1 DEF Requested, Passed
<1>2. CASE u = t
  <2>1. Clock(t, it) \in Int /\ ch[t] \in Int
    BY <1>2, ClockTypes, Sizes DEF Control, TypeOK
  <2>2. CASE Clock(t, it)' \in Int /\ Clock(t, it)' > Clock(t, it)
    <3>1. Requested(t, it, s) => s < Clock(t, it)'
      BY <2>1, <2>2 DEF Requested
    <3>2. ~(s < Clock(t, it)' /\ s = Clock(t, it)')
      BY <2>2
    <3>3. QED
      BY <1>2, <3>1, <3>2 DEF Requested, Passed
  <2>3. CASE Clock(t, it)' = Clock(t, it) /\ ~(it = radio[t] /\ (SwRead(t) \/ HwRead(t)))
    <3>1. ASSUME radio'[t] = it, pc'[t] = "request" PROVE FALSE
      BY <2>3, <3>1, Entering
    <3>2. ASSUME radio'[t] = it, pc'[t] = "notify"
          PROVE  /\ radio[t] = it
                 /\ pc[t] = "request" \/ (pc[t] = "notify" /\ ch'[t] = ch[t] + 1)
      BY <2>3, <3>2, Entering
    <3>3. Requested(t, it, s) => Requested(t, it, s)'
      BY <2>3, <3>1 DEF Requested
    <3>4. ASSUME Passed(t, it, s, c) PROVE Passed(t, it, s, c)'
      <4>1. Requested(t, it, s)'
        BY <3>3, <3>4 DEF Passed
      <4>2. ASSUME s = Clock(t, it), radio'[t] = it, pc'[t] = "notify" PROVE c < ch'[t]
        <5>1. pc[t] = "notify" /\ ch'[t] = ch[t] + 1 /\ radio[t] = it
          BY <2>1, <3>2, <3>4, <4>2 DEF Passed, Requested
        <5>2. c < ch[t]
          BY <3>4, <4>2, <5>1 DEF Passed
        <5>3. QED
          BY <2>1, <5>1, <5>2
      <4>3. QED
        BY <2>3, <4>1, <4>2 DEF Passed
    <3>5. QED
      BY <1>2, <3>3, <3>4
  <2>4. QED
    <3>1. CASE SwRead(t) \/ HwRead(t)
      BY <1>2, <2>2, <2>3, <3>1, ReadMoves
    <3>2. CASE ~(SwRead(t) \/ HwRead(t))
      BY <1>2, <2>2, <2>3, <3>2, OwnClocks
    <3>3. QED
      BY <3>1, <3>2
<1>3. QED
  BY <1>1, <1>2

LEMMA InitCurrent == Init => CurrentInv
  BY DEF Init, CurrentInv

LEMMA CurrentStep ==
  ASSUME Control, CurrentInv, NEW t \in Threads, Receive(t)
  PROVE  CurrentInv'
<1> SUFFICES ASSUME NEW u \in Threads
             PROVE  /\ pc'[u] \in {"request", "notify"} => Clock(u, radio[u])' = Now(u)'
                    /\ pc'[u] = "request" => slot'[u] = TxSlot[radio'[u]]
  BY DEF CurrentInv
<1>1. PICK it \in OwnRadio(u) : it = radio[u]
  BY PacketIsOf
<1>2. CASE u # t
  <2>1. /\ Clock(u, it)' = Clock(u, it) /\ Now(u)' = Now(u)
        /\ pc'[u] = pc[u] /\ radio'[u] = it /\ slot'[u] = slot[u]
    BY <1>1, <1>2, OtherClocks
  <2>2. Clock(u, radio[u])' = Clock(u, it)'
    BY <2>1 DEF Clock, IsRead
  <2>3. QED
    BY <1>1, <2>1, <2>2 DEF CurrentInv
<1>3. CASE u = t
  <2> SUFFICES ASSUME pc'[t] \in {"request", "notify"}
               PROVE  /\ Clock(t, radio[t])' = Now(t)'
                      /\ pc'[t] = "request" => slot'[t] = TxSlot[radio'[t]]
    BY <1>3
  <2>1. radio'[t] = it
    BY <1>1, <1>3, Entering
  <2>2. CASE SwRead(t)
    <3>1. ~HwFramer /\ UNCHANGED <<radio, slot>>
      BY <2>2 DEF SwRead
    <3>2. Clock(t, radio[t])' = Now(t)'
      BY <3>1 DEF Clock, IsRead
    <3>3. pc'[t] = "request" => slot[t] = TxSlot[radio[t]]
      BY <2>2 DEF SwRead, AfterRead, Goto, Control, TypeOK
    <3>4. QED
      BY <3>1, <3>2, <3>3
  <2>3. CASE HwRead(t)
    <3>1. PICK f \in Frames, s \in RxSlots[radio[t]] :
            /\ last' = [last EXCEPT ![radio[t]] = Stamp(f, s)]
            /\ frame' = [frame EXCEPT ![t] = f] /\ slot' = [slot EXCEPT ![t] = s]
            /\ AfterRead(t, s)
      BY <2>3 DEF HwRead
    <3>2. HwFramer /\ radio' = radio
      BY <2>3 DEF HwRead
    <3>3. frame'[t] = f /\ slot'[t] = s /\ last'[radio[t]] = Stamp(f, s)
      BY <3>1, PacketIsOf DEF Control, TypeOK
    <3>4. Clock(t, radio[t])' = Now(t)'
      BY <3>2, <3>3 DEF Clock, Now
    <3>5. pc'[t] = "request" => s = TxSlot[radio[t]]
      BY <3>1 DEF AfterRead, Goto, Control, TypeOK
    <3>6. QED
      BY <3>2, <3>3, <3>4, <3>5
  <2>4. CASE ~(SwRead(t) \/ HwRead(t))
    <3>1. pc[t] \in {"request", "notify"} /\ pc'[t] = "notify" /\ (RequestFrame(t) \/ Notify(t))
      BY <2>4, Entering
    <3>2. UNCHANGED <<frame, last>> /\ slot'[t] = slot[t]
      BY <3>1 DEF RequestFrame, Notify, NextChannel, NextRadio, Goto, Control, TypeOK
    <3>3. Now(t)' = Now(t)
      BY <3>2 DEF Now
    <3>4. Clock(t, it) = Now(t)
      BY <1>1, <1>3, <3>1 DEF CurrentInv
    <3>5. Clock(t, radio[t])' = Clock(t, it)
      BY <1>1, <1>3, <2>1, <3>1, <3>2, <3>3 DEF Clock, IsRead
    <3>6. QED
      BY <3>1, <3>3, <3>4, <3>5
  <2>5. QED
    BY <2>2, <2>3, <2>4
<1>4. QED
  BY <1>2, <1>3

\* Packets and their fields.
LEMMA MadeTypes ==
  ASSUME Control
  PROVE  /\ \A o \in Handed : o \in Offsets /\ Buf(o) \in Made
         /\ \A r \in Recorders : recorded[r] \subseteq Made
         /\ \A p \in Made : Stamp(p.frame, p.slot) \in Int /\ ChOf(p) \in Int
         /\ \A q \in Requests : /\ q.radio \in Radios
                                /\ Stamp(q.frame - TxFrameDelta, TxSlot[q.radio]) \in Int
<1>1. \A o \in Handed : o \in Offsets
  BY HandedOffsets DEF Control
<1>2. \A o \in Handed : Buf(o) \in Content
  BY <1>1, OffsetCovers DEF Buf, Control, TypeOK
<1>3. \A r \in Recorders : recorded[r] \subseteq Content
  BY DEF Control, TypeOK
<1>4. Made \subseteq Content
  BY <1>2, <1>3 DEF Made
<1>5. \A p \in Content : p.frame \in Int /\ p.slot \in Int /\ p.ant \in Int
  BY Sizes, RadioCount DEF Content, Packet, Empty, Samples, Frames, Slots, Antennas
<1>6. \A p \in Made : Stamp(p.frame, p.slot) \in Int
  BY <1>4, <1>5, Sizes DEF Stamp
<1>7. \A p \in Made : ChOf(p) \in Int
  BY <1>4, <1>5, Sizes DEF ChOf
<1>8. \A q \in Requests : q.radio \in Radios /\ q.frame \in Nat
  <2>1. \A e \in msgQ \cup batch : e.radio \in Radios /\ e.frame \in Nat
    BY DEF Control, TypeOK, Event
  <2>2. \A q \in readReqs : q.radio \in Radios /\ q.frame \in Nat
    BY DEF Control, TypeOK
  <2>3. QED
    BY <2>1, <2>2 DEF Requests
<1>9. \A q \in Requests : Stamp(q.frame - TxFrameDelta, TxSlot[q.radio]) \in Int
  <2> SUFFICES ASSUME NEW q \in Requests
               PROVE  Stamp(q.frame - TxFrameDelta, TxSlot[q.radio]) \in Int
    OBVIOUS
  <2>1. q.frame - TxFrameDelta \in Int /\ SlotPerFrame \in Int
    BY <1>8, Sizes
  <2>2. TxSlot[q.radio] \in Int
    BY <1>8, ScheduleAssumption DEF Slots
  <2>3. QED
    BY <2>1, <2>2 DEF Stamp
<1>10. QED
  BY <1>1, <1>3, <1>6, <1>7, <1>8, <1>9 DEF Made

\* What is handed over keeps its packet.
LEMMA BufKept ==
  ASSUME Control, Own, [Next]_vars, NEW o \in Handed
  PROVE  Buf(o)' = Buf(o)
<1>1. o \in Offsets
  BY MadeTypes
<1>2. /\ BufferId(o) \in Threads /\ BufferOffset(o) \in Index
      /\ o = Offset(BufferId(o), BufferOffset(o))
  BY <1>1, OffsetCovers
<1>3. ring'[BufferId(o)][BufferOffset(o)] = ring[BufferId(o)][BufferOffset(o)]
  BY <1>2, HandedKept
<1>4. QED
  BY <1>3 DEF Buf

\* A receive thread hands over its packet, or asks for its downlink, or neither.
LEMMA ReceiveHands ==
  ASSUME Control, Own, Alive, NEW t \in Threads, Receive(t)
  PROVE  /\ UNCHANGED <<recorded, recpc, cur>>
         /\ \/ Handed' = Handed
            \/ /\ Notify(t) /\ pc[t] = "notify"
               /\ \E o : o \notin Handed /\ Handed' = Handed \cup {o} /\ Buf(o)' = PacketOf(t)
         /\ \/ Requests' = Requests
            \/ /\ RequestFrame(t) /\ pc[t] = "request"
               /\ Requests' = Requests \cup
                    {[radio |-> radio[t], frame |-> frame[t] + TxFrameDelta]}
<1>1. UNCHANGED <<recorded, recpc, cur, batch, recQ, readReqs>>
  BY DEF Receive, SyncRead, Leave, BeginSlot, Reserve, SwRead, HwRead, ReadError, RequestFrame,
     FreeUnused, Notify, recVars, mainVars
<1>2. WithRecorders' = WithRecorders
  BY <1>1 DEF WithRecorders, Queued
<1>3. CASE msgQ' = msgQ
  <2>1. Packets' = Packets /\ Requests' = Requests
    BY <1>1, <1>3 DEF Packets, Requests
  <2>2. WithMain' = WithMain
    BY <2>1 DEF WithMain
  <2>3. QED
    BY <1>1, <1>2, <2>1, <2>2 DEF Handed
<1>4. CASE RequestFrame(t)
  <2> DEFINE e == [radio |-> radio[t], frame |-> frame[t] + TxFrameDelta, slot |-> 0,
                   ant |-> LocalId(radio[t]), off |-> 0]
             q == [radio |-> radio[t], frame |-> frame[t] + TxFrameDelta]
  <2>1. msgQ' = msgQ \cup {e} /\ pc[t] = "request"
    BY <1>4 DEF RequestFrame
  <2>2. ~IsPacket(e) /\ [radio |-> e.radio, frame |-> e.frame] = q
    BY DEF IsPacket
  <2> HIDE DEF e, q
  <2>3. Packets' = Packets
    BY <1>1, <2>1, <2>2 DEF Packets
  <2>4. WithMain' = WithMain
    BY <2>3 DEF WithMain
  <2>5. Requests' = Requests \cup {q}
    <3>1. {f \in msgQ' \cup batch' : ~IsPacket(f)}
            = {f \in msgQ \cup batch : ~IsPacket(f)} \cup {e}
      BY <1>1, <2>1, <2>2
    <3>2. QED
      BY <1>1, <2>2, <3>1 DEF Requests
  <2>6. QED
    BY <1>1, <1>2, <1>4, <2>1, <2>4, <2>5 DEF Handed, q
<1>5. CASE Notify(t)
  <2> DEFINE i == cursor[t] + ch[t]
             o == Offset(t, i)
             e == [radio |-> radio[t], frame |-> frame[t], slot |-> slot[t],
                   ant |-> PacketOf(t).ant, off |-> o]
  <2>1. /\ cursor[t] \in Index /\ ch[t] \in 0 .. NumCh - 1 /\ cursor[t] + NumCh <= Chunk
        /\ pc[t] = "notify" /\ slot[t] \in RxSlots[radio[t]]
    BY <1>5, ReadFits DEF Control, TypeOK, ThreadInv, Notify
  <2>2. i \in Index /\ i % Chunk = i
    BY <2>1, InsideRead
  <2>3. i \in Held(t)
    BY <2>1, <2>2, Sizes DEF Held, Index
  <2>4. o \notin Handed
    BY <2>3 DEF Own, SingleOwner
  <2>5. /\ ring' = [ring EXCEPT ![t][i] = PacketOf(t)] /\ msgQ' = msgQ \cup {e}
    BY <1>5, <2>2 DEF Notify
  <2>6. IsPacket(e) /\ e.off = o
    <3>1. slot[t] # 0
      BY <2>1, PacketIsOf, ScheduleAssumption
    <3>2. QED
      BY <3>1 DEF IsPacket
  <2>7. BufferId(o) = t /\ BufferOffset(o) = i
    BY <2>2, OffsetSplits
  <2>8. ring'[t][i] = PacketOf(t)
    BY <2>2, <2>5 DEF Control, TypeOK
  <2>9. PICK b : b = o
    OBVIOUS
  <2> HIDE DEF e, o, i
  <2>10. Buf(b)' = PacketOf(t)
    <3>1. Buf(b)' = ring'[BufferId(b)][BufferOffset(b)]
      BY DEF Buf
    <3>2. QED
      BY <2>7, <2>8, <2>9, <3>1
  <2>11. Packets' = Packets \cup {e}
    BY <1>1, <2>5, <2>6 DEF Packets
  <2>12. WithMain' = WithMain \cup {o}
    BY <2>6, <2>11 DEF WithMain
  <2>13. Handed' = Handed \cup {o}
    BY <1>2, <2>12 DEF Handed
  <2>14. Requests' = Requests
    <3>1. {f \in msgQ' \cup batch' : ~IsPacket(f)} = {f \in msgQ \cup batch : ~IsPacket(f)}
      BY <1>1, <2>5, <2>6
    <3>2. QED
      BY <1>1, <3>1 DEF Requests
  <2>15. QED
    BY <1>1, <1>5, <2>1, <2>4, <2>9, <2>10, <2>13, <2>14
<1>6. QED
  BY <1>3, <1>4, <1>5 DEF Receive, SyncRead, Leave, BeginSlot, Reserve, SwRead, HwRead, ReadError,
     FreeUnused

\* The main thread hands on what it has and asks for nothing new.
LEMMA MainHands ==
  ASSUME Control, Own, Alive, Main \/ ExitSignal
  PROVE  /\ UNCHANGED <<rxVars, ring, recorded, recpc, cur>>
         /\ Handed' \subseteq Handed /\ Requests' \subseteq Requests
<1>1. UNCHANGED <<rxVars, ring, recorded, recpc, cur>>
  BY DEF Main, Dequeue, StopLoop, ExitSignal, LeaveLoop, DispatchRead, DispatchRecord,
     JoinReceivers, StopRecorder, FinalizeRecorder, JoinRecorder, bufVars, recVars
<1>2. CASE Dequeue
  <2>1. PICK b \in SUBSET msgQ : batch' = b /\ msgQ' = msgQ \ b
    BY <1>2 DEF Dequeue
  <2>2. UNCHANGED <<recQ, readReqs>>
    BY <1>2 DEF Dequeue
  <2>3. Packets' \subseteq Packets
    BY <2>1 DEF Packets
  <2>4. WithMain' \subseteq WithMain
    BY <2>3 DEF WithMain
  <2>5. WithRecorders' = WithRecorders
    BY <1>1, <2>2 DEF WithRecorders, Queued
  <2>6. Requests' \subseteq Requests
    BY <2>1, <2>2 DEF Requests
  <2>7. QED
    BY <1>1, <2>4, <2>5, <2>6 DEF Handed
<1>3. CASE StopLoop \/ ExitSignal \/ JoinReceivers \/ JoinRecorder
  <2>1. UNCHANGED <<msgQ, batch, recQ, readReqs>>
    BY <1>3 DEF StopLoop, ExitSignal, LeaveLoop, JoinReceivers, JoinRecorder
  <2>2. QED
    BY <1>1, <2>1 DEF Handed, WithMain, Packets, WithRecorders, Queued, Requests
<1>4. ASSUME NEW e \in batch, DispatchRead(e)
      PROVE  Handed' \subseteq Handed /\ Requests' \subseteq Requests
  <2>1. /\ UNCHANGED <<msgQ, recQ>> /\ batch' = batch \ {e} /\ ~IsPacket(e)
        /\ readReqs' = readReqs \cup {[radio |-> e.radio, frame |-> e.frame]}
    BY <1>4 DEF DispatchRead, AfterDispatch
  <2>2. Packets' = Packets
    BY <2>1 DEF Packets
  <2>3. WithMain' = WithMain /\ WithRecorders' = WithRecorders
    BY <1>1, <2>1, <2>2 DEF WithMain, WithRecorders, Queued
  <2>4. Requests' \subseteq Requests
    BY <2>1 DEF Requests
  <2>5. QED
    BY <2>3, <2>4 DEF Handed
<1>5. ASSUME NEW e \in batch, DispatchRecord(e)
      PROVE  Handed' \subseteq Handed /\ Requests' \subseteq Requests
  <2> DEFINE r == RecorderOf(e.ant)
             o == e.off
  <2>1. /\ e \in Packets /\ o \in Offsets /\ o \in Handed /\ e.ant \in Antennas
    BY <1>5 DEF DispatchRecord, Packets, WithMain, Handed, Control, TypeOK, Event
  <2>2. r \in Recorders
    BY <2>1, AntennaPartition
  <2>3. /\ recQ' = [recQ EXCEPT ![r] = Append(@, o)] /\ batch' = batch \ {e}
        /\ UNCHANGED <<msgQ, readReqs>>
    BY <1>5, <2>2 DEF DispatchRecord, AfterDispatch
  <2>4. \A s \in Recorders : Queued(s)' \subseteq Queued(s) \cup {o}
    <3> SUFFICES ASSUME NEW s \in Recorders PROVE Queued(s)' \subseteq Queued(s) \cup {o}
      OBVIOUS
    <3>1. recQ[s] \in Seq(Offsets \cup {Terminate})
      BY DEF Control, TypeOK
    <3>2. recQ'[s] = recQ[s] \/ recQ'[s] = Append(recQ[s], o)
      BY <2>2, <2>3 DEF Control, TypeOK
    <3>3. QED
      BY <2>1, <3>1, <3>2, QueueAppend DEF Queued
  <2> HIDE DEF r, o
  <2>5. WithRecorders' \subseteq WithRecorders \cup {o}
    BY <1>1, <2>4 DEF WithRecorders
  <2>6. Packets' \subseteq Packets
    BY <2>3 DEF Packets
  <2>7. WithMain' \subseteq WithMain
    BY <2>6 DEF WithMain
  <2>8. Requests' \subseteq Requests
    BY <2>3 DEF Requests
  <2>9. QED
    BY <2>1, <2>5, <2>7, <2>8 DEF Handed
<1>6. CASE StopRecorder \/ FinalizeRecorder
  <2>1. /\ UNCHANGED <<msgQ, batch, readReqs>>
        /\ recQ' = [recQ EXCEPT ![nextRec] = Append(@, Terminate)]
    BY <1>6 DEF StopRecorder, FinalizeRecorder, SendTerminate
  <2>2. \A s \in Recorders : Queued(s)' \subseteq Queued(s)
    <3> SUFFICES ASSUME NEW s \in Recorders PROVE Queued(s)' \subseteq Queued(s)
      OBVIOUS
    <3>1. recQ[s] \in Seq(Offsets \cup {Terminate})
      BY DEF Control, TypeOK
    <3>2. recQ'[s] = recQ[s] \/ recQ'[s] = Append(recQ[s], Terminate)
      BY <2>1 DEF Control, TypeOK
    <3>3. QED
      BY <3>1, <3>2, QueueAppend DEF Queued
  <2>3. WithRecorders' \subseteq WithRecorders
    BY <1>1, <2>2 DEF WithRecorders
  <2>4. WithMain' = WithMain /\ Requests' = Requests
    BY <2>1 DEF WithMain, Packets, Requests
  <2>5. QED
    BY <1>1, <2>3, <2>4 DEF Handed
<1>7. QED
  BY <1>1, <1>2, <1>3, <1>4, <1>5, <1>6 DEF Main

\* A recorder gives a buffer back after it has written its packet.
LEMMA RecorderHands ==
  ASSUME Control, Own, Alive, NEW r \in Recorders, Recorder(r)
  PROVE  /\ UNCHANGED <<rxVars, ring>> /\ Requests' = Requests
         /\ Handed' \subseteq Handed
         /\ \A s \in Recorders \ {r} :
              cur'[s] = cur[s] /\ recpc'[s] = recpc[s] /\ recorded'[s] = recorded[s]
         /\ \/ recpc[r] = "idle" /\ recorded'[r] = recorded[r]
            \/ /\ recpc[r] = "record" /\ recpc'[r] = "free"
               /\ cur[r] \in Handed /\ cur'[r] = cur[r]
               /\ recorded'[r] = recorded[r] \cup {Buf(cur[r])}
            \/ recpc[r] = "free" /\ recorded'[r] = recorded[r] /\ cur[r] \notin Handed'
<1>1. UNCHANGED <<rxVars, ring, msgQ, batch, readReqs>>
  BY DEF Recorder, Take, Record, Release, mainVars, bufVars
<1>2. /\ Packets' = Packets /\ Requests' = Requests
  BY <1>1 DEF Packets, Requests
<1>3. WithMain' = WithMain
  BY <1>2 DEF WithMain
<1>4. recpc[r] \in {"record", "free"} <=> cur[r] # Nothing
  BY DEF Control, RecorderInv
<1>5. CASE Take(r)
  <2> DEFINE h == Head(recQ[r])
  <2>1. /\ recpc[r] = "idle" /\ recQ[r] # <<>> /\ recorded' = recorded
        /\ recQ' = [recQ EXCEPT ![r] = Tail(@)]
        /\ \A s \in Recorders \ {r} : cur'[s] = cur[s] /\ recpc'[s] = recpc[s]
        /\ cur'[r] = cur[r] \/ (cur'[r] = h /\ h # Terminate)
    BY <1>5 DEF Take, Control, TypeOK
  <2>2. /\ recQ[r] \in Seq(Offsets \cup {Terminate}) /\ NoRepeat(recQ[r])
    BY DEF Control, TypeOK, Own, SingleOwner
  <2>3. /\ recQ'[r] = Tail(recQ[r])
        /\ \A s \in Recorders : s # r => recQ'[s] = recQ[s]
    BY <2>1 DEF Control, TypeOK
  <2>4. Queued(r)' \subseteq Queued(r) /\ (h # Terminate => h \in Queued(r))
    BY <2>1, <2>2, <2>3, QueueTail DEF Queued
  <2>5. \A s \in Recorders \ {r} : Queued(s)' = Queued(s)
    BY <2>3 DEF Queued
  <2> HIDE DEF h
  <2>6. WithRecorders' \subseteq WithRecorders
    BY <2>1, <2>4, <2>5 DEF WithRecorders
  <2>7. QED
    BY <1>1, <1>2, <1>3, <2>1, <2>6 DEF Handed
<1>6. CASE Record(r)
  <2>1. cur[r] # Nothing /\ recpc[r] = "record"
    BY <1>4, <1>6 DEF Record
  <2>2. InRange(r, InHand(r).ant)
    BY <2>1 DEF Own, RoutedToOwner, InHand
  <2>3. /\ UNCHANGED <<recQ, cur>>
        /\ recorded' = [recorded EXCEPT ![r] = @ \cup {InHand(r)}]
        /\ recpc' = [recpc EXCEPT ![r] = "free"]
    BY <1>6, <2>2 DEF Record
  <2>4. InHand(r) = Buf(cur[r])
    BY DEF InHand, Buf
  <2>5. /\ recorded'[r] = recorded[r] \cup {Buf(cur[r])} /\ recpc'[r] = "free"
        /\ \A s \in Recorders \ {r} : recpc'[s] = recpc[s] /\ recorded'[s] = recorded[s]
    BY <2>3, <2>4 DEF Control, TypeOK
  <2>6. WithRecorders' = WithRecorders /\ cur[r] \in WithRecorders
    BY <2>1, <2>3 DEF WithRecorders, Queued
  <2>7. QED
    BY <1>1, <1>2, <1>3, <2>1, <2>3, <2>5, <2>6 DEF Handed
<1>7. CASE Release(r)
  <2>1. /\ cur' = [cur EXCEPT ![r] = Nothing] /\ recpc' = [recpc EXCEPT ![r] = "idle"]
        /\ UNCHANGED <<recQ, recorded>> /\ recpc[r] = "free"
    BY <1>7 DEF Release
  <2>2. /\ cur'[r] = Nothing /\ cur[r] # Nothing
        /\ \A s \in Recorders \ {r} : cur'[s] = cur[s] /\ recpc'[s] = recpc[s]
    BY <1>4, <2>1 DEF Control, TypeOK
  <2>3. \A s \in Recorders : Queued(s)' = Queued(s)
    BY <2>1 DEF Queued
  <2>4. WithRecorders' \subseteq WithRecorders
    BY <2>2, <2>3 DEF WithRecorders
  <2>5. \A s \in Recorders : cur[r] \notin Queued(s) /\ (s # r => cur[r] # cur[s])
    BY <2>2 DEF Own, SingleOwner
  <2>6. cur[r] \notin WithRecorders'
    BY <2>2, <2>3, <2>5 DEF WithRecorders
  <2>7. cur[r] \notin WithMain
    BY <2>2 DEF Own, SingleOwner, WithRecorders
  <2>8. QED
    BY <1>1, <1>2, <1>3, <2>1, <2>2, <2>4, <2>6, <2>7 DEF Handed
<1>8. QED
  BY <1>5, <1>6, <1>7 DEF Recorder

TimeInv == CurrentInv /\ MadeInv /\ AskedInv /\ FreshInv

LEMMA InitTime == Init => TimeInv
<1> SUFFICES ASSUME Init PROVE TimeInv
  OBVIOUS
<1>1. Handed = {} /\ Requests = {}
  BY DEF Init, Handed, WithMain, Packets, WithRecorders, Queued, Requests
<1>2. Made = {} /\ \A r \in Recorders : recorded[r] = {}
  BY <1>1 DEF Init, Made
<1>3. QED
  BY <1>1, <1>2, InitCurrent DEF TimeInv, MadeInv, AskedInv, FreshInv

\* A thread that asks for the downlink of a slot has not asked for it before,
\* and the packet a thread hands over is new.
LEMMA NotAsked ==
  ASSUME Control, TimeInv, NEW t \in Threads, pc[t] = "request"
  PROVE  [radio |-> radio[t], frame |-> frame[t] + TxFrameDelta] \notin Requests
<1> DEFINE q == [radio |-> radio[t], frame |-> frame[t] + TxFrameDelta]
<1>1. radio[t] \in OwnRadio(t) /\ frame[t] \in Int /\ TxFrameDelta \in Int
  BY PacketIsOf, Sizes, ScheduleAssumption DEF Control, TypeOK, Frames
<1>2. Clock(t, radio[t]) = Now(t) /\ slot[t] = TxSlot[radio[t]] /\ Now(t) \in Int
  BY <1>1, ClockTypes DEF TimeInv, CurrentInv
<1>3. q.radio = radio[t] /\ q.frame - TxFrameDelta = frame[t]
  BY <1>1
<1>4. Stamp(q.frame - TxFrameDelta, TxSlot[q.radio]) = Now(t)
  BY <1>2, <1>3 DEF Now
<1> HIDE DEF q
<1>5. ~Requested(t, radio[t], Now(t))
  BY <1>2 DEF Requested
<1>6. q \notin Requests
  BY <1>1, <1>3, <1>4, <1>5 DEF TimeInv, AskedInv
<1>7. QED
  BY <1>6 DEF q

LEMMA NotMade ==
  ASSUME Control, TimeInv, NEW t \in Threads, pc[t] = "notify"
  PROVE  PacketOf(t) \notin Made
<1>1. radio[t] \in OwnRadio(t) /\ ch[t] \in Int
  BY PacketIsOf, Sizes DEF Control, TypeOK
<1>2. Clock(t, radio[t]) = Now(t)
  BY DEF TimeInv, CurrentInv
<1>3. Stamp(PacketOf(t).frame, PacketOf(t).slot) = Now(t)
  BY DEF PacketOf, Now
<1>4. ~Passed(t, radio[t], Now(t), ch[t])
  BY <1>1, <1>2 DEF Passed
<1>5. QED
  BY <1>1, <1>3, <1>4, PacketIsOf DEF TimeInv, MadeInv

LEMMA MadeStep ==
  ASSUME Control, Own, TimeInv, Alive, NEW t \in Threads, Receive(t)
  PROVE  MadeInv'
<1>1. Next
  BY DEF Next
<1>2. Made' \subseteq Made \cup {PacketOf(t)} /\ (Made' \subseteq Made \/ Notify(t))
  <2>1. \A o \in Handed : Buf(o)' = Buf(o)
    BY <1>1, BufKept
  <2>2. CASE Handed' = Handed
    BY <2>1, <2>2, ReceiveHands DEF Made
  <2>3. CASE Handed' # Handed
    <3>1. PICK o : Handed' = Handed \cup {o} /\ Buf(o)' = PacketOf(t) /\ Notify(t)
      BY <2>3, ReceiveHands
    <3>2. recorded' = recorded
      BY ReceiveHands
    <3>3. QED
      BY <2>1, <3>1, <3>2 DEF Made
  <2>4. QED
    BY <2>2, <2>3
<1>3. SUFFICES ASSUME NEW u \in Threads, NEW p \in Made', NEW it \in OwnRadio(u),
                      it = RadioOf(p)
               PROVE  Passed(u, it, Stamp(p.frame, p.slot), ChOf(p))'
  BY DEF MadeInv
<1>4. CASE p \in Made
  <2>1. Passed(u, it, Stamp(p.frame, p.slot), ChOf(p))
    BY <1>3, <1>4 DEF TimeInv, MadeInv
  <2>2. Stamp(p.frame, p.slot) \in Int /\ ChOf(p) \in Int
    BY <1>4, MadeTypes
  <2>3. QED
    BY <2>1, <2>2, PassedStays
<1>5. CASE p = PacketOf(t) /\ Notify(t)
  <2>1. it = radio[t] /\ u = t /\ ChOf(p) = ch[t] /\ ch[t] \in Int
    BY <1>3, <1>5, PacketIsOf, OneThreadEach, Sizes DEF Control, TypeOK
  <2>2. PICK n : n = Stamp(p.frame, p.slot)
    OBVIOUS
  <2>3. n = Now(t)
    BY <1>5, <2>2 DEF PacketOf, Now
  <2>4. Clock(t, it) = n /\ n \in Int /\ pc[t] = "notify"
    BY <1>5, <2>1, <2>3, ClockTypes DEF TimeInv, CurrentInv, Notify
  <2>5. Clock(t, it)' = n \/ (Clock(t, it)' \in Int /\ Clock(t, it)' > n)
    BY <2>1, <2>4, OwnClocks
  <2>6. pc'[t] # "request" /\ (pc'[t] = "notify" => ch'[t] = ch[t] + 1)
    BY <1>5, <2>4, Entering DEF Notify, NextChannel, NextRadio, Goto, Control, TypeOK
  <2>7. Requested(t, it, n)'
    BY <2>4, <2>5, <2>6 DEF Requested
  <2>8. ASSUME pc'[t] = "notify" PROVE ChOf(p) < ch'[t]
    BY <2>1, <2>6, <2>8
  <2>9. Passed(t, it, n, ChOf(p))'
    BY <2>7, <2>8 DEF Passed
  <2>10. QED
    BY <2>1, <2>2, <2>9
<1>6. QED
  BY <1>2, <1>4, <1>5

LEMMA AskedStep ==
  ASSUME Control, Own, TimeInv, Alive, NEW t \in Threads, Receive(t)
  PROVE  AskedInv'
<1> DEFINE StampOf(q) == Stamp(q.frame - TxFrameDelta, TxSlot[q.radio])
<1>1. SUFFICES ASSUME NEW u \in Threads, NEW q \in Requests', NEW it \in OwnRadio(u),
                      it = q.radio
               PROVE  Requested(u, it, StampOf(q))'
  BY DEF AskedInv
<1>2. CASE q \in Requests
  <2>1. Requested(u, it, StampOf(q))
    BY <1>1, <1>2 DEF TimeInv, AskedInv
  <2>2. StampOf(q) \in Int
    BY <1>2, MadeTypes
  <2>3. QED
    BY <2>1, <2>2, PassedStays
<1>3. CASE q \notin Requests
  <2>1. /\ RequestFrame(t) /\ pc[t] = "request"
        /\ q = [radio |-> radio[t], frame |-> frame[t] + TxFrameDelta]
    BY <1>1, <1>3, ReceiveHands
  <2>2. it = radio[t] /\ u = t
    BY <1>1, <2>1, PacketIsOf, OneThreadEach
  <2>3. q.radio = radio[t] /\ q.frame - TxFrameDelta = frame[t]
    BY <2>1, ScheduleAssumption DEF Control, TypeOK, Frames
  <2>4. PICK n : n = StampOf(q)
    OBVIOUS
  <2>5. slot[t] = TxSlot[radio[t]] /\ Clock(t, radio[t]) = Now(t)
    BY <2>1 DEF TimeInv, CurrentInv
  <2>6. n = Now(t)
    BY <2>3, <2>4, <2>5 DEF Now
  <2>7. Clock(t, it) = n /\ n \in Int
    BY <2>2, <2>5, <2>6, ClockTypes
  <2>8. Clock(t, it)' = n \/ (Clock(t, it)' \in Int /\ Clock(t, it)' > n)
    BY <2>2, <2>7, OwnClocks
  <2>9. pc'[t] # "request"
    BY <2>1 DEF RequestFrame, Goto, Control, TypeOK
  <2>10. Requested(t, it, n)'
    BY <2>7, <2>8, <2>9 DEF Requested
  <2>11. QED
    BY <2>2, <2>4, <2>10
<1>4. QED
  BY <1>2, <1>3

LEMMA ReceiveFresh ==
  ASSUME Control, Own, TimeInv, Alive, NEW t \in Threads, Receive(t)
  PROVE  FreshInv'
<1>1. Next
  BY DEF Next
<1>2. \A o \in Handed : Buf(o)' = Buf(o)
  BY <1>1, BufKept
<1>3. UNCHANGED <<recorded, recpc, cur>>
  BY ReceiveHands
<1>4. CASE Handed' = Handed
  BY <1>2, <1>3, <1>4 DEF TimeInv, FreshInv
<1>5. CASE Handed' # Handed
  <2>1. PICK o : /\ Handed' = Handed \cup {o} /\ Buf(o)' = PacketOf(t)
                 /\ Notify(t) /\ pc[t] = "notify"
    BY <1>5, ReceiveHands
  <2>2. Buf(o)' \notin Made
    BY <2>1, NotMade
  <2>3. /\ \A q \in Handed : Buf(q)' \in Made
        /\ \A r \in Recorders : Buf(o)' \notin recorded[r]
    BY <1>2, <2>2, MadeTypes
  <2>4. \A q, w \in Handed' : Buf(q)' = Buf(w)' => q = w
    BY <1>2, <2>1, <2>2, <2>3 DEF TimeInv, FreshInv
  <2>5. \A q \in Handed', r \in Recorders :
          Buf(q)' \in recorded[r] => \E w \in Recorders : cur[w] = q /\ recpc[w] = "free"
    BY <1>2, <2>1, <2>3 DEF TimeInv, FreshInv
  <2>6. QED
    BY <1>3, <2>4, <2>5 DEF FreshInv
<1>6. QED
  BY <1>4, <1>5

LEMMA RecorderFresh ==
  ASSUME Control, Own, TimeInv, Alive, NEW r \in Recorders, Recorder(r)
  PROVE  FreshInv'
<1>1. Next
  BY DEF Next
<1>2. \A o \in Handed : Buf(o)' = Buf(o)
  BY <1>1, BufKept
<1>3. Handed' \subseteq Handed
  BY RecorderHands
<1>4. \A o, q \in Handed' : Buf(o)' = Buf(q)' => o = q
  BY <1>2, <1>3 DEF TimeInv, FreshInv
<1>5. SUFFICES ASSUME NEW o \in Handed', NEW s \in Recorders, Buf(o) \in recorded'[s]
               PROVE  \E w \in Recorders : cur'[w] = o /\ recpc'[w] = "free"
  BY <1>2, <1>3, <1>4 DEF FreshInv
<1>6. \A w \in Recorders \ {r} : cur'[w] = cur[w] /\ recpc'[w] = recpc[w]
  BY RecorderHands
<1>7. CASE Buf(o) \in recorded[s]
  <2>1. PICK w \in Recorders : cur[w] = o /\ recpc[w] = "free"
    BY <1>3, <1>5, <1>7 DEF TimeInv, FreshInv
  <2>2. w # r
    BY <1>5, <2>1, RecorderHands
  <2>3. QED
    BY <1>6, <2>1, <2>2
<1>8. CASE Buf(o) \notin recorded[s]
  <2>1. s = r
    BY <1>5, <1>8, RecorderHands
  <2>2. /\ recpc'[r] = "free" /\ cur[r] \in Handed /\ cur'[r] = cur[r]
        /\ Buf(o) = Buf(cur[r])
    BY <1>5, <1>8, <2>1, RecorderHands
  <2>3. o = cur[r]
    BY <1>3, <2>2 DEF TimeInv, FreshInv
  <2>4. QED
    BY <2>2, <2>3
<1>9. QED
  BY <1>7, <1>8

\* The other threads leave the clocks alone and add nothing to them.
LEMMA OthersTime ==
  ASSUME Control, Own, TimeInv, UNCHANGED rxVars, Made' \subseteq Made, Requests' \subseteq Requests
  PROVE  CurrentInv' /\ MadeInv' /\ AskedInv'
<1>1. \A u \in Threads : \A it \in OwnRadio(u) : Clock(u, it)' = Clock(u, it)
  BY DEF rxVars, Clock, IsRead, Now
<1>2. CurrentInv'
  <2>1. \A u \in Threads : Clock(u, radio[u])' = Clock(u, radio[u]) /\ Now(u)' = Now(u)
    BY DEF rxVars, Clock, IsRead, Now
  <2>2. QED
    BY <2>1 DEF TimeInv, CurrentInv, rxVars
<1>3. \A u \in Threads : \A it \in OwnRadio(u) : \A s, c \in Int :
        /\ Requested(u, it, s) => Requested(u, it, s)'
        /\ Passed(u, it, s, c) => Passed(u, it, s, c)'
  BY <1>1 DEF rxVars, Requested, Passed
<1>4. MadeInv'
  <2> SUFFICES ASSUME NEW u \in Threads, NEW p \in Made, RadioOf(p) \in OwnRadio(u)
               PROVE  Passed(u, RadioOf(p), Stamp(p.frame, p.slot), ChOf(p))'
    BY DEF MadeInv
  <2>1. Passed(u, RadioOf(p), Stamp(p.frame, p.slot), ChOf(p))
    BY DEF TimeInv, MadeInv
  <2>2. QED
    BY <1>3, <2>1, MadeTypes
<1>5. AskedInv'
  <2> SUFFICES ASSUME NEW u \in Threads, NEW q \in Requests, q.radio \in OwnRadio(u)
               PROVE  Requested(u, q.radio, Stamp(q.frame - TxFrameDelta, TxSlot[q.radio]))'
    BY DEF AskedInv
  <2>1. Requested(u, q.radio, Stamp(q.frame - TxFrameDelta, TxSlot[q.radio]))
    BY DEF TimeInv, AskedInv
  <2>2. QED
    BY <1>3, <2>1, MadeTypes
<1>6. QED
  BY <1>2, <1>4, <1>5

LEMMA TimeStep == Control /\ Own /\ TimeInv /\ [Next]_vars => TimeInv'
<1> SUFFICES ASSUME Control, Own, TimeInv, [Next]_vars PROVE TimeInv'
  OBVIOUS
<1>1. ASSUME Alive, NEW t \in Threads, Receive(t) PROVE TimeInv'
  BY <1>1, CurrentStep, MadeStep, AskedStep, ReceiveFresh DEF TimeInv
<1>2. ASSUME Alive, Main \/ ExitSignal PROVE TimeInv'
  <2>1. /\ UNCHANGED <<rxVars, ring, recorded, recpc, cur>>
        /\ Handed' \subseteq Handed /\ Requests' \subseteq Requests
    BY <1>2, MainHands
  <2>2. \A o : Buf(o)' = Buf(o)
    BY <2>1 DEF Buf
  <2>3. Made' \subseteq Made
    BY <2>1, <2>2 DEF Made
  <2>4. FreshInv'
    BY <2>1, <2>2 DEF TimeInv, FreshInv
  <2>5. QED
    BY <2>1, <2>3, <2>4, OthersTime DEF TimeInv
<1>3. ASSUME Alive, NEW r \in Recorders, Recorder(r) PROVE TimeInv'
  <2>1. /\ UNCHANGED <<rxVars, ring>> /\ Handed' \subseteq Handed /\ Requests' = Requests
    BY <1>3, RecorderHands
  <2>2. \A o : Buf(o)' = Buf(o)
    BY <2>1 DEF Buf
  <2>3. \A s \in Recorders : recorded'[s] \subseteq Made
    BY <1>3, RecorderHands, MadeTypes
  <2>4. Made' \subseteq Made
    <3>1. \A o \in Handed' : Buf(o)' \in Made
      BY <2>1, <2>2, MadeTypes
    <3>2. QED
      BY <2>3, <3>1 DEF Made
  <2>5. QED
    BY <1>3, <2>1, <2>4, OthersTime, RecorderFresh DEF TimeInv
<1>4. CASE UNCHANGED vars
  <2>1. UNCHANGED <<rxVars, ring, recorded, recpc, cur, msgQ, batch, recQ, readReqs>>
    BY <1>4 DEF vars, bufVars, mainVars, recVars
  <2>2. Handed' = Handed /\ Requests' = Requests
    BY <2>1 DEF Handed, WithMain, Packets, WithRecorders, Queued, Requests
  <2>3. \A o : Buf(o)' = Buf(o)
    BY <2>1 DEF Buf
  <2>4. Made' \subseteq Made
    BY <2>1, <2>2, <2>3 DEF Made
  <2>5. FreshInv'
    BY <2>1, <2>2, <2>3 DEF TimeInv, FreshInv
  <2>6. QED
    BY <2>1, <2>2, <2>4, <2>5, OthersTime DEF TimeInv
<1>5. QED
  BY <1>1, <1>2, <1>3, <1>4 DEF Next, Stutter

\* What a symbol sets off happens once: no packet is recorded twice, by the
\* same recorder or by two, and no downlink frame is requested twice
\* (recorder_thread.cc:141-147, receiver.cc:519-524, 573-581).
THEOREM TakenOnlyOnce == Spec => TakenOnce
<1>1. Control /\ Own /\ TimeInv => [RecordsNew /\ RequestsNew]_vars
  <2> SUFFICES ASSUME Control, Own, TimeInv PROVE RecordsNew /\ RequestsNew
    OBVIOUS
  <2>1. RequestsNew
    BY NotAsked DEF RequestsNew
  <2>2. ASSUME NEW r \in Recorders, recpc[r] = "record", NEW s \in Recorders
        PROVE  InHand(r) \notin recorded[s]
    <3>1. cur[r] # Nothing /\ cur[r] \in Handed
      BY <2>2 DEF Control, RecorderInv, Handed, WithRecorders
    <3>2. InHand(r) = Buf(cur[r])
      BY DEF InHand, Buf
    <3>3. \A w \in Recorders : cur[w] = cur[r] => w = r
      BY <3>1 DEF Own, SingleOwner
    <3>4. QED
      BY <2>2, <3>1, <3>2, <3>3 DEF TimeInv, FreshInv
  <2>3. QED
    BY <2>1, <2>2 DEF RecordsNew
<1>2. Init => Control /\ Own /\ TimeInv
  BY InitControl, InitOwn, InitTime
<1>3. (Control /\ Own /\ TimeInv) /\ [Next]_vars => (Control /\ Own /\ TimeInv)'
  BY ControlStep, OwnStep, TimeStep
<1>4. QED
  BY <1>1, <1>2, <1>3, PTL DEF Spec, TakenOnce
=============================================================================
