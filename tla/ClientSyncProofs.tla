------------------------- MODULE ClientSyncProofs -------------------------
(***************************************************************************)
(* Theorems about ClientSync, for every frame, prefix, window, period and  *)
(* every amount of drift.  Positions are modulo the frame; the proofs say  *)
(* so with multiples of the frame, which need no arithmetic of %.          *)
(***************************************************************************)
EXTENDS ClientSync, TLAPS

Multiple(x) == \E q \in Int : x = q * FrameLen

\* x is at most s samples away from a start of a frame.
Near(x, s) == \E e \in Int : -s <= e /\ e <= s /\ Multiple(x - e)

-----------------------------------------------------------------------------
(* Lemmas about positions *)

\* A frame has samples, and no fewer than a slot has.
LEMMA FrameLenType ==
  /\ FrameLen \in Nat \ {0}
  /\ Slot \in Nat /\ Slot > 0 /\ Slot <= FrameLen
  /\ Slots * Slot = FrameLen
<1>1. Slot \in Nat /\ Slots \in Nat /\ Slot > 0 BY SyncAssumption
<1>2. FrameLen \in Nat BY <1>1 DEF FrameLen
<1>3. Slot <= FrameLen BY <1>1, <1>2, SyncAssumption
<1>4. Slots * Slot = FrameLen BY <1>1 DEF FrameLen
<1> QED BY <1>1, <1>2, <1>3, <1>4

\* Taking a position modulo the frame moves it by a multiple of the frame.
LEMMA ModFrame ==
  ASSUME NEW x \in Int
  PROVE  /\ x % FrameLen \in 0 .. FrameLen - 1
         /\ Multiple((x % FrameLen) - x) /\ Multiple(x - (x % FrameLen))
<1> DEFINE L == FrameLen
<1>1. L \in Nat \ {0} BY FrameLenType
<1> HIDE DEF L
<1>2. x % L \in 0 .. L - 1 BY <1>1
<1>3. x \div L \in Int /\ x = (x \div L) * L + (x % L) BY <1>1
<1>4. -(x \div L) \in Int /\ (x % L) - x = (-(x \div L)) * L BY <1>1, <1>2, <1>3
<1>5. x - (x % L) = (x \div L) * L BY <1>1, <1>2, <1>3
<1> QED BY <1>2, <1>3, <1>4, <1>5 DEF Multiple, L

\* The same for a position w that is given.
LEMMA ModPosition ==
  ASSUME NEW x \in Int, NEW w, w = x % FrameLen
  PROVE  w \in Int /\ Multiple(w - x)
<1>1. w \in 0 .. FrameLen - 1 /\ Multiple(w - x) BY ModFrame
<1>2. w \in Int BY <1>1, FrameLenType
<1> QED BY <1>1, <1>2

LEMMA MultipleSum ==
  ASSUME NEW x \in Int, NEW y \in Int, Multiple(x), Multiple(y)
  PROVE  Multiple(x + y)
<1> DEFINE L == FrameLen
<1>0. L \in Int BY FrameLenType
<1> HIDE DEF L
<1>1. PICK p \in Int : x = p * L BY DEF Multiple, L
<1>2. PICK q \in Int : y = q * L BY DEF Multiple, L
<1>3. x + y = (p + q) * L BY <1>0, <1>1, <1>2
<1> QED BY <1>3 DEF Multiple, L

\* Zero and a frame are multiples of the frame, and so is a frame back.
LEMMA MultipleFrame ==
  Multiple(0) /\ Multiple(FrameLen) /\ Multiple(-FrameLen)
<1> DEFINE L == FrameLen
<1>0. L \in Int BY FrameLenType
<1> HIDE DEF L
<1>1. 0 = 0 * L /\ L = 1 * L /\ -L = (-1) * L BY <1>0
<1> QED BY <1>1 DEF Multiple, L

\* What is near stays near when it moves by multiples of the frame.
LEMMA NearMoves ==
  ASSUME NEW x \in Int, NEW y \in Int, NEW s \in Nat, Near(x, s), Multiple(y - x)
  PROVE  Near(y, s)
<1>1. PICK e \in Int : -s <= e /\ e <= s /\ Multiple(x - e) BY DEF Near
<1>2. Multiple((x - e) + (y - x)) BY <1>1, MultipleSum
<1>3. (x - e) + (y - x) = y - e OBVIOUS
<1> QED BY <1>1, <1>2, <1>3 DEF Near

\* A slip of d samples is paid for by as much slack.
LEMMA NearSlips ==
  ASSUME NEW x \in Int, NEW s \in Nat, NEW k \in Nat, NEW d \in -k .. k, Near(x, s)
  PROVE  Near(x + d, s + k)
<1>1. PICK e \in Int : -s <= e /\ e <= s /\ Multiple(x - e) BY DEF Near
<1>2. (x + d) - (e + d) = x - e BY <1>1
<1>3. e + d \in Int /\ -(s + k) <= e + d /\ e + d <= s + k BY <1>1
<1> QED BY <1>1, <1>2, <1>3 DEF Near

\* A remainder is unique.
LEMMA Remainder ==
  ASSUME NEW x \in Int, NEW y \in 0 .. FrameLen - 1, Multiple(x - y)
  PROVE  x % FrameLen = y
<1> DEFINE L == FrameLen
<1>1. L \in Nat \ {0} /\ y \in 0 .. L - 1 BY FrameLenType
<1>2. PICK q \in Int : x - y = q * L BY DEF Multiple
<1> HIDE DEF L
<1>3. x \div L \in Int /\ x = (x \div L) * L + (x % L) /\ x % L \in 0 .. L - 1 BY <1>1
<1>4. (q - x \div L) * L = (x % L) - y BY <1>1, <1>2, <1>3
<1>5. q - x \div L = 0
  <2> DEFINE m == q - x \div L
  <2>1. m \in Int /\ m * L < L /\ m * L > -L BY <1>1, <1>3, <1>4
  <2> HIDE DEF m
  <2>2. ~ (m >= 1)
    <3>1. SUFFICES ASSUME m >= 1 PROVE FALSE OBVIOUS
    <3>2. m * L >= L BY <3>1, <2>1, <1>1
    <3> QED BY <3>2, <2>1, <1>1
  <2>3. ~ (m <= -1)
    <3>1. SUFFICES ASSUME m <= -1 PROVE FALSE OBVIOUS
    <3>2. m * L <= -L BY <3>1, <2>1, <1>1
    <3> QED BY <3>2, <2>1, <1>1
  <2>4. m = 0 BY <2>1, <2>2, <2>3
  <2> QED BY <2>4 DEF m
<1>6. 0 * L = 0 BY <1>1
<1>7. x % L = y BY <1>1, <1>3, <1>4, <1>5, <1>6
<1> QED BY <1>7 DEF L

\* Near is what Distance measures.
LEMMA NearDistance ==
  ASSUME NEW x \in Int, NEW s \in Nat, Near(x, s)
  PROVE  Distance(x) <= s
<1> DEFINE L == FrameLen
           p == x % FrameLen
<1>1. L \in Nat \ {0} /\ p \in 0 .. L - 1 BY FrameLenType, ModFrame
<1>2. PICK e \in Int : -s <= e /\ e <= s /\ Multiple(x - e) BY DEF Near
<1>3. Distance(x) = IF 2 * p > L THEN L - p ELSE p BY DEF Distance
<1>4. CASE 2 * s >= L BY <1>1, <1>3, <1>4
<1>5. CASE 2 * s < L /\ e >= 0
  <2>1. e \in 0 .. L - 1 BY <1>1, <1>2, <1>5
  <2>2. p = e BY <1>2, <2>1, Remainder
  <2> QED BY <1>1, <1>2, <1>3, <1>5, <2>2
<1>6. CASE 2 * s < L /\ e < 0
  <2>1. e + L \in 0 .. L - 1 BY <1>1, <1>2, <1>6
  <2>2. Multiple((x - e) + (-L)) BY <1>1, <1>2, MultipleFrame, MultipleSum
  <2>3. (x - e) + (-L) = x - (e + L) BY <1>1, <1>2
  <2>4. p = e + L BY <2>1, <2>2, <2>3, Remainder
  <2> QED BY <1>1, <1>2, <1>3, <1>6, <2>4
<1> QED BY <1>2, <1>4, <1>5, <1>6, <1>1
-----------------------------------------------------------------------------
(* Types, and the alignment before the main loop *)

\* What the types need: the bounds of the counters where they are used.
Bounds ==
  /\ slack <= slips
  /\ pc \in {"search", "align"} => syncs < 2 /\ adjust = 0 /\ age = 0 /\ retries = 0
  /\ pc = "discard" => adjust = 0
  /\ pc \in {"discard", "transmit", "slots"} => age < Period

TypeInv == TypeOK /\ NoUnexpectedAlignment /\ Bounds

LEMMA InitType == Init => TypeInv
<1> USE SyncAssumption, FrameLenType
<1> QED BY DEF Init, TypeInv, TypeOK, NoUnexpectedAlignment, Bounds

LEMMA AdvanceType ==
  ASSUME NEW n \in Int, pos \in Int, Advance(n)
  PROVE  pos' \in 0 .. FrameLen - 1
BY ModFrame, pos + n \in Int DEF Advance

\* Before the main loop.
LEMMA SearchType ==
  ASSUME TypeInv,
         SearchShort \/ SearchMiss \/ SearchFound \/ SearchStopped \/ Discard
           \/ Aligned \/ Discarded
  PROVE  TypeInv'
<1> USE SyncAssumption, FrameLenType DEF TypeInv, TypeOK, NoUnexpectedAlignment, Bounds
<1>0. pos \in Int /\ Window \in Int OBVIOUS
<1>1. CASE SearchShort
  <2>1. pos' \in 0 .. FrameLen - 1 BY <1>0, <1>1, AdvanceType DEF SearchShort
  <2> QED BY <1>1, <2>1 DEF SearchShort, syncVars
<1>2. CASE SearchMiss
  <2>1. pos' \in 0 .. FrameLen - 1 BY <1>0, <1>2, AdvanceType DEF SearchMiss
  <2> QED BY <1>2, <2>1 DEF SearchMiss, syncVars
<1>3. CASE SearchFound
  <2>1. pos' \in 0 .. FrameLen - 1 BY <1>0, <1>3, AdvanceType DEF SearchFound
  <2>2. left' \in 0 .. FrameLen /\ pc' = "align"
    <3>1. PICK o \in Visible(Window) :
            /\ left' = FrameLen - Window + o
            /\ pc' = IF left' < 0 THEN "fault" ELSE "align"
      BY <1>3 DEF SearchFound
    <3>2. o \in -Prefix .. Window - Prefix - Beacon BY <3>1 DEF Visible
    <3> QED BY <3>1, <3>2
  <2> QED BY <1>3, <2>1, <2>2 DEF SearchFound, syncVars
<1>4. CASE SearchStopped BY <1>4 DEF SearchStopped, syncVars
<1>5. CASE Discard
  <2>1. PICK n \in 1 .. left : Advance(n) /\ left' = left - n BY <1>5 DEF Discard
  <2>2. left \in 0 .. FrameLen BY <1>5 DEF Discard
  <2>3. n \in Int /\ left' \in 0 .. FrameLen BY <2>1, <2>2
  <2>4. pos' \in 0 .. FrameLen - 1 BY <1>0, <2>1, <2>3, AdvanceType
  <2> QED BY <1>5, <2>3, <2>4 DEF Discard, syncVars
<1>6. CASE Aligned BY <1>6 DEF Aligned
<1>7. CASE Discarded BY <1>7 DEF Discarded, syncVars
<1> QED BY <1>1, <1>2, <1>3, <1>4, <1>5, <1>6, <1>7

\* Slot 0 of the main loop: what the read leaves.
LEMMA ReadBeaconType ==
  ASSUME TypeInv, NEW k \in 0 .. MaxSlip, ReadBeacon(k)
  PROVE  /\ pos' \in 0 .. FrameLen - 1 /\ age' \in 0 .. Period /\ age' < Period
         /\ slips' \in 0 .. MaxSlip /\ slips' = slips + k /\ slack + k <= slips'
<1> USE SyncAssumption, FrameLenType DEF TypeInv, TypeOK, Bounds
<1>1. pos \in Int /\ Slot - adjust - k \in Int OBVIOUS
<1>2. pos' \in 0 .. FrameLen - 1 BY <1>1, AdvanceType DEF ReadBeacon
<1> QED BY <1>2 DEF ReadBeacon, Slip, Due

\* What FrameFound does with k samples missing and the frame at offset o.
FrameFoundAt(k, o) ==
  /\ ReadBeacon(k) /\ slack' = k
  /\ base' = (pos + o) % FrameLen
  /\ adjust' = IF o < 0 THEN -o ELSE 0
  /\ left' = IF o > 0 THEN o ELSE 0
  /\ pc' = IF o > 0 THEN "discard" ELSE "transmit"

LEMMA FrameType ==
  ASSUME TypeInv, FrameEnds \/ FrameQuiet \/ FrameFound \/ FrameMiss
  PROVE  TypeInv'
<1> USE SyncAssumption, FrameLenType DEF TypeInv, TypeOK, NoUnexpectedAlignment, Bounds
<1>1. CASE FrameEnds BY <1>1 DEF FrameEnds, syncVars
<1>2. CASE FrameQuiet
  <2>1. PICK k \in 0 .. MaxSlip : ReadBeacon(k) /\ slack' = slack + k
    BY <1>2 DEF FrameQuiet
  <2>2. /\ pos' \in 0 .. FrameLen - 1 /\ age' \in 0 .. Period /\ age' < Period
        /\ slips' \in 0 .. MaxSlip /\ slips' = slips + k /\ slack + k <= slips'
    BY <2>1, ReadBeaconType
  <2>3. running' \in BOOLEAN /\ resync' \in BOOLEAN BY <1>2 DEF FrameQuiet
  <2> QED BY <1>2, <2>1, <2>2, <2>3 DEF FrameQuiet
<1>3. CASE FrameFound
  <2>1. PICK k \in 0 .. MaxSlip : \E o \in Visible(Slot - adjust - k) :
                FrameFoundAt(k, o)
    BY <1>3 DEF FrameFound, FrameFoundAt
  <2>9. PICK o \in Visible(Slot - adjust - k) : FrameFoundAt(k, o) BY <2>1
  <2>2. /\ pos' \in 0 .. FrameLen - 1 /\ age' \in 0 .. Period /\ age' < Period
        /\ slips' \in 0 .. MaxSlip /\ slips' = slips + k /\ slack + k <= slips'
    BY <2>9, ReadBeaconType DEF FrameFoundAt
  <2>3. o \in -Prefix .. Slot - adjust - k - Prefix - Beacon BY <2>9 DEF Visible
  <2>4. o \in Int /\ adjust' \in 0 .. Prefix /\ left' \in 0 .. FrameLen
    BY <2>9, <2>3 DEF FrameFoundAt
  <2>5. base' \in 0 .. FrameLen - 1 BY <2>9, <2>4, pos + o \in Int, ModFrame DEF FrameFoundAt
  <2>6. running' \in BOOLEAN /\ resync' \in BOOLEAN BY <1>3 DEF FrameFound
  <2> QED BY <1>3, <2>9, <2>2, <2>4, <2>5, <2>6 DEF FrameFound, FrameFoundAt
<1>4. CASE FrameMiss
  <2>1. PICK k \in 0 .. MaxSlip : ReadBeacon(k) /\ slack' = slack + k
    BY <1>4 DEF FrameMiss
  <2>2. /\ pos' \in 0 .. FrameLen - 1 /\ age' \in 0 .. Period /\ age' < Period
        /\ slips' \in 0 .. MaxSlip /\ slips' = slips + k /\ slack + k <= slips'
    BY <2>1, ReadBeaconType
  <2>3. running' \in BOOLEAN /\ resync' \in BOOLEAN BY <1>4 DEF FrameMiss
  <2>4. /\ retries' \in 0 .. RetryMax /\ pc' \in {"done", "transmit"}
        /\ adjust' = 0 /\ carried' = adjust /\ base' = pos
        /\ UNCHANGED <<left, syncs, slot>>
    BY <1>4 DEF FrameMiss
  <2> QED BY <2>1, <2>2, <2>3, <2>4
<1> QED BY <1>1, <1>2, <1>3, <1>4

\* The rest of a frame, and the environment.
LEMMA RestType ==
  ASSUME TypeInv, Transmit \/ ReadSlot \/ SlotFails \/ NextFrame \/ Drift \/ StopRun
  PROVE  TypeInv'
<1> USE SyncAssumption, FrameLenType DEF TypeInv, TypeOK, NoUnexpectedAlignment, Bounds
<1>1. CASE Transmit BY <1>1 DEF Transmit
<1>2. CASE ReadSlot
  <2>1. PICK k \in 0 .. MaxSlip :
          k < Slot /\ Slip(k) /\ Advance(Slot - k) /\ slack' = slack + k
    BY <1>2 DEF ReadSlot
  <2>2. pos' \in 0 .. FrameLen - 1 BY <2>1, AdvanceType
  <2> QED BY <1>2, <2>1, <2>2 DEF ReadSlot, Slip
<1>3. CASE SlotFails
  <2>1. running' \in BOOLEAN /\ resync' \in BOOLEAN BY <1>3 DEF SlotFails
  <2> QED BY <1>3, <2>1 DEF SlotFails
<1>4. CASE NextFrame BY <1>4 DEF NextFrame
<1>5. CASE Drift
  <2>1. PICK d \in {-1, 1} :
          pos' = (pos + d) % FrameLen /\ base' = (base + d) % FrameLen
    BY <1>5 DEF Drift
  <2>2. pos' \in 0 .. FrameLen - 1 /\ base' \in 0 .. FrameLen - 1
    BY <2>1, pos + d \in Int, base + d \in Int, ModFrame
  <2> QED BY <1>5, <2>2 DEF Drift
<1>6. CASE StopRun BY <1>6 DEF StopRun, syncVars
<1> QED BY <1>1, <1>2, <1>3, <1>4, <1>5, <1>6

LEMMA NextType == TypeInv /\ [Next]_vars => TypeInv'
<1> SUFFICES ASSUME TypeInv, [Next]_vars PROVE TypeInv' OBVIOUS
<1>1. CASE UNCHANGED vars
  BY <1>1 DEF vars, syncVars, TypeInv, TypeOK, NoUnexpectedAlignment, Bounds
<1> QED BY <1>1, SearchType, FrameType, RestType DEF Next, Client

\* The types of the variables; the positions stay inside the frame and what is
\* discarded is never more than a frame (receiver.cc:936-951).
THEOREM TypeCorrect == Spec => []TypeOK
<1>1. TypeInv => TypeOK BY DEF TypeInv
<1> QED BY <1>1, InitType, NextType, PTL DEF Spec

\* The exception "Unexpected alignment" is never thrown: a window leaves at
\* least the prefix of a frame (receiver.cc:948-951).
THEOREM NeverUnexpected == Spec => []NoUnexpectedAlignment
<1>1. TypeInv => NoUnexpectedAlignment BY DEF TypeInv
<1> QED BY <1>1, InitType, NextType, PTL DEF Spec
-----------------------------------------------------------------------------
(* Alignment in the main loop *)

\* A search that starts with a period ends before the next one, and the frame
\* after it is not yet the next period's: a found beacon is never looked for
\* again in the slot 0 that is shortened for it.
PeriodIsLong == RetryMax + 1 < Period

\* How the frames since the last search and its misses are counted.
Counting ==
  /\ ~ resync => retries = 0
  /\ pc \in {"search", "align"} => resync
  /\ pc = "frame" => /\ resync => age = retries /\ adjust = 0
                     /\ adjust # 0 => age < Period
  /\ pc \in {"discard", "transmit", "slots"} =>
       /\ resync => age + 1 = retries /\ adjust = 0
       /\ adjust # 0 => age + 1 < Period

Tracked == {"align", "frame", "discard", "transmit", "slots"}

ReadsNear == running /\ pc \in Tracked => Near(pos - Expected, slack)

TxNear == running /\ pc \in {"discard", "transmit"} => Near(base - carried, slack)

AlignInv == Counting /\ ReadsNear /\ TxNear

\* A frame that looks for the beacon has a whole slot 0.
LEMMA LooksWhole ==
  ASSUME TypeInv, Counting, PeriodIsLong, pc = "frame", Looks
  PROVE  adjust = 0 /\ (Due => retries = 0) /\ (~ Due => resync /\ age = retries)
<1> USE SyncAssumption DEF TypeInv, TypeOK, Counting, PeriodIsLong
<1>1. CASE Due
  <2>1. ~ resync BY <1>1 DEF Due
  <2> QED BY <1>1, <2>1 DEF Due
<1>2. CASE ~ Due
  <2>1. resync BY <1>2 DEF Looks
  <2> QED BY <1>2, <2>1
<1> QED BY <1>1, <1>2

LEMMA NextCounting ==
  ASSUME TypeInv, Counting, PeriodIsLong, [Next]_vars
  PROVE  Counting'
<1> USE SyncAssumption DEF TypeInv, TypeOK, Bounds, Counting, PeriodIsLong
<1>1. CASE SearchShort BY <1>1 DEF SearchShort, syncVars
<1>2. CASE SearchMiss BY <1>2 DEF SearchMiss, syncVars
<1>3. CASE SearchFound
  <2>1. pc' \in {"fault", "align"} /\ UNCHANGED <<resync, retries, age, adjust>>
    BY <1>3 DEF SearchFound, syncVars
  <2> QED BY <1>3, <2>1 DEF SearchFound
<1>4. CASE SearchStopped BY <1>4 DEF SearchStopped, syncVars
<1>5. CASE Discard BY <1>5 DEF Discard, syncVars
<1>6. CASE Aligned BY <1>6 DEF Aligned
<1>7. CASE FrameEnds BY <1>7 DEF FrameEnds, syncVars
<1>8. CASE FrameQuiet
  <2>1. pc = "frame" /\ ~ Looks BY <1>8 DEF FrameQuiet, ReadBeacon
  <2>2. ~ resync
    <3>1. CASE Due BY <3>1, <2>1 DEF Due
    <3>2. CASE ~ Due BY <3>2, <2>1 DEF Looks
    <3> QED BY <3>1, <3>2
  <2>3. retries' = 0 /\ adjust' = 0 /\ resync' = FALSE /\ pc' = "transmit"
    BY <1>8, <2>2 DEF FrameQuiet
  <2> QED BY <2>3
<1>9. CASE FrameFound
  <2>1. pc = "frame" /\ Looks BY <1>9 DEF FrameFound, ReadBeacon
  <2>2. age' = (IF Due THEN 0 ELSE age) /\ resync' = FALSE /\ retries' = 0
        /\ pc' \in {"discard", "transmit"}
    BY <1>9 DEF FrameFound, ReadBeacon
  <2>3. age' + 1 < Period BY <2>1, <2>2, LooksWhole
  <2> QED BY <2>2, <2>3
<1>10. CASE FrameMiss
  <2>1. pc = "frame" /\ Looks BY <1>10 DEF FrameMiss, ReadBeacon
  <2>2. age' = (IF Due THEN 0 ELSE age) /\ adjust' = 0
    BY <1>10 DEF FrameMiss, ReadBeacon
  <2>3. \/ resync' = TRUE /\ retries' = retries + 1 /\ pc' = "transmit"
        \/ resync' = FALSE /\ retries' = 0 /\ pc' = "done"
    BY <1>10 DEF FrameMiss
  <2>4. age' = retries BY <2>1, <2>2, LooksWhole
  <2> QED BY <2>2, <2>3, <2>4
<1>11. CASE Discarded BY <1>11 DEF Discarded, syncVars
<1>12. CASE Transmit BY <1>12 DEF Transmit
<1>13. CASE ReadSlot BY <1>13 DEF ReadSlot
<1>14. CASE SlotFails BY <1>14 DEF SlotFails
<1>15. CASE NextFrame BY <1>15 DEF NextFrame
<1>16. CASE Drift BY <1>16 DEF Drift
<1>17. CASE StopRun BY <1>17 DEF StopRun, syncVars
<1>18. CASE UNCHANGED vars BY <1>18 DEF vars, syncVars
<1> QED BY <1>1, <1>2, <1>3, <1>4, <1>5, <1>6, <1>7, <1>8, <1>9, <1>10, <1>11,
           <1>12, <1>13, <1>14, <1>15, <1>16, <1>17, <1>18 DEF Next, Client

\* A read of n samples that is k short of what was due.
LEMMA AdvanceNear ==
  ASSUME NEW z \in Int, NEW y \in Int, NEW n \in Int, NEW k \in Nat, NEW s \in Nat,
         pos \in Int, Advance(n), y = z + n + k, Near(pos - z, s)
  PROVE  Near(pos' - y, s + k)
<1>1. pos' \in Int /\ Multiple(pos' - (pos + n))
  <2>1. pos + n \in Int /\ pos' = (pos + n) % FrameLen BY DEF Advance
  <2> QED BY <2>1, ModPosition
<1>2. Near((pos - z) + (-k), s + k) BY NearSlips, -k \in -k .. k, pos - z \in Int
<1>3. (pos' - y) - ((pos - z) + (-k)) = pos' - (pos + n) BY <1>1
<1>4. pos' - y \in Int /\ (pos - z) + (-k) \in Int /\ s + k \in Nat BY <1>1
<1> QED BY <1>1, <1>2, <1>3, <1>4, NearMoves

\* The clocks drift by one sample.
LEMMA DriftNear ==
  ASSUME NEW x \in Int, NEW z \in Int, NEW d \in {-1, 1}, NEW s \in Nat, NEW w,
         w = (x + d) % FrameLen, Near(x - z, s)
  PROVE  Near(w - z, s + 1)
<1>1. w \in Int /\ Multiple(w - (x + d))
  <2>1. x + d \in Int OBVIOUS
  <2> QED BY <2>1, ModPosition
<1>2. Near((x - z) + d, s + 1) BY NearSlips, d \in -1 .. 1, x - z \in Int
<1>3. (w - z) - ((x - z) + d) = w - (x + d) BY <1>1
<1>4. w - z \in Int /\ (x - z) + d \in Int /\ s + 1 \in Nat BY <1>1
<1> QED BY <1>1, <1>2, <1>3, <1>4, NearMoves

\* Where the beacon is seen, the frame starts.
LEMMA VisibleNear ==
  ASSUME NEW n \in Int, NEW o \in Visible(n), pos \in Int
  PROVE  o \in Int /\ Near(pos - (-o), 0) /\ (pos + o) % FrameLen = 0
<1>1. o \in Int /\ (pos + o) % FrameLen = 0 BY SyncAssumption DEF Visible
<1>2. Multiple((pos + o) - 0) BY <1>1, ModFrame, pos + o \in Int
<1>3. (pos - (-o)) - 0 = (pos + o) - 0 BY <1>1
<1>4. Near(pos - (-o), 0) BY <1>2, <1>3 DEF Near
<1> QED BY <1>1, <1>4

LEMMA InitAlign == Init => AlignInv
BY DEF Init, AlignInv, Counting, ReadsNear, TxNear, Tracked

\* The searches before the main loop end with reads that are aligned.
LEMMA SearchAlign ==
  ASSUME TypeInv, AlignInv, SearchFound \/ Discard \/ Aligned \/ Discarded
  PROVE  ReadsNear' /\ TxNear'
<1> USE SyncAssumption, FrameLenType DEF TypeInv, TypeOK, Bounds
<1>1. CASE SearchFound
  <2>1. PICK o \in Visible(Window) : left' = FrameLen - Window + o BY <1>1 DEF SearchFound
  <2>2. o \in Int /\ Near(pos - (-o), 0) BY <2>1, VisibleNear
  <2>3. pos \in Int /\ Advance(Window) /\ slack' = 0 /\ pc' \in {"fault", "align"}
    BY <1>1, <2>1 DEF SearchFound
  <2>4. -o \in Int /\ Window - o \in Int /\ Window \in Int /\ 0 \in Nat
        /\ Window - o = (-o) + Window + 0
    BY <2>2
  <2>5. Near(pos' - (Window - o), 0 + 0)
    <3> DEFINE z == -o
               y == Window - o
    <3>1. z \in Int /\ y \in Int /\ Window \in Int /\ 0 \in Nat /\ y = z + Window + 0
          /\ Near(pos - z, 0)
      BY <2>2, <2>4
    <3> HIDE DEF z, y
    <3>2. Near(pos' - y, 0 + 0) BY <3>1, <2>3, AdvanceNear
    <3> QED BY <3>2 DEF y
  <2>6. pos' \in Int
    <3>1. pos + Window \in Int /\ pos' = (pos + Window) % FrameLen BY <2>3 DEF Advance
    <3> QED BY <3>1, ModPosition
  <2>7. (pos' - (0 - left')) - (pos' - (Window - o)) = FrameLen
    <3> DEFINE p == pos'
               l == left'
               f == FrameLen
    <3>1. f \in Int /\ Window \in Int /\ p \in Int /\ o \in Int /\ l = f - Window + o
      BY <2>1, <2>2, <2>6
    <3> HIDE DEF p, l, f
    <3>2. (p - (0 - l)) - (p - (Window - o)) = f BY ONLY <3>1
    <3> QED BY <3>2 DEF p, l, f
  <2>8. left' \in Int /\ pos' - (0 - left') \in Int /\ pos' - (Window - o) \in Int
    BY <2>1, <2>2, <2>6
  <2>9. Near(pos' - (0 - left'), 0)
    BY <2>5, <2>7, <2>8, MultipleFrame, NearMoves, 0 + 0 = 0
  <2>10. pc' = "align" => Expected' = 0 - left' BY DEF Expected
  <2> QED BY <2>3, <2>9, <2>10 DEF ReadsNear, TxNear, Tracked
<1>2. CASE Discard
  <2>1. PICK n \in 1 .. left : Advance(n) /\ left' = left - n BY <1>2 DEF Discard
  <2>2. running /\ pc \in {"align", "discard"} /\ pc' = pc /\ slack' = slack
        /\ UNCHANGED <<base, carried, running>>
    BY <1>2 DEF Discard, syncVars
  <2>3. left \in Int /\ n \in Int /\ pos \in Int /\ slack \in Nat BY <1>2, <2>1 DEF NoUnexpectedAlignment
  <2>4. /\ Expected = (IF pc = "align" THEN 0 - left ELSE Slot - left)
        /\ Expected' = (IF pc = "align" THEN 0 - left' ELSE Slot - left')
    BY <2>2 DEF Expected
  <2>5. Expected \in Int /\ Expected' \in Int /\ Expected' = Expected + n + 0
    BY <2>1, <2>3, <2>4
  <2>6. Near(pos - Expected, slack) BY <2>2 DEF AlignInv, ReadsNear, Tracked
  <2>7. Near(pos' - Expected', slack + 0) BY <2>1, <2>3, <2>5, <2>6, AdvanceNear
  <2>8. ReadsNear' BY <2>2, <2>3, <2>7, slack + 0 = slack DEF ReadsNear
  <2>9. TxNear' BY <2>2 DEF AlignInv, TxNear
  <2> QED BY <2>8, <2>9
<1>3. CASE Aligned
  <2>1. SUFFICES ASSUME running' PROVE ReadsNear' /\ TxNear' BY DEF ReadsNear, TxNear
  <2>2. running /\ pc = "align" /\ left = 0 /\ adjust = 0 /\ adjust' = 0
        /\ pc' \in {"frame", "search"} /\ pos' = pos /\ slack' = slack
    BY <1>3, <2>1 DEF Aligned
  <2>3. Expected = 0
    <3>1. Expected = 0 - left BY <2>2 DEF Expected
    <3> QED BY <3>1, <2>2
  <2>4. pc' = "frame" => Expected' = 0 BY <2>2 DEF Expected
  <2> QED BY <2>2, <2>3, <2>4 DEF AlignInv, ReadsNear, TxNear, Tracked
<1>4. CASE Discarded
  <2>1. SUFFICES ASSUME running' PROVE ReadsNear' /\ TxNear' BY DEF ReadsNear, TxNear
  <2>2. running /\ pc = "discard" /\ left = 0 /\ adjust = 0 /\ adjust' = 0
        /\ pc' = "transmit" /\ pos' = pos /\ slack' = slack /\ UNCHANGED <<base, carried>>
    BY <1>4, <2>1 DEF Discarded, syncVars
  <2>3. Expected = Slot /\ Expected' = Slot BY <2>2 DEF Expected
  <2> QED BY <2>2, <2>3 DEF AlignInv, ReadsNear, TxNear, Tracked
<1> QED BY <1>1, <1>2, <1>3, <1>4

\* Slot 0 of a frame that does not find the beacon.
LEMMA UnseenAlign ==
  ASSUME TypeInv, AlignInv, NEW k \in 0 .. MaxSlip, ReadBeacon(k),
         slack' = slack + k, base' = pos, adjust' = 0, carried' = adjust,
         pc' \in {"transmit", "done"}
  PROVE  ReadsNear' /\ TxNear'
<1> USE SyncAssumption, FrameLenType DEF TypeInv, TypeOK
<1>1. pc = "frame" /\ running /\ Advance(Slot - adjust - k) BY DEF ReadBeacon
<1>2. Expected = adjust /\ (pc' = "transmit" => Expected' = Slot)
  BY <1>1 DEF Expected
<1>3. Near(pos - adjust, slack) BY <1>1, <1>2 DEF AlignInv, ReadsNear, Tracked
<1>4. /\ pos \in Int /\ adjust \in Int /\ Slot \in Int /\ k \in Nat /\ slack \in Nat
      /\ Slot - adjust - k \in Int /\ Slot = adjust + (Slot - adjust - k) + k
  OBVIOUS
<1>5. Near(pos' - Slot, slack + k) BY <1>1, <1>3, <1>4, AdvanceNear
<1>6. ReadsNear' BY <1>2, <1>5 DEF ReadsNear, Tracked
<1>7. pos - adjust \in Int /\ 0 \in -k .. k /\ (pos - adjust) + 0 = pos - adjust BY <1>4
<1>8. Near(pos - adjust, slack + k) BY <1>3, <1>4, <1>7, NearSlips
<1>9. TxNear' BY <1>8 DEF TxNear
<1> QED BY <1>6, <1>9

LEMMA FoundAlign ==
  ASSUME TypeInv, AlignInv, PeriodIsLong, FrameFound
  PROVE  ReadsNear' /\ TxNear'
<1> USE SyncAssumption, FrameLenType DEF TypeInv, TypeOK
<1>1. PICK k \in 0 .. MaxSlip : \E o \in Visible(Slot - adjust - k) : FrameFoundAt(k, o)
  BY DEF FrameFound, FrameFoundAt
<1>2. PICK o \in Visible(Slot - adjust - k) : FrameFoundAt(k, o) BY <1>1
<1>3. pc = "frame" /\ Looks /\ Advance(Slot - adjust - k)
  BY <1>2 DEF FrameFound, FrameFoundAt, ReadBeacon
<1>4. adjust = 0 BY <1>3, LooksWhole DEF AlignInv
<1>5. pos \in Int /\ Slot - adjust - k \in Int /\ k \in Nat OBVIOUS
<1>6. o \in Int /\ Near(pos - (-o), 0) /\ (pos + o) % FrameLen = 0
  BY <1>5, VisibleNear
<1>7. Near(pos' - (Slot - o), 0 + k)
  <2> DEFINE z == -o
             y == Slot - o
             n == Slot - adjust - k
  <2>1. /\ z \in Int /\ y \in Int /\ n \in Int /\ 0 \in Nat /\ y = z + n + k
        /\ Near(pos - z, 0) /\ Advance(n)
    BY <1>3, <1>4, <1>5, <1>6
  <2> HIDE DEF z, y, n
  <2>2. Near(pos' - y, 0 + k) BY <2>1, <1>5, AdvanceNear
  <2> QED BY <2>2 DEF y
<1>8. Expected' = Slot - o
  <2>1. /\ adjust' = IF o < 0 THEN -o ELSE 0
        /\ left' = IF o > 0 THEN o ELSE 0
        /\ pc' = IF o > 0 THEN "discard" ELSE "transmit"
    BY <1>2 DEF FrameFoundAt
  <2>2. CASE o > 0
    <3>1. pc' = "discard" /\ left' = o BY <2>1, <2>2
    <3> QED BY <3>1 DEF Expected
  <2>3. CASE o = 0
    <3>1. pc' = "transmit" /\ adjust' = 0 BY <2>1, <2>3
    <3>2. Expected' = Slot + adjust' BY <3>1 DEF Expected
    <3> QED BY <3>1, <3>2, <2>3
  <2>4. CASE o < 0
    <3>1. pc' = "transmit" /\ adjust' = -o BY <1>6, <2>1, <2>4
    <3>2. Expected' = Slot + adjust' BY <3>1 DEF Expected
    <3> QED BY <3>1, <3>2, <1>6
  <2> QED BY <1>6, <2>2, <2>3, <2>4
<1>9. slack' = k /\ base' = 0 /\ carried' = 0 BY <1>2, <1>6 DEF FrameFoundAt, FrameFound
<1>10. ReadsNear' BY <1>5, <1>7, <1>8, <1>9, 0 + k = k DEF ReadsNear
<1>11. Near(0, k) BY <1>5, MultipleFrame, 0 - 0 = 0 DEF Near
<1>12. TxNear' BY <1>9, <1>11, 0 - 0 = 0 DEF TxNear
<1> QED BY <1>10, <1>12

LEMMA RestAlign ==
  ASSUME TypeInv, AlignInv, Transmit \/ ReadSlot \/ NextFrame \/ Drift
  PROVE  ReadsNear' /\ TxNear'
<1> USE SyncAssumption, FrameLenType DEF TypeInv, TypeOK
<1>0. pos \in Int /\ adjust \in Int /\ Slot \in Int /\ slack \in Nat /\ slot \in Int
      /\ slot * Slot \in Int
  OBVIOUS
<1>1. CASE Transmit
  <2>1. pc = "transmit" /\ pc' = "slots" /\ slot' = 1
        /\ UNCHANGED <<running, pos, adjust, slack>>
    BY <1>1 DEF Transmit
  <2>2. Expected = Slot + adjust /\ Expected' = 1 * Slot + adjust BY <2>1 DEF Expected
  <2>3. Expected' = Expected BY <1>0, <2>2
  <2> QED BY <2>1, <2>3 DEF AlignInv, ReadsNear, TxNear, Tracked
<1>2. CASE ReadSlot
  <2>1. PICK k \in 0 .. MaxSlip :
          k < Slot /\ Slip(k) /\ Advance(Slot - k) /\ slack' = slack + k
    BY <1>2 DEF ReadSlot
  <2>2. pc = "slots" /\ pc' = "slots" /\ slot' = slot + 1 /\ UNCHANGED <<running, adjust>>
    BY <1>2 DEF ReadSlot
  <2>3. Expected = slot * Slot + adjust /\ Expected' = (slot + 1) * Slot + adjust
    BY <2>2 DEF Expected
  <2>4. (slot + 1) * Slot = slot * Slot + Slot BY <1>0
  <2>5. /\ Expected \in Int /\ Expected' \in Int /\ k \in Nat /\ Slot - k \in Int
        /\ Expected' = Expected + (Slot - k) + k
    BY <1>0, <2>3, <2>4
  <2>6. ReadsNear'
    <3>1. SUFFICES ASSUME running' PROVE Near(pos' - Expected', slack + k)
      BY <2>1 DEF ReadsNear
    <3>2. Near(pos - Expected, slack) BY <2>2, <3>1 DEF AlignInv, ReadsNear, Tracked
    <3> QED BY <1>0, <2>1, <2>5, <3>2, AdvanceNear
  <2> QED BY <2>2, <2>6 DEF TxNear
<1>3. CASE NextFrame
  <2>1. pc = "slots" /\ pc' = "frame" /\ slot = Slots /\ UNCHANGED <<running, pos, adjust, slack>>
    BY <1>3 DEF NextFrame
  <2>2. Expected = slot * Slot + adjust /\ Expected' = adjust BY <2>1 DEF Expected
  <2>3. Expected = FrameLen + adjust BY <2>1, <2>2
  <2>4. ReadsNear'
    <3>1. SUFFICES ASSUME running' PROVE Near(pos - adjust, slack)
      BY <2>1, <2>2 DEF ReadsNear
    <3>2. Near(pos - (FrameLen + adjust), slack)
      BY <2>1, <2>3, <3>1 DEF AlignInv, ReadsNear, Tracked
    <3>3. /\ pos - adjust \in Int /\ pos - (FrameLen + adjust) \in Int
          /\ (pos - adjust) - (pos - (FrameLen + adjust)) = FrameLen
      BY <1>0
    <3> QED BY <1>0, <3>2, <3>3, MultipleFrame, NearMoves
  <2> QED BY <2>1, <2>4 DEF TxNear
<1>4. CASE Drift
  <2>1. PICK d \in {-1, 1} :
          pos' = (pos + d) % FrameLen /\ base' = (base + d) % FrameLen
    BY <1>4 DEF Drift
  <2>2. slack' = slack + 1 /\ UNCHANGED <<pc, running, left, slot, adjust, carried>>
    BY <1>4 DEF Drift
  <2>3. ReadsNear'
    <3>1. SUFFICES ASSUME running', pc' \in Tracked PROVE Near(pos' - Expected', slack')
      BY DEF ReadsNear
    <3>2. Expected' = Expected BY <2>2, <3>1 DEF Expected, Tracked
    <3>3. Near(pos - Expected, slack) BY <2>2, <3>1 DEF AlignInv, ReadsNear
    <3>4. Expected \in Int
      <4>1. pc \in Tracked BY <2>2, <3>1
      <4>2. left \in Int BY <4>1 DEF Tracked
      <4> QED BY <4>1, <4>2, <1>0 DEF Expected, Tracked
    <3>5. Near(pos' - Expected, slack + 1) BY <1>0, <2>1, <3>3, <3>4, DriftNear
    <3> QED BY <2>2, <3>2, <3>5
  <2>4. TxNear'
    <3>1. SUFFICES ASSUME running', pc' \in {"discard", "transmit"}
                   PROVE  Near(base' - carried', slack')
      BY DEF TxNear
    <3>2. Near(base - carried, slack) BY <2>2, <3>1 DEF AlignInv, TxNear
    <3>3. base \in Int /\ carried \in Int OBVIOUS
    <3>4. Near(base' - carried, slack + 1) BY <1>0, <2>1, <3>2, <3>3, DriftNear
    <3> QED BY <2>2, <3>4
  <2> QED BY <2>3, <2>4
<1> QED BY <1>1, <1>2, <1>3, <1>4

LEMMA NextAlign ==
  ASSUME TypeInv, AlignInv, PeriodIsLong, [Next]_vars
  PROVE  AlignInv'
<1>1. Counting' BY NextCounting DEF AlignInv
<1>2. ReadsNear' /\ TxNear'
  <2>1. CASE SearchShort \/ SearchMiss
    BY <2>1 DEF SearchShort, SearchMiss, ReadsNear, TxNear, Tracked
  <2>2. CASE SearchStopped BY <2>2 DEF SearchStopped, ReadsNear, TxNear, Tracked
  <2>3. CASE SearchFound \/ Discard \/ Aligned \/ Discarded BY <2>3, SearchAlign
  <2>4. CASE FrameEnds BY <2>4 DEF FrameEnds, ReadsNear, TxNear
  <2>5. CASE FrameQuiet
    <3>1. PICK k \in 0 .. MaxSlip : ReadBeacon(k) /\ slack' = slack + k
      BY <2>5 DEF FrameQuiet
    <3> QED BY <2>5, <3>1, UnseenAlign DEF FrameQuiet
  <2>6. CASE FrameFound BY <2>6, FoundAlign
  <2>7. CASE FrameMiss
    <3>1. PICK k \in 0 .. MaxSlip : ReadBeacon(k) /\ slack' = slack + k
      BY <2>7 DEF FrameMiss
    <3>2. base' = pos /\ adjust' = 0 /\ carried' = adjust /\ pc' \in {"transmit", "done"}
      BY <2>7 DEF FrameMiss
    <3> QED BY <3>1, <3>2, UnseenAlign
  <2>8. CASE Transmit \/ ReadSlot \/ NextFrame \/ Drift BY <2>8, RestAlign
  <2>9. CASE SlotFails BY <2>9 DEF SlotFails, ReadsNear, TxNear
  <2>10. CASE StopRun BY <2>10 DEF StopRun, ReadsNear, TxNear
  <2>11. CASE UNCHANGED vars
    BY <2>11 DEF vars, syncVars, AlignInv, ReadsNear, TxNear, Expected
  <2> QED BY <2>1, <2>2, <2>3, <2>4, <2>5, <2>6, <2>7, <2>8, <2>9, <2>10, <2>11
          DEF Next, Client
<1> QED BY <1>1, <1>2 DEF AlignInv

LEMMA AlignImplies ==
  ASSUME TypeInv, AlignInv
  PROVE  ReadsAligned /\ TxAlignedButCarried
<1> USE SyncAssumption, FrameLenType DEF TypeInv, TypeOK
<1>1. ReadsAligned
  <2>1. SUFFICES ASSUME running PROVE Distance(pos - Expected) <= slack
    BY DEF ReadsAligned
  <2>2. CASE pc \in Tracked
    <3>1. Near(pos - Expected, slack) BY <2>1, <2>2 DEF AlignInv, ReadsNear
    <3>2. left \in Int BY <2>2 DEF Tracked
    <3>3. Expected \in Int BY <2>2, <3>2 DEF Expected, Tracked
    <3>4. pos - Expected \in Int /\ slack \in Nat BY <3>3
    <3> QED BY <3>1, <3>4, NearDistance
  <2>3. CASE pc \notin Tracked
    <3>1. Expected = pos BY <2>3 DEF Expected, Tracked
    <3>2. Near(0, slack) BY MultipleFrame, 0 - 0 = 0 DEF Near
    <3>3. pos - Expected = 0 BY <3>1
    <3> QED BY <3>2, <3>3, NearDistance
  <2> QED BY <2>2, <2>3
<1>2. TxAlignedButCarried
  <2>1. SUFFICES ASSUME running, pc = "transmit" PROVE Distance(base - carried) <= slack
    BY DEF TxAlignedButCarried
  <2>2. Near(base - carried, slack) BY <2>1 DEF AlignInv, TxNear
  <2>3. base - carried \in Int /\ slack \in Nat OBVIOUS
  <2> QED BY <2>2, <2>3, NearDistance
<1> QED BY <1>1, <1>2

\* When a period is longer than a search, every read starts where the frame of
\* the base station has it, up to the samples slipped since the beacon was
\* found (receiver.cc:936-956, 1035-1043, 1134-1210).
THEOREM ReadsStayAligned ==
  ASSUME PeriodIsLong
  PROVE  Spec => []ReadsAligned
<1>1. TypeInv /\ AlignInv /\ [Next]_vars => AlignInv' BY NextAlign, PeriodIsLong
<1>2. TypeInv /\ AlignInv => ReadsAligned BY AlignImplies
<1> QED BY <1>1, <1>2, InitType, NextType, InitAlign, PTL DEF Spec

\* Under the same condition the transmissions of a frame are timed from its
\* start, except by the late start that its slot 0 makes up for
\* (receiver.cc:983, 1019, 1064).
THEOREM TransmissionsAligned ==
  ASSUME PeriodIsLong
  PROVE  Spec => []TxAlignedButCarried
<1>1. TypeInv /\ AlignInv /\ [Next]_vars => AlignInv' BY NextAlign, PeriodIsLong
<1>2. TypeInv /\ AlignInv => TxAlignedButCarried BY AlignImplies
<1> QED BY <1>1, <1>2, InitType, NextType, InitAlign, PTL DEF Spec
=============================================================================
