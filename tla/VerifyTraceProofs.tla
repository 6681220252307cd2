------------------------- MODULE VerifyTraceProofs -------------------------
(***************************************************************************)
(* Proofs about VerifyTrace, for traces of any length, chunks of any size  *)
(* and every command line: the chunks cover the slice, the figures agree,  *)
(* received frames are compared with the frames that were sent, and the    *)
(* tool ends early for the listed reasons only.                            *)
(***************************************************************************)
EXTENDS VerifyTrace, SequenceTheorems, FiniteSetTheorems, TLAPS

Row == [frame : Int, shifted : BOOLEAN]

\* The arrays have a row for every frame of the slice, and a slice that is
\* looked at has frames.
ShapeInv ==
  /\ trace \in Traces /\ opt \in Options
  /\ frames \in Seq(Int) /\ asked \in Nat /\ ref \in Nat /\ chunk \in Nat
  /\ rows \in [1 .. N -> Row] /\ factors \in [1 .. N -> Int]
  /\ phase \in {"pilots", "deep", "samples", "calib", "factors", "csi", "show"} => N > 0

\* An estimate is of its own frame.
RowRight(k) ==
  /\ rows[k].frame = frames[k]
  /\ \/ rows[k].shifted = trace.shifted
     \/ k <= ChunkSize /\ N > ChunkSize

\* What the loops over the chunks have done before the chunk at hand.
LoopInv ==
  /\ phase \in {"open", "pilots", "deep", "samples", "factors"} => chunk = 0
  /\ phase = "calib" =>
       /\ chunk * ChunkSize < N
       /\ \A k \in 1 .. N : k <= chunk * ChunkSize => factors[k] = frames[k]
  /\ phase = "factors" => factors = frames
  /\ phase \in {"csi", "show"} => (trace.calib => factors = frames)
  /\ phase = "csi" /\ chunk > 0 =>
       /\ N > ChunkSize /\ chunk <= Full
       /\ \A k \in 1 .. N : k <= chunk * ChunkSize => RowRight(k)
  /\ phase = "show" => \A k \in 1 .. N : RowRight(k)

\* The reference frame of the pilots is the frame asked for, or none.
RefInv ==
  /\ phase \in {"deep", "samples", "calib", "factors", "csi", "show", "analyze", "uplink",
                "downlink"} =>
       ref <= N /\ (ref < N => ref = asked)
  /\ phase \in {"calib", "factors", "analyze", "uplink", "downlink"} => ref < N
  /\ phase = "open" => shown = {}
  /\ opt.start = 0 => \A s \in shown : s.frame = asked

-----------------------------------------------------------------------------
(* Arithmetic *)

LEMMA MinOfTwo ==
  ASSUME NEW a \in Int, NEW b \in Int
  PROVE  /\ Min({a, b}) \in {a, b} /\ Min({a, b}) <= a /\ Min({a, b}) <= b
         /\ Min({a, b}) = IF a <= b THEN a ELSE b
<1>1. \E x \in {a, b} : \A y \in {a, b} : x <= y
  OBVIOUS
<1>2. Min({a, b}) \in {a, b} /\ \A y \in {a, b} : Min({a, b}) <= y
  BY <1>1 DEF Min
<1>3. QED
  BY <1>2

LEMMA MinOfOne == ASSUME NEW b \in Int PROVE Min({b}) = b /\ Max({b}) = b
<1>1. \E x \in {b} : \A y \in {b} : x <= y /\ x >= y
  OBVIOUS
<1>2. Min({b}) \in {b} /\ Max({b}) \in {b}
  BY <1>1 DEF Min, Max
<1>3. QED
  BY <1>2

LEMMA DivMod ==
  ASSUME NEW x \in Nat, NEW c \in Nat \ {0}
  PROVE  x = (x \div c) * c + (x % c)
  OBVIOUS

LEMMA Chunks ==
  ASSUME NEW n \in Nat, NEW c \in Nat
  PROVE  /\ n \div ChunkSize \in Nat
         /\ (n \div ChunkSize) * ChunkSize <= n
         /\ n < (n \div ChunkSize) * ChunkSize + ChunkSize
         /\ c * ChunkSize \in Nat
         /\ (c + 1) * ChunkSize = c * ChunkSize + ChunkSize
         /\ c <= n \div ChunkSize => c * ChunkSize <= (n \div ChunkSize) * ChunkSize
         /\ n > ChunkSize => 1 <= n \div ChunkSize
<1>1. ChunkSize \in Nat \ {0}
  BY VerifyAssumption
<1> DEFINE q == n \div ChunkSize
<1>2. q \in Nat /\ q * ChunkSize <= n /\ n < (q + 1) * ChunkSize
  BY <1>1
<1>3. (q + 1) * ChunkSize = q * ChunkSize + ChunkSize /\ (c + 1) * ChunkSize = c * ChunkSize + ChunkSize
  BY <1>1, <1>2
<1>4. c <= q => c * ChunkSize <= q * ChunkSize
  BY <1>1, <1>2
<1>5. n > ChunkSize => 1 <= q
  <2>1. SUFFICES ASSUME q = 0, n > ChunkSize PROVE FALSE
    BY <1>2
  <2>2. q * ChunkSize = 0
    BY <2>1, <1>1
  <2>3. QED
    BY <2>1, <2>2, <1>1, <1>2, <1>3
<1>6. c * ChunkSize \in Nat
  BY <1>1
<1>7. QED
  BY <1>2, <1>3, <1>4, <1>5, <1>6

\* The slice is a sequence of frames.
LEMMA SliceIsSeq ==
  ASSUME trace \in Traces, opt \in Options
  PROVE  Slice \in Seq(Int)
<1>1. /\ trace.frames \in Nat /\ opt.n \in Nat /\ opt.start \in Nat
      /\ opt.step \in Nat \ {0}
  BY VerifyAssumption
<1> DEFINE x == Min({trace.frames, opt.start + opt.n}) - opt.start + opt.step - 1
           count == IF opt.start < trace.frames THEN x \div opt.step ELSE 0
<1>2. ASSUME opt.start < trace.frames PROVE x \in Nat
  <2>1. /\ opt.start + opt.n \in Int /\ trace.frames \in Int
    BY <1>1
  <2>2. Min({trace.frames, opt.start + opt.n}) \in {trace.frames, opt.start + opt.n}
    BY <2>1, MinOfTwo
  <2>3. QED
    BY <1>1, <1>2, <2>2
<1>3. count \in Nat
  BY <1>1, <1>2
<1>4. [k \in 1 .. trace.frames |-> k - 1] \in Seq(Int)
  BY <1>1, SeqDef
<1>5. [k \in 1 .. count |-> opt.start + (k - 1) * opt.step] \in Seq(Int)
  <2> HIDE DEF count
  <2>1. \A k \in 1 .. count : opt.start + (k - 1) * opt.step \in Int
    BY <1>1, <1>3
  <2>2. [k \in 1 .. count |-> opt.start + (k - 1) * opt.step] \in [1 .. count -> Int]
    BY <2>1
  <2>3. QED
    BY <2>2, <1>3, SeqDef
<1>6. QED
  BY <1>4, <1>5 DEF Slice

LEMMA FramesShape ==
  ASSUME ShapeInv
  PROVE  /\ N \in Nat /\ frames \in [1 .. N -> Int] /\ DOMAIN frames = 1 .. N
         /\ ChunkSize \in Nat \ {0}
  BY VerifyAssumption, LenProperties DEF ShapeInv, N

\* The rows a call of samps2csi fills.
LEMMA EstimateRows ==
  ASSUME ShapeInv, NEW a \in Nat, NEW b \in Nat, NEW s \in BOOLEAN, Estimate(a, b, s)
  PROVE  /\ rows' \in [1 .. N -> Row]
         /\ \A k \in 1 .. N : k <= a => rows'[k] = rows[k]
         /\ \A k \in 1 .. N : a < k /\ k <= b =>
              rows'[k].frame = frames[k] /\ rows'[k].shifted = s
<1>1. /\ N \in Nat /\ rows \in [1 .. N -> Row] /\ frames \in [1 .. N -> Int]
  BY FramesShape DEF ShapeInv
<1>2. rows' = [k \in 1 .. N |-> IF k - 1 \in a .. b - 1
                                THEN [frame |-> frames[k], shifted |-> s] ELSE rows[k]]
  BY <1>1 DEF Estimate
<1>3. rows' \in [1 .. N -> Row]
  BY <1>1, <1>2 DEF Row
<1>4. \A k \in 1 .. N : k <= a => rows'[k] = rows[k]
  BY <1>1, <1>2
<1>5. \A k \in 1 .. N : a < k /\ k <= b =>
        rows'[k].frame = frames[k] /\ rows'[k].shifted = s
  BY <1>1, <1>2
<1>6. QED
  BY <1>3, <1>4, <1>5
-----------------------------------------------------------------------------
(* Steps *)

LEMMA InitInv == Init => ShapeInv /\ LoopInv /\ RefInv
<1> SUFFICES ASSUME Init PROVE ShapeInv /\ LoopInv /\ RefInv
  OBVIOUS
<1>1. frames \in Seq(Int) /\ N = 0
  BY EmptySeq DEF Init, N
<1>2. rows \in [1 .. N -> Row] /\ factors \in [1 .. N -> Int]
  <2>1. \A S : <<>> \in [1 .. 0 -> S]
    OBVIOUS
  <2>2. QED
    BY <1>1, <2>1 DEF Init
<1>3. ShapeInv
  BY <1>1, <1>2 DEF Init, ShapeInv
<1>4. QED
  BY <1>3 DEF Init, LoopInv, RefInv

LEMMA OpenStep ==
  ASSUME ShapeInv, LoopInv, RefInv, Open
  PROVE  ShapeInv' /\ LoopInv' /\ RefInv'
<1>1. frames' \in Seq(Int) /\ Len(frames') \in Nat /\ Len(frames') = Len(Slice)
  BY SliceIsSeq, LenProperties DEF Open, ShapeInv
<1>2. rows' \in [1 .. N' -> Row] /\ factors' \in [1 .. N' -> Int]
  BY <1>1 DEF Open, N, Nothing, Row
<1>3. asked' \in Nat
  BY VerifyAssumption DEF Open, ShapeInv
<1>4. phase' = "pilots" => N' > 0
  <2>1. phase' = "pilots" => frames' # <<>>
    BY DEF Open, Goto
  <2>2. QED
    BY <1>1, <2>1, EmptySeq DEF N
<1>5. phase' \in {"pilots", "end"}
  BY DEF Open, Goto
<1>6. ShapeInv'
  BY <1>1, <1>2, <1>3, <1>4, <1>5 DEF Open, ShapeInv
<1>7. LoopInv' /\ RefInv'
  <2>1. RefInv'
    <3>1. shown' = {}
      BY DEF Open, RefInv
    <3>2. QED
      BY <1>5, <3>1 DEF RefInv
  <2>2. LoopInv'
    BY <1>5 DEF Open, LoopInv
  <2>3. QED
    BY <2>1, <2>2
<1>8. QED
  BY <1>6, <1>7

LEMMA PilotsStep ==
  ASSUME ShapeInv, LoopInv, RefInv, Pilots
  PROVE  ShapeInv' /\ LoopInv' /\ RefInv'
<1>1. N \in Nat /\ asked \in Nat /\ ref' = Min({asked, N})
  BY FramesShape DEF ShapeInv, Pilots
<1>2. ref' \in Nat /\ ref' <= N /\ (ref' < N => ref' = asked)
  BY <1>1, MinOfTwo
<1>3. phase' \in {"end", "stopped", "deep"} /\ N' = N
  BY DEF Pilots, Goto, Stop, N
<1>4. ShapeInv'
  BY <1>2, <1>3 DEF Pilots, ShapeInv
<1>5. LoopInv' /\ RefInv'
  BY <1>2, <1>3 DEF Pilots, LoopInv, RefInv
<1>6. QED
  BY <1>4, <1>5

LEMMA DeepStep ==
  ASSUME ShapeInv, LoopInv, RefInv, Deep
  PROVE  ShapeInv' /\ LoopInv' /\ RefInv'
<1>1. /\ phase' \in {"stopped", "samples", "csi"} /\ (phase' = "csi" => ~trace.calib)
      /\ N' = N /\ N \in Nat /\ N > 0 /\ chunk = 0
      /\ ref \in Nat /\ ref <= N /\ (ref < N => ref = asked)
  BY FramesShape, VerifyAssumption DEF Deep, Goto, Stop, N, ShapeInv, LoopInv, RefInv
<1>2. ShapeInv'
  BY <1>1 DEF Deep, ShapeInv
<1>3. LoopInv'
  BY <1>1, FramesShape DEF Deep, LoopInv
<1>4. opt.start = 0 => \A s \in shown' : s.frame = asked
  BY <1>1 DEF Deep, Show, RefInv
<1>5. QED
  BY <1>1, <1>2, <1>3, <1>4 DEF Deep, RefInv

\* The samples of a calibration and its factors are those of the reference frame.
LEMMA SamplesStep ==
  ASSUME ShapeInv, LoopInv, RefInv, Samples
  PROVE  ShapeInv' /\ LoopInv' /\ RefInv'
<1>1. /\ UNCHANGED <<trace, opt, frames, asked, ref, chunk, rows, factors>> /\ N' = N
      /\ phase = "samples" /\ phase' \in {"stopped", "calib"}
      /\ N \in Nat /\ N > 0 /\ chunk = 0 /\ ChunkSize \in Nat
      /\ ref \in Nat /\ ref <= N /\ (ref < N => ref = asked)
  BY FramesShape DEF Samples, Goto, Stop, N, ShapeInv, LoopInv, RefInv
<1>2. phase' = "calib" => ref < N
  BY <1>1 DEF Samples, Stop
<1>3. ShapeInv'
  BY <1>1 DEF ShapeInv
<1>4. LoopInv'
  BY <1>1, FramesShape DEF LoopInv
<1>5. opt.start = 0 => \A s \in shown' : s.frame = asked
  BY <1>1 DEF Samples, Show, RefInv
<1>6. QED
  BY <1>1, <1>2, <1>3, <1>4, <1>5 DEF RefInv

LEMMA FactorsStep ==
  ASSUME ShapeInv, LoopInv, RefInv, ShowFactors
  PROVE  ShapeInv' /\ LoopInv' /\ RefInv'
<1>1. /\ UNCHANGED <<trace, opt, frames, asked, ref, chunk, rows, factors>> /\ N' = N
      /\ phase = "factors" /\ phase' \in {"stopped", "csi"}
      /\ N \in Nat /\ N > 0 /\ chunk = 0 /\ factors = frames
      /\ ref \in Nat /\ ref < N /\ ref = asked
  BY FramesShape DEF ShowFactors, Goto, Stop, N, ShapeInv, LoopInv, RefInv
<1>2. ShapeInv'
  BY <1>1 DEF ShapeInv
<1>3. LoopInv'
  BY <1>1 DEF LoopInv
<1>4. opt.start = 0 => \A s \in shown' : s.frame = asked
  BY <1>1 DEF ShowFactors, Show, RefInv
<1>5. QED
  BY <1>1, <1>2, <1>3, <1>4 DEF RefInv

\* A step of the loops over the chunks of the estimates: its rows are those of
\* the chunk, and the ones before it stay.
LEMMA CsiStep ==
  ASSUME ShapeInv, LoopInv, RefInv, CsiFirst \/ CsiNext \/ CsiRest
  PROVE  ShapeInv' /\ LoopInv' /\ RefInv'
<1>1. /\ N \in Nat /\ N > 0 /\ ChunkSize \in Nat \ {0} /\ phase = "csi" /\ chunk \in Nat
      /\ trace.calib => factors = frames
      /\ trace.shifted \in BOOLEAN
      /\ rows \in [1 .. N -> Row]
  BY FramesShape, VerifyAssumption DEF ShapeInv, LoopInv, CsiFirst, CsiNext, CsiRest
<1>2. /\ UNCHANGED <<trace, opt, frames, asked, ref, factors, shown>> /\ N' = N /\ Full' = Full
      /\ phase' \in {"csi", "show", "stopped"}
  BY DEF CsiFirst, CsiNext, CsiRest, CsiKeeps, Goto, Stop, N, Full
<1>3. /\ Full \in Nat /\ Full * ChunkSize <= N /\ N < Full * ChunkSize + ChunkSize
      /\ N > ChunkSize => 1 <= Full
      /\ chunk * ChunkSize \in Nat /\ (chunk + 1) * ChunkSize = chunk * ChunkSize + ChunkSize
      /\ Full * ChunkSize \in Nat
  BY <1>1, Chunks DEF Full
<1>4. RefInv'
  BY <1>1, <1>2 DEF RefInv
<1>5. SUFFICES ASSUME TRUE
               PROVE  /\ chunk' \in Nat /\ rows' \in [1 .. N -> Row]
                      /\ phase' = "csi" /\ chunk' > 0 =>
                           /\ N > ChunkSize /\ chunk' <= Full
                           /\ \A k \in 1 .. N : k <= chunk' * ChunkSize => RowRight(k)'
                      /\ phase' = "show" => \A k \in 1 .. N : RowRight(k)'
  <2>1. ShapeInv'
    BY <1>1, <1>2, <1>5 DEF ShapeInv
  <2>2. LoopInv'
    BY <1>1, <1>2, <1>5 DEF LoopInv
  <2>3. QED
    BY <1>4, <2>1, <2>2
<1>6. \A k \in 1 .. N : rows'[k] = rows[k] => (RowRight(k)' <=> RowRight(k))
  BY <1>2 DEF RowRight
<1>7. \A k \in 1 .. N :
        rows'[k].frame = frames[k] /\ rows'[k].shifted = trace.shifted => RowRight(k)'
  <2>1. frames' = frames /\ trace' = trace
    BY <1>2
  <2>2. SUFFICES ASSUME NEW k \in 1 .. N, rows'[k].frame = frames[k],
                        rows'[k].shifted = trace.shifted
                 PROVE  RowRight(k)'
    OBVIOUS
  <2>3. rows'[k].frame = frames'[k] /\ rows'[k].shifted = trace'.shifted
    BY <2>1, <2>2
  <2>4. QED
    BY <2>3 DEF RowRight
<1>8. CASE CsiFirst
  <2>1. CASE ~Fits(Offset)
    BY <2>1, <1>1, <1>8 DEF CsiFirst, Stop
  <2>2. CASE Fits(Offset) /\ N <= ChunkSize
    <3>1. Estimate(0, N, trace.shifted) /\ chunk' = 0 /\ phase' = "show"
      BY <2>2, <1>8 DEF CsiFirst, Goto
    <3>2. /\ rows' \in [1 .. N -> Row]
          /\ \A k \in 1 .. N : rows'[k].frame = frames[k] /\ rows'[k].shifted = trace.shifted
      BY <3>1, <1>1, EstimateRows
    <3>3. \A k \in 1 .. N : RowRight(k)'
      BY <3>2, <1>7
    <3>4. QED
      BY <3>1, <3>2, <3>3, <1>1
  <2>3. CASE Fits(Offset) /\ ~(N <= ChunkSize)
    <3>1. Estimate(0, ChunkSize, TRUE) /\ chunk' = 1 /\ phase' = "csi"
      BY <2>3, <1>8 DEF CsiFirst, Goto
    <3>2. /\ rows' \in [1 .. N -> Row]
          /\ \A k \in 1 .. N : k <= ChunkSize => rows'[k].frame = frames[k]
      <4>1. 0 \in Nat /\ ChunkSize \in Nat /\ TRUE \in BOOLEAN
        BY <1>1
      <4>2. /\ rows' \in [1 .. N -> Row]
            /\ \A k \in 1 .. N : 0 < k /\ k <= ChunkSize => rows'[k].frame = frames[k]
        BY <3>1, <4>1, EstimateRows, Zenon
      <4>3. QED
        BY <4>2, <1>1
    <3>3. 1 * ChunkSize = ChunkSize
      BY <1>1
    <3>4. \A k \in 1 .. N : k <= ChunkSize => RowRight(k)'
      BY <2>3, <3>2, <1>1, <1>2 DEF RowRight
    <3>5. QED
      BY <2>3, <3>1, <3>2, <3>3, <3>4, <1>1, <1>3
  <2>4. QED
    BY <2>1, <2>2, <2>3
<1>9. CASE CsiNext
  <2>1. /\ chunk > 0 /\ chunk + 1 <= Full /\ chunk' = chunk + 1 /\ phase' = "csi"
        /\ Estimate(chunk * ChunkSize, chunk * ChunkSize + ChunkSize, trace.shifted)
    BY <1>9, <1>1, <1>3 DEF CsiNext, Goto
  <2>2. /\ rows' \in [1 .. N -> Row]
        /\ \A k \in 1 .. N : k <= chunk * ChunkSize => rows'[k] = rows[k]
        /\ \A k \in 1 .. N : chunk * ChunkSize < k /\ k <= chunk * ChunkSize + ChunkSize =>
             rows'[k].frame = frames[k] /\ rows'[k].shifted = trace.shifted
    <3>1. chunk * ChunkSize + ChunkSize \in Nat
      BY <1>1, <1>3
    <3>2. QED
      BY <2>1, <3>1, <1>1, <1>3, EstimateRows
  <2>3. N > ChunkSize /\ \A k \in 1 .. N : k <= chunk * ChunkSize => RowRight(k)
    BY <2>1, <1>1 DEF LoopInv
  <2>4. \A k \in 1 .. N : k <= chunk' * ChunkSize => RowRight(k)'
    <3>1. SUFFICES ASSUME NEW k \in 1 .. N, k <= chunk * ChunkSize + ChunkSize PROVE RowRight(k)'
      BY <2>1, <1>3
    <3>2. CASE k <= chunk * ChunkSize
      BY <3>2, <2>2, <2>3, <1>6
    <3>3. CASE chunk * ChunkSize < k
      BY <3>1, <3>3, <2>2, <1>7
    <3>4. QED
      BY <3>2, <3>3, <1>1, <1>3
  <2>5. QED
    BY <2>1, <2>2, <2>3, <2>4, <1>1
<1>10. CASE CsiRest
  <2>1. /\ chunk > 0 /\ chunk >= Full /\ chunk' = 0 /\ phase' = "show"
    BY <1>10 DEF CsiRest, Goto
  <2>2. N > ChunkSize /\ chunk = Full /\ \A k \in 1 .. N : k <= Full * ChunkSize => RowRight(k)
    BY <2>1, <1>1, <1>3 DEF LoopInv
  <2>3. CASE N > Full * ChunkSize
    <3>1. Estimate(Full * ChunkSize, N, trace.shifted)
      BY <2>3, <1>10 DEF CsiRest
    <3>2. /\ rows' \in [1 .. N -> Row]
          /\ \A k \in 1 .. N : k <= Full * ChunkSize => rows'[k] = rows[k]
          /\ \A k \in 1 .. N : Full * ChunkSize < k =>
               rows'[k].frame = frames[k] /\ rows'[k].shifted = trace.shifted
      BY <3>1, <1>1, <1>3, EstimateRows
    <3>3. ASSUME NEW k \in 1 .. N PROVE RowRight(k)'
      <4>1. CASE k <= Full * ChunkSize
        BY <4>1, <3>2, <2>2, <1>6
      <4>2. CASE Full * ChunkSize < k
        BY <4>2, <3>2, <1>7
      <4>3. QED
        BY <4>1, <4>2, <1>1, <1>3
    <3>4. QED
      BY <2>1, <3>2, <3>3
  <2>4. CASE ~(N > Full * ChunkSize)
    <3>1. rows' = rows
      BY <2>4, <1>10 DEF CsiRest
    <3>2. ASSUME NEW k \in 1 .. N PROVE RowRight(k)'
      BY <3>1, <2>2, <2>4, <1>1, <1>3, <1>6
    <3>3. QED
      BY <2>1, <3>1, <3>2, <1>1
  <2>5. QED
    BY <2>3, <2>4
<1>11. QED
  BY <1>8, <1>9, <1>10

\* The calibration has chunks of its own; the last one is cut at the end.
LEMMA CalibrateStep ==
  ASSUME ShapeInv, LoopInv, RefInv, Calibrate
  PROVE  ShapeInv' /\ LoopInv' /\ RefInv'
<1> DEFINE start == chunk * ChunkSize
           stop  == Min({start + ChunkSize, N})
<1>1. /\ N \in Nat /\ N > 0 /\ ChunkSize \in Nat \ {0} /\ phase = "calib" /\ chunk \in Nat
      /\ frames \in [1 .. N -> Int] /\ factors \in [1 .. N -> Int]
      /\ frames \in Seq(Int) /\ asked \in Nat /\ ref \in Nat
      /\ rows \in [1 .. N -> Row] /\ start < N
      /\ \A k \in 1 .. N : k <= start => factors[k] = frames[k]
  BY FramesShape DEF ShapeInv, LoopInv, Calibrate
<1>2. /\ UNCHANGED <<trace, opt, frames, asked, ref, rows, shown>> /\ N' = N
      /\ phase' \in {"stopped", "factors", "calib"}
  BY DEF Calibrate, Goto, Stop, N
<1>3. /\ start \in Nat /\ (chunk + 1) * ChunkSize = start + ChunkSize
  BY <1>1, Chunks
<1>4. stop = IF start + ChunkSize <= N THEN start + ChunkSize ELSE N
  <2>1. start + ChunkSize \in Int /\ N \in Int
    BY <1>1, <1>3
  <2>2. QED
    BY <2>1, MinOfTwo
<1>5. RefInv'
  BY <1>1, <1>2 DEF RefInv
<1>6. CASE phase' = "stopped"
  <2>1. UNCHANGED <<chunk, factors>>
    BY <1>6 DEF Calibrate, Goto
  <2>2. QED
    BY <1>1, <1>2, <1>5, <1>6, <2>1 DEF ShapeInv, LoopInv
<1>7. CASE phase' # "stopped"
  <2>1. /\ factors' = [k \in DOMAIN factors |-> IF k - 1 \in start .. stop - 1
                                                 THEN frames[k] ELSE factors[k]]
        /\ \/ stop = N /\ chunk' = 0 /\ phase' = "factors"
           \/ stop # N /\ chunk' = chunk + 1 /\ phase' = "calib"
    BY <1>7 DEF Calibrate, Goto, Stop
  <2>2. /\ factors' \in [1 .. N -> Int]
        /\ \A k \in 1 .. N : k <= stop => factors'[k] = frames[k]
    <3>1. DOMAIN factors = 1 .. N /\ stop \in Nat
      BY <1>1, <1>3, <1>4
    <3> HIDE DEF start, stop
    <3>2. factors' = [k \in 1 .. N |-> IF k - 1 \in start .. stop - 1
                                       THEN frames[k] ELSE factors[k]]
      BY <2>1, <3>1
    <3>3. \A k \in 1 .. N : frames[k] \in Int /\ factors[k] \in Int
      BY <1>1
    <3>4. factors' \in [1 .. N -> Int]
      BY <3>2, <3>3
    <3>5. \A k \in 1 .. N : k <= stop => factors'[k] = frames[k]
      BY <1>1, <1>3, <3>1, <3>2
    <3>6. QED
      BY <3>4, <3>5
  <2>3. chunk' \in Nat
    BY <2>1, <1>1
  <2>4. ShapeInv'
    BY <1>1, <1>2, <2>2, <2>3 DEF ShapeInv
  <2>5. CASE stop = N
    <3>1. chunk' = 0 /\ phase' = "factors"
      BY <2>1, <2>5
    <3>2. factors' = frames
      <4>1. \A k \in 1 .. N : factors'[k] = frames[k]
        BY <2>2, <2>5, <1>1
      <4>2. QED
        BY <4>1, <2>2, <1>1
    <3>3. LoopInv'
      BY <1>2, <3>1, <3>2 DEF LoopInv
    <3>4. QED
      BY <1>5, <2>4, <3>3
  <2>6. CASE stop # N
    <3>1. chunk' = chunk + 1 /\ phase' = "calib"
      BY <2>1, <2>6
    <3>2. stop = start + ChunkSize /\ stop < N /\ chunk' * ChunkSize = stop
      BY <3>1, <2>6, <1>1, <1>3, <1>4
    <3>3. LoopInv'
      <4>1. \A k \in 1 .. N' : k <= chunk' * ChunkSize => factors'[k] = frames'[k]
        BY <1>2, <2>2, <3>2
      <4>2. QED
        BY <1>2, <3>1, <3>2, <4>1 DEF LoopInv
    <3>4. QED
      BY <1>5, <2>4, <3>3
  <2>7. QED
    BY <2>5, <2>6
<1>8. QED
  BY <1>6, <1>7

\* The figures of the pilots and the rates show the reference frame, uplink
\* data the frame asked for; both are the same.
LEMMA FigureStep ==
  ASSUME ShapeInv, LoopInv, RefInv, ShowPilots \/ Analyze \/ Uplink
  PROVE  ShapeInv' /\ LoopInv' /\ RefInv'
<1>1. /\ UNCHANGED <<trace, opt, frames, asked, ref, chunk, rows, factors>> /\ N' = N
      /\ phase \in {"show", "analyze", "uplink"}
      /\ phase' \in {"stopped", "analyze", "uplink", "downlink"}
  BY DEF ShowPilots, Analyze, Uplink, Goto, Stop, N
<1>2. /\ N \in Nat /\ ref \in Nat /\ ref <= N /\ (ref < N => ref = asked)
      /\ phase # "show" => ref < N
  BY <1>1, FramesShape DEF ShapeInv, RefInv
<1>3. phase' # "stopped" => ref < N
  <2>1. CASE phase = "show"
    <3>1. ref = N => phase' = "stopped"
      BY <2>1 DEF ShowPilots, Analyze, Uplink, Stop
    <3>2. QED
      BY <3>1, <1>2
  <2>2. CASE phase # "show"
    BY <2>2, <1>2
  <2>3. QED
    BY <2>1, <2>2
<1>4. opt.start = 0 => \A s \in shown' : s.frame = asked
  <2>1. \A s \in shown' : s \in shown \/ s.frame = asked
    <3>1. CASE ShowPilots
      BY <3>1, <1>2 DEF ShowPilots, Show
    <3>2. CASE Analyze
      <4>1. ref = asked
        BY <3>2, <1>2 DEF Analyze
      <4>2. QED
        BY <3>2, <4>1 DEF Analyze, Show
    <3>3. CASE Uplink
      <4>1. UNCHANGED shown \/ shown' = shown \cup {Show("uplink", "uplink", asked)}
        BY <3>3 DEF Uplink
      <4>2. QED
        BY <4>1 DEF Show
    <3>4. QED
      BY <3>1, <3>2, <3>3
  <2>2. QED
    BY <2>1 DEF RefInv
<1>5. ShapeInv' /\ LoopInv'
  BY <1>1 DEF ShapeInv, LoopInv
<1>6. RefInv'
  BY <1>1, <1>2, <1>3, <1>4 DEF RefInv
<1>7. QED
  BY <1>5, <1>6

LEMMA DownlinkStep ==
  ASSUME ShapeInv, LoopInv, RefInv, Downlink
  PROVE  ShapeInv' /\ LoopInv' /\ RefInv'
<1>1. /\ UNCHANGED <<trace, opt, frames, asked, ref, chunk, rows, factors>> /\ N' = N
      /\ phase' \in {"stopped", "end"} /\ phase = "downlink"
  BY DEF Downlink, Goto, Stop, N
<1>2. /\ N \in Nat /\ asked \in Nat /\ asked < N
  BY <1>1, FramesShape DEF ShapeInv, RefInv
<1>3. ASSUME opt.start = 0, NEW s \in shown' PROVE s.frame = asked
  <2>1. DownlinkRef = asked
    <3>1. asked \in Int /\ N \in Int /\ asked <= N
      BY <1>2
    <3>2. Min({asked, N}) = asked
      BY <3>1, MinOfTwo
    <3>3. asked - opt.start = asked
      BY <1>2, <1>3
    <3>4. QED
      BY <3>2, <3>3 DEF DownlinkRef
  <2>2. DownlinkRef % N = asked
    BY <2>1, <1>2
  <2>3. s \in shown \/ s = Show("downlink", "downlink", DownlinkRef % N)
    BY <1>3 DEF Downlink
  <2>4. QED
    BY <1>3, <2>2, <2>3 DEF Show, RefInv
<1>4. ShapeInv' /\ LoopInv'
  BY <1>1 DEF ShapeInv, LoopInv
<1>5. RefInv'
  BY <1>1, <1>3 DEF RefInv
<1>6. QED
  BY <1>4, <1>5

LEMMA Step ==
  ShapeInv /\ LoopInv /\ RefInv /\ [Next]_vars => ShapeInv' /\ LoopInv' /\ RefInv'
<1> SUFFICES ASSUME ShapeInv, LoopInv, RefInv, [Next]_vars
             PROVE  ShapeInv' /\ LoopInv' /\ RefInv'
  OBVIOUS
<1>1. CASE UNCHANGED vars
  BY <1>1 DEF vars, ShapeInv, LoopInv, RefInv, RowRight, Row, N, Full
<1>2. CASE Next
  BY <1>2, OpenStep, PilotsStep, DeepStep, CsiStep, SamplesStep, CalibrateStep, FactorsStep,
     FigureStep, DownlinkStep DEF Next
<1>3. QED
  BY <1>1, <1>2
-----------------------------------------------------------------------------
(* Received and sent data *)

\* What is done once the clients' first frames are found.
Looking(p) ==
  p \in {"deep", "samples", "calib", "factors", "csi", "show", "analyze", "uplink"}

\* Without gaps the slice is a run of frames; the clients' first frames are
\* those found in it; data is compared at the end of the tool only.
PairInv ==
  /\ opt.step = 1 => \A k \in 1 .. N : frames[k] = frames[1] + (k - 1)
  /\ phase \in {"open", "pilots"} =>
       pairs = {} /\ DOMAIN begins = 0 .. num_cl - 1
  /\ Looking(phase) =>
       N > 0 /\ begins = [u \in 0 .. num_cl - 1 |-> BeginOf(u)]
  /\ ComparedWithSent

\* Clients that begin together.
Together ==
  /\ trace.sent > 1 /\ opt.step = 1
  /\ \A u \in Clients : /\ trace.on[u + 1] = trace.on[1]
                        /\ trace.on[1] \in frames[1] .. frames[N]

LEMMA TraceFacts ==
  ASSUME ShapeInv
  PROVE  /\ Len(trace.on) \in Nat /\ Len(trace.on) > 0
         /\ \A u \in Clients : u \in Nat /\ trace.on[u + 1] \in Nat
         /\ 0 \in Clients /\ trace.on[1] \in Nat
         /\ num_cl \in Nat /\ 0 < num_cl /\ num_cl <= Len(trace.on)
         /\ trace.sent \in Nat \ {0} /\ trace.chan \in Nat \ {0}
<1>1. /\ trace.on \in Seq(Nat) /\ trace.on # <<>> /\ trace.own * trace.chan <= Len(trace.on)
      /\ {trace.sent, trace.chan, trace.own} \subseteq Nat \ {0}
  BY VerifyAssumption DEF ShapeInv
<1>2. /\ Len(trace.on) \in Nat /\ Len(trace.on) > 0
      /\ \A k \in 1 .. Len(trace.on) : trace.on[k] \in Nat
  BY <1>1, EmptySeq, LenProperties
<1>3. trace.own * trace.chan \in Nat /\ 0 < trace.own * trace.chan
  BY <1>1
<1>4. QED
  BY <1>1, <1>2, <1>3 DEF Clients, num_cl

\* The search finds the frame in which clients that begin together do begin,
\* also when that is the first one of the slice, where it finds nothing.
LEMMA BeginFound ==
  ASSUME ShapeInv, PairInv, Together, N > 0, ~trace.calib, NEW u \in Clients
  PROVE  /\ BeginOf(u) = trace.on[1] - frames[1]
         /\ trace.on[1] - frames[1] \in 0 .. N - 1
<1> DEFINE b == trace.on[1] - frames[1]
<1>1. /\ N \in Nat /\ frames \in [1 .. N -> Int] /\ trace.on[1] \in Nat
      /\ u \in Nat /\ trace.on[u + 1] = trace.on[1]
      /\ \A k \in 1 .. N : frames[k] = frames[1] + (k - 1)
      /\ trace.on[1] \in frames[1] .. frames[N]
  BY FramesShape, TraceFacts DEF PairInv, Together
<1>2. frames[1] \in Int /\ frames[N] = frames[1] + (N - 1)
  BY <1>1
<1>3. b \in 0 .. N - 1
  BY <1>1, <1>2
<1>4. ASSUME NEW k \in 0 .. N - 1 PROVE Sends(u, k) <=> k >= b
  <2>1. k + 1 \in 1 .. N /\ frames[k + 1] = frames[1] + k
    BY <1>1
  <2>2. Sends(u, k) <=> frames[k + 1] >= trace.on[u + 1]
    BY DEF Sends
  <2>3. QED
    BY <1>1, <1>2, <2>1, <2>2
<1> DEFINE starts == {k \in 1 .. N - 1 : Sends(u, k) /\ ~Sends(u, k - 1)}
<1>5. ASSUME NEW k \in 1 .. N - 1 PROVE k \in starts <=> k = b
  <2>1. k \in 0 .. N - 1 /\ k - 1 \in 0 .. N - 1
    BY <1>1
  <2>2. (Sends(u, k) <=> k >= b) /\ (Sends(u, k - 1) <=> k - 1 >= b)
    BY <2>1, <1>4
  <2>3. QED
    BY <2>1, <2>2, <1>3
<1>6. starts = IF b = 0 THEN {} ELSE {b}
  BY <1>1, <1>3, <1>5
<1> HIDE DEF starts
<1>7. Min({b}) = b
  <2>1. b \in Int
    BY <1>3
  <2> HIDE DEF b
  <2>2. QED
    BY <2>1, MinOfOne
<1>8. BeginOf(u) = IF starts = {} THEN 0 ELSE Min(starts)
  BY DEF BeginOf, starts
<1>9. QED
  BY <1>3, <1>6, <1>7, <1>8

\* Different antennas have different data, of one file if of one radio.
LEMMA OwnData ==
  ASSUME ShapeInv, DOMAIN TxData = Clients, NEW u \in Clients, NEW v \in Clients
  PROVE  /\ u # v => TxData[u] # TxData[v]
         /\ TxData[u].file = TxData[v].file <=> u \div trace.chan = v \div trace.chan
<1>1. u \in Nat /\ v \in Nat /\ trace.chan \in Nat \ {0}
  BY TraceFacts
<1>2. \A w \in Clients : TxData[w] = [file |-> w \div trace.chan, channel |-> w % trace.chan]
  BY DEF TxData
<1>3. /\ u = (u \div trace.chan) * trace.chan + (u % trace.chan)
      /\ v = (v \div trace.chan) * trace.chan + (v % trace.chan)
  BY <1>1, DivMod
<1>4. u # v => \/ u \div trace.chan # v \div trace.chan
               \/ u % trace.chan # v % trace.chan
  <2>1. SUFFICES ASSUME u \div trace.chan = v \div trace.chan,
                        u % trace.chan = v % trace.chan
                 PROVE  u = v
    OBVIOUS
  <2>2. QED
    BY <1>3, <2>1
<1>5. QED
  BY <1>2, <1>4

LEMMA DemodulateStep ==
  ASSUME ShapeInv, PairInv, Uplink, Demodulate, DOMAIN TxData = Clients, ~trace.calib
  PROVE  ComparedWithSent'
<1>1. /\ UNCHANGED <<trace, opt, frames, begins>> /\ phase = "uplink"
      /\ N > 0 /\ begins = [u \in 0 .. num_cl - 1 |-> BeginOf(u)]
  BY DEF Uplink, PairInv, Looking
<1>2. ASSUME NEW p \in pairs'
      PROVE  /\ p.user \in Clients /\ p.data = TxData[p.user]
             /\ p.rx \in FrameStart .. FrameStart + Useful - 1
  BY <1>2 DEF Demodulate
<1>3. ASSUME NEW p \in pairs', NEW q \in pairs'
      PROVE  /\ p.user # q.user => p.data # q.data
             /\ p.data.file = q.data.file <=> p.user \div trace.chan = q.user \div trace.chan
  BY <1>2, <1>3, OwnData
<1>4. ASSUME Together, NEW p \in pairs'
      PROVE  /\ p.rx < N /\ frames[p.rx + 1] >= trace.on[1]
             /\ SentFrame(p) = (frames[p.rx + 1] - trace.on[1]) % trace.sent
  <2> DEFINE b == trace.on[1] - frames[1]
  <2>1. b \in 0 .. N - 1 /\ \A u \in Clients : BeginOf(u) = b
    BY <1>1, <1>4, BeginFound, TraceFacts
  <2>2. Range(begins) = {b}
    <3>1. \A u \in 0 .. num_cl - 1 : u \in Clients
      BY TraceFacts DEF Clients
    <3>2. DOMAIN begins = 0 .. num_cl - 1 /\ \A u \in DOMAIN begins : begins[u] = b
      BY <1>1, <2>1, <3>1
    <3>3. 0 \in DOMAIN begins
      BY <3>2, TraceFacts
    <3> HIDE DEF b
    <3>4. QED
      BY <3>2, <3>3 DEF Range
  <2>3. b \in Int /\ N \in Nat
    BY <2>1, FramesShape
  <2> HIDE DEF b
  <2>4. Min({b}) = b /\ Max({b}) = b
    BY <2>3, MinOfOne
  <2>5. FrameStart = b /\ Useful = N - b
    BY <1>4, <2>2, <2>4, TraceFacts DEF FrameStart, Useful, Together
  <2>6. p.rx \in b .. N - 1
    BY <1>2, <2>1, <2>3, <2>5
  <2>7. frames[p.rx + 1] = frames[1] + p.rx
    <3>1. p.rx + 1 \in 1 .. N
      BY <2>1, <2>3, <2>6
    <3>2. QED
      BY <1>4, <3>1, <2>3, <2>6 DEF PairInv, Together
  <2>8. frames[1] \in Int /\ trace.on[1] \in Nat
    BY <1>1, FramesShape, TraceFacts
  <2>9. frames[p.rx + 1] - trace.on[1] = p.rx - b
    BY <2>3, <2>6, <2>7, <2>8 DEF b
  <2>10. QED
    BY <2>1, <2>3, <2>5, <2>6, <2>8, <2>9, <2>7 DEF SentFrame
<1>5. QED
  BY <1>1, <1>3, <1>4 DEF ComparedWithSent, Together, SentFrame, FrameStart, N, Clients
LEMMA SliceIsRun ==
  ASSUME ShapeInv, opt.step = 1, NEW k \in 1 .. Len(Slice)
  PROVE  Slice[k] = Slice[1] + (k - 1)
<1>1. opt.start \in Nat /\ trace.frames \in Nat
  BY VerifyAssumption DEF ShapeInv
<1>2. Len(Slice) \in Nat /\ DOMAIN Slice = 1 .. Len(Slice)
  BY SliceIsSeq, LenProperties DEF ShapeInv
<1>3. 1 \in 1 .. Len(Slice)
  BY <1>2
<1>4. CASE opt.n = 0
  <2>1. \A j \in DOMAIN Slice : Slice[j] = j - 1
    BY <1>4 DEF Slice
  <2>2. QED
    BY <1>2, <1>3, <2>1
<1>5. CASE opt.n # 0
  <2>1. \A j \in DOMAIN Slice : Slice[j] = opt.start + (j - 1) * opt.step
    BY <1>5 DEF Slice
  <2>2. Slice[k] = opt.start + (k - 1) /\ Slice[1] = opt.start
    BY <1>1, <1>2, <1>3, <2>1
  <2>3. QED
    BY <1>1, <1>2, <2>2
<1>6. QED
  BY <1>4, <1>5

LEMMA InitPair == Init => PairInv
<1> SUFFICES ASSUME Init PROVE PairInv
  OBVIOUS
<1>1. N = 0
  BY EmptySeq DEF Init, N
<1>2. pairs = {} /\ DOMAIN begins = 0 .. num_cl - 1 /\ phase = "open"
  BY DEF Init
<1>3. \A k \in 1 .. N : frames[k] = frames[1] + (k - 1)
  BY <1>1
<1>4. ComparedWithSent
  BY <1>2 DEF ComparedWithSent
<1>5. QED
  BY <1>2, <1>3, <1>4 DEF PairInv, Looking

LEMMA PairStep == ShapeInv /\ PairInv /\ [Next]_vars => PairInv'
<1> SUFFICES ASSUME ShapeInv, PairInv, [Next]_vars PROVE PairInv'
  OBVIOUS
<1>1. CASE Open
  <2>1. opt'.step = 1 => \A k \in 1 .. N' : frames'[k] = frames'[1] + (k - 1)
    BY <1>1, SliceIsRun DEF Open, N
  <2>2. pairs' = {} /\ DOMAIN begins' = 0 .. num_cl' - 1
    BY <1>1 DEF Open, PairInv, num_cl
  <2>3. phase' \in {"pilots", "end"}
    BY <1>1 DEF Open, Goto
  <2>4. ComparedWithSent'
    BY <2>2 DEF ComparedWithSent
  <2>5. QED
    BY <2>1, <2>2, <2>3, <2>4 DEF PairInv, Looking
<1>2. CASE Pilots
  <2>1. /\ UNCHANGED <<trace, opt, frames>> /\ pairs' = {} /\ N > 0
        /\ begins' = [u \in 0 .. num_cl - 1 |-> BeginOf(u)]
        /\ phase' \in {"end", "stopped", "deep"}
    BY <1>2 DEF Pilots, PairInv, ShapeInv, Goto, Stop
  <2>2. begins' = [u \in 0 .. num_cl' - 1 |-> BeginOf(u)']
    BY <2>1 DEF num_cl, BeginOf, Sends, N
  <2>3. ComparedWithSent'
    BY <2>1 DEF ComparedWithSent
  <2>4. QED
    BY <2>1, <2>2, <2>3 DEF PairInv, Looking, N
<1>3. ASSUME UNCHANGED <<trace, opt, frames, begins>>, ComparedWithSent',
             Looking(phase) \/ phase' \in {"stopped", "end"},
             phase' \notin {"open", "pilots"}
      PROVE  PairInv'
  <2>1. N' = N
    BY <1>3 DEF N
  <2>2. opt'.step = 1 => \A k \in 1 .. N' : frames'[k] = frames'[1] + (k - 1)
    BY <1>3, <2>1 DEF PairInv, Looking
  <2>3. ASSUME Looking(phase')
        PROVE  N' > 0 /\ begins' = [u \in 0 .. num_cl' - 1 |-> BeginOf(u)']
    <3>1. N > 0 /\ begins = [u \in 0 .. num_cl - 1 |-> BeginOf(u)]
      BY <1>3, <2>3 DEF PairInv, Looking
    <3>2. begins' = [u \in 0 .. num_cl' - 1 |-> BeginOf(u)']
      BY <1>3, <3>1 DEF num_cl, BeginOf, Sends, N
    <3>3. QED
      BY <2>1, <3>1, <3>2
  <2>4. QED
    BY <1>3, <2>2, <2>3 DEF PairInv, Looking
<1>4. ASSUME UNCHANGED <<trace, opt, frames, begins, pairs>> PROVE ComparedWithSent'
  BY <1>4 DEF PairInv, ComparedWithSent, SentFrame, FrameStart, N, Clients
<1>5. CASE \/ Deep \/ CsiFirst \/ CsiNext \/ CsiRest \/ Samples \/ Calibrate
           \/ ShowFactors \/ ShowPilots \/ Analyze
  <2>1. /\ UNCHANGED <<trace, opt, frames, begins, pairs>>
        /\ Looking(phase)
        /\ phase' \notin {"open", "pilots"}
    BY <1>5 DEF Deep, CsiFirst, CsiNext, CsiRest, CsiKeeps, Samples, Calibrate, ShowFactors,
                ShowPilots, Analyze, Goto, Stop, Looking
  <2>2. QED
    BY <2>1, <1>3, <1>4
<1>6. CASE Uplink
  <2>1. /\ UNCHANGED <<trace, opt, frames, begins>> /\ phase = "uplink"
        /\ phase' \in {"downlink", "stopped"}
    BY <1>6 DEF Uplink, Goto, Stop, Looking
  <2>2. UNCHANGED pairs \/ (Demodulate /\ DOMAIN TxData = Clients /\ ~trace.calib)
    BY <1>6 DEF Uplink
  <2>3. ComparedWithSent'
    BY <1>4, <1>6, <2>1, <2>2, DemodulateStep
  <2>4. QED
    BY <1>3, <2>1, <2>3 DEF Looking
<1>7. CASE Downlink
  <2>1. /\ UNCHANGED <<trace, opt, frames, begins, pairs>>
        /\ phase' \in {"stopped", "end"}
    BY <1>7 DEF Downlink, Goto, Stop
  <2>2. QED
    BY <2>1, <1>3, <1>4
<1>8. CASE UNCHANGED vars
  <2>1. UNCHANGED <<trace, opt, phase, frames, begins, pairs>> /\ N' = N
    BY <1>8 DEF vars, N
  <2>2. opt'.step = 1 => \A k \in 1 .. N' : frames'[k] = frames'[1] + (k - 1)
    BY <2>1 DEF PairInv, Looking
  <2>3. phase' \in {"open", "pilots"} => pairs' = {} /\ DOMAIN begins' = 0 .. num_cl' - 1
    BY <2>1 DEF PairInv, num_cl
  <2>4. ASSUME Looking(phase')
        PROVE  N' > 0 /\ begins' = [u \in 0 .. num_cl' - 1 |-> BeginOf(u)']
    <3>1. N > 0 /\ begins = [u \in 0 .. num_cl - 1 |-> BeginOf(u)]
      BY <2>1, <2>4 DEF PairInv, Looking
    <3>2. begins' = [u \in 0 .. num_cl' - 1 |-> BeginOf(u)']
      BY <2>1, <3>1 DEF num_cl, BeginOf, Sends, N
    <3>3. QED
      BY <2>1, <3>1, <3>2
  <2>5. QED
    BY <1>4, <2>1, <2>2, <2>3, <2>4 DEF PairInv, Looking
<1>9. QED
  BY <1>1, <1>2, <1>5, <1>6, <1>7, <1>8 DEF Next
-----------------------------------------------------------------------------
(* Theorems *)

\* Whatever the number of frames and the size of the chunks, no frame of the
\* slice goes without its estimate, nor a calibration without a factor of its own
\* (hdf5_lib.py:255-284, plot_hdf5.py:256-280).
THEOREM AllEstimated == Spec => []EveryFrameEstimated
<1>1. ShapeInv /\ LoopInv => EveryFrameEstimated
  <2> SUFFICES ASSUME ShapeInv, LoopInv, phase = "show" PROVE EveryFrameEstimated
    BY DEF EveryFrameEstimated
  <2>1. DOMAIN rows = 1 .. N
    BY DEF ShapeInv
  <2>2. \A k \in 1 .. N : RowRight(k)
    BY DEF LoopInv
  <2>3. trace.calib => factors = frames
    BY DEF LoopInv
  <2>4. QED
    BY <2>1, <2>2, <2>3 DEF RowRight, EveryFrameEstimated
<1>2. QED
  BY <1>1, InitInv, Step, PTL DEF Spec

\* Received frames of clients that begin together are compared with the frames
\* they sent, wherever the slice begins and ends and however often the data is
\* repeated, and every antenna with its own data (plot_hdf5.py:149-159,
\* hdf5_lib.py:658-767).
THEOREM OwnDataCompared == Spec => []ComparedWithSent
<1>1. PairInv => ComparedWithSent
  BY DEF PairInv
<1>2. ShapeInv /\ LoopInv /\ RefInv /\ PairInv /\ [Next]_vars
        => ShapeInv' /\ LoopInv' /\ RefInv' /\ PairInv'
  BY Step, PairStep
<1>3. QED
  BY <1>1, <1>2, InitInv, InitPair, PTL DEF Spec

\* However the frame, the slice and the plots are chosen, the figures of a run
\* that starts at the first frame show one frame (plot_hdf5.py:113-356).
THEOREM FiguresAgree == Spec => []OneFrameShown
<1>1. RefInv => OneFrameShown
  BY DEF RefInv, OneFrameShown
<1>2. QED
  BY <1>1, InitInv, Step, PTL DEF Spec
-----------------------------------------------------------------------------
(* Where the script stops *)

LEMMA MaxOfTwo ==
  ASSUME NEW a \in Int, NEW b \in Int
  PROVE  Max({a, b}) \in Int /\ Max({a, b}) >= a /\ Max({a, b}) >= b
<1>1. \E x \in {a, b} : \A y \in {a, b} : x >= y
  OBVIOUS
<1>2. Max({a, b}) \in {a, b} /\ \A y \in {a, b} : Max({a, b}) >= y
  BY <1>1 DEF Max
<1>3. QED
  BY <1>2

\* The symbols that are cut from a slot end within it, unless they begin behind
\* its prefix (hdf5_lib.py:286-345).
LEMMA BeyondPrefix ==
  ASSUME trace \in Traces, NEW o \in Nat, ~Fits(o)
  PROVE  o > Prefix
<1> DEFINE room == SlotLen - (Prefix + Postfix)
           used == Reps * trace.ofdm
<1>1. /\ SlotLen \in Nat /\ Prefix \in Nat /\ Postfix \in Nat /\ trace.ofdm \in Nat \ {0}
      /\ Prefix + Postfix + trace.ofdm <= SlotLen
  <2>1. trace.ofdm \in Nat \ {0} /\ Prefix + Postfix + trace.ofdm <= SlotLen
    BY VerifyAssumption
  <2>2. {SlotLen, Prefix, Postfix} \subseteq Nat
    BY VerifyAssumption
  <2>3. QED
    BY <2>1, <2>2
<1>2. room \in Nat
  BY <1>1
<1>3. Reps \in Nat /\ room = Reps * trace.ofdm + (room % trace.ofdm) /\ room % trace.ofdm \in Nat
  <2> DEFINE w == trace.ofdm
  <2>1. w \in Nat \ {0} /\ room \div w = Reps
    BY <1>1 DEF Reps
  <2> HIDE DEF w, room
  <2>2. room \div w \in Nat /\ room % w \in Nat
    BY <1>2, <2>1
  <2>3. room = (room \div w) * w + (room % w)
    BY <1>2, <2>1, DivMod
  <2>4. Reps \in Nat /\ room = Reps * w + (room % w) /\ room % w \in Nat
    BY <2>1, <2>2, <2>3, Zenon
  <2>5. QED
    BY <2>4 DEF w, room
<1>4. used \in Nat
  BY <1>1, <1>3
<1>5. used <= room
  BY <1>2, <1>3, <1>4
<1>6. ~(o + used <= SlotLen)
  BY DEF Fits
<1> HIDE DEF used
<1>7. QED
  BY <1>1, <1>4, <1>5, <1>6

\* Antennas left out of a figure are left out of those kept.
LEMMA PlottedCount ==
  ASSUME NEW S, IsFiniteSet(S), NEW T, T \subseteq S
  PROVE  Cardinality(T) \in Nat /\ Cardinality(S) \in Nat /\ Cardinality(T) <= Cardinality(S)
BY FS_Subset, FS_CardinalityType

\* The tool calibrates with a calibration trace only, a reference frame that is
\* not there was asked for beyond the slice, and the antennas kept are those the
\* command line does not exclude.
CauseInv ==
  /\ phase \in {"samples", "calib", "factors"} => trace.calib
  /\ Looking(phase) /\ ref = N => asked >= N
  /\ Looking(phase) => nodes = (0 .. trace.antennas - 1) \ opt.exclude
  /\ IsFiniteSet(nodes)

LEMMA CauseStep ==
  ASSUME ShapeInv, CauseInv, Next
  PROVE  CauseInv'
<1>1. CASE Pilots
  <2> DEFINE kept == (0 .. trace.antennas - 1) \ opt.exclude
  <2>1. /\ phase' \notin {"samples", "calib", "factors"} /\ nodes' = kept
        /\ UNCHANGED <<trace, opt, frames, asked>>
        /\ ref' = Min({asked, N}) /\ trace \in Traces
    BY <1>1 DEF Pilots, Goto, Stop, ShapeInv
  <2>2. asked \in Int /\ N \in Int /\ N' = N
    BY <2>1, FramesShape DEF ShapeInv, N
  <2>3. ref' = N' => asked' >= N'
    <3>1. Min({asked, N}) <= asked
      BY <2>2, MinOfTwo
    <3>2. QED
      BY <2>1, <2>2, <3>1
  <2>4. IsFiniteSet(0 .. trace.antennas - 1)
    <3>1. trace.antennas \in Nat
      BY <2>1, VerifyAssumption
    <3>2. QED
      BY <3>1, FS_Interval
  <2>5. IsFiniteSet(kept)
    BY <2>4, FS_Difference
  <2>6. nodes' = (0 .. trace'.antennas - 1) \ opt'.exclude
    BY <2>1
  <2>7. QED
    BY <2>1, <2>3, <2>5, <2>6 DEF CauseInv
<1>2. CASE Open
  BY <1>2 DEF Open, Goto, CauseInv, Looking
<1>3. CASE ~(Pilots \/ Open)
  <2>1. UNCHANGED <<trace, opt, frames, asked, ref, nodes>>
    BY <1>3 DEF Next, Deep, CsiFirst, CsiNext, CsiRest, CsiKeeps, Samples, Calibrate,
       ShowFactors, ShowPilots, Analyze, Uplink, Downlink
  <2>2. /\ Looking(phase') => Looking(phase)
        /\ phase' \in {"samples", "calib", "factors"} => trace.calib
    BY <1>3 DEF Next, Deep, CsiFirst, CsiNext, CsiRest, Samples, Calibrate, ShowFactors,
       ShowPilots, Analyze, Uplink, Downlink, Goto, Stop, CauseInv, Looking
  <2>3. QED
    BY <2>1, <2>2 DEF CauseInv, N
<1>4. QED
  BY <1>1, <1>2, <1>3

LEMMA StopStep ==
  ASSUME ShapeInv, CauseInv, Next
  PROVE  StopsOnlyFor'
<1>1. trace' = trace /\ (phase # "open" => opt' = opt) /\ trace \in Traces /\ opt \in Options
  BY DEF Next, Open, Pilots, Deep, CsiFirst, CsiNext, CsiRest, CsiKeeps, Samples, Calibrate,
     ShowFactors, ShowPilots, Analyze, Uplink, Downlink, ShapeInv
<1>2. /\ opt.ant \in Nat /\ opt.start \in Nat /\ opt.offset \in Int /\ opt.symbol \in Nat
      /\ opt.offset >= 0 => opt.offset \in Nat
      /\ Len(trace.on) \in Nat /\ asked \in Nat /\ N \in Nat
      /\ Prefix \in Nat /\ UpOffset \in Nat /\ DownOffset \in Nat
      /\ opt.user \in Nat /\ num_cl \in Nat /\ num_cl <= Len(trace.on)
  <2>1. /\ {opt.start, opt.ant, opt.symbol} \subseteq Nat
        /\ opt.offset \in Nat \cup {-1}
    BY <1>1, VerifyAssumption
  <2>2. trace.on \in Seq(Nat) /\ {Prefix, UpOffset, DownOffset} \subseteq Nat
    BY <1>1, VerifyAssumption
  <2>3. Len(trace.on) \in Nat
    BY <2>2, LenProperties
  <2>4. asked \in Nat /\ N \in Nat
    BY FramesShape DEF ShapeInv
  <2>5. opt.user \in Nat /\ num_cl \in Nat /\ num_cl <= Len(trace.on)
    <3>1. opt.user \in Nat
      BY <1>1, VerifyAssumption
    <3>2. QED
      BY <3>1, TraceFacts
  <2>6. QED
    BY <2>1, <2>2, <2>3, <2>4, <2>5
<1> DEFINE known == IF trace.down > 0 THEN num_cl ELSE Len(trace.on)
<1>0. opt.user >= Len(trace.on) => opt.user >= known
  BY <1>2
<1>3. CASE Open
  BY <1>3 DEF Open, Goto, StopsOnlyFor
<1>4. CASE Pilots
  <2> DEFINE kept == (0 .. trace.antennas - 1) \ opt.exclude
  <2>1. /\ UNCHANGED <<trace, opt>> /\ nodes' = kept
        /\ phase' = "stopped" => \/ why' = "antenna" /\ opt.ant >= Cardinality(kept)
                                 \/ why' = "user" /\ opt.user >= Slots
    BY <1>4 DEF Pilots, Goto, Stop
  <2>2. Plotted' \subseteq kept
    BY <2>1 DEF Plotted
  <2>3. IsFiniteSet(kept)
    <3>1. trace.antennas \in Nat
      BY <1>1, VerifyAssumption
    <3>2. IsFiniteSet(0 .. trace.antennas - 1)
      BY <3>1, FS_Interval
    <3>3. QED
      BY <3>2, FS_Difference
  <2> HIDE DEF kept
  <2>4. /\ Cardinality(kept) \in Nat /\ Cardinality(Plotted') \in Nat
        /\ Cardinality(Plotted') <= Cardinality(kept)
    BY <2>2, <2>3, PlottedCount
  <2>5. Max({opt.ant + 1, Len(trace.on)}) >= opt.ant + 1
        /\ Max({opt.ant + 1, Len(trace.on)}) \in Int
    <3>1. opt.ant + 1 \in Int /\ Len(trace.on) \in Int
      BY <1>2
    <3>2. QED
      BY <3>1, MaxOfTwo
  <2>6. phase' = "stopped" /\ why' = "antenna" =>
           Max({opt.ant + 1, Len(trace.on)}) > Cardinality(Plotted')
    BY <1>2, <2>1, <2>4, <2>5
  <2>7. opt.user >= Slots => opt.user >= known
    <3>1. Slots = Len(trace.on) + 2 \/ Slots = Len(trace.on) + 0
      BY DEF Slots
    <3> HIDE DEF known
    <3>2. QED
      BY <1>0, <1>2, <3>1
  <2>8. num_cl' = num_cl
    BY <2>1 DEF num_cl
  <2>9. QED
    BY <2>1, <2>6, <2>7, <2>8 DEF StopsOnlyFor
<1>5. CASE Deep
  <2>1. /\ UNCHANGED <<trace, opt, frames, asked>> /\ phase = "deep"
        /\ phase' = "stopped" => why' = "frame" /\ ref = N
    BY <1>5 DEF Deep, Goto, Stop
  <2>2. phase' = "stopped" => asked' >= N'
    BY <2>1 DEF CauseInv, Looking, N
  <2>3. QED
    BY <2>1, <2>2 DEF StopsOnlyFor
<1>6. CASE CsiFirst \/ CsiNext \/ CsiRest
  <2>1. /\ UNCHANGED <<trace, opt>>
        /\ phase' = "stopped" => why' = "window" /\ ~Fits(Offset)
    BY <1>6 DEF CsiFirst, CsiNext, CsiRest, CsiKeeps, Goto, Stop
  <2>2. phase' = "stopped" => opt.offset > Prefix
    <3>1. CASE opt.offset < 0
      BY <1>2, <2>1, <3>1, <1>1, BeyondPrefix DEF Offset
    <3>2. CASE ~(opt.offset < 0)
      BY <1>2, <2>1, <3>2, <1>1, BeyondPrefix DEF Offset
    <3>3. QED
      BY <3>1, <3>2
  <2> DEFINE late == IF trace.calib THEN Max({UpOffset, DownOffset}) ELSE 0
  <2>3. late \in Int
    <3>1. UpOffset \in Int /\ DownOffset \in Int
      BY <1>2
    <3>2. Max({UpOffset, DownOffset}) \in Int
      BY <3>1, MaxOfTwo
    <3>3. QED
      BY <3>2
  <2> HIDE DEF late
  <2>4. Max({opt.offset, late}) >= opt.offset /\ Max({opt.offset, late}) \in Int
    BY <1>2, <2>3, MaxOfTwo
  <2>5. phase' = "stopped" => Max({opt.offset, late}) > Prefix
    BY <1>2, <2>2, <2>4
  <2>6. QED
    BY <2>1, <2>5 DEF StopsOnlyFor, late
<1>7. CASE Calibrate
  <2>1. /\ UNCHANGED <<trace, opt>> /\ trace.calib
        /\ phase' = "stopped" =>
             \/ why' = "window" /\ (~Fits(UpOffset) \/ ~Fits(DownOffset))
             \/ why' = "symbol" /\ opt.symbol >= Reps
    BY <1>7 DEF Calibrate, Goto, Stop, CauseInv
  <2> DEFINE late == Max({UpOffset, DownOffset})
  <2>2. late \in Int /\ late >= UpOffset /\ late >= DownOffset
    <3>1. UpOffset \in Int /\ DownOffset \in Int
      BY <1>2
    <3>2. QED
      BY <3>1, MaxOfTwo
  <2> HIDE DEF late
  <2>3. ~Fits(UpOffset) \/ ~Fits(DownOffset) => late > Prefix
    BY <1>1, <1>2, <2>2, BeyondPrefix
  <2>4. Max({opt.offset, late}) >= late /\ Max({opt.offset, late}) \in Int
    BY <1>2, <2>2, MaxOfTwo
  <2>5. ~Fits(UpOffset) \/ ~Fits(DownOffset) => Max({opt.offset, late}) > Prefix
    BY <1>2, <2>2, <2>3, <2>4
  <2>6. Reps' = Reps
    BY <2>1 DEF Reps
  <2>7. QED
    BY <2>1, <2>5, <2>6 DEF StopsOnlyFor, late
<1>8. CASE ShowPilots
  <2>1. /\ UNCHANGED <<trace, opt, frames, asked, nodes>> /\ phase = "show"
        /\ phase' = "stopped" =>
             \/ why' = "frame" /\ ref = N
             \/ /\ why' = "antenna"
                /\ Len(trace.on) > Cardinality(Plotted) \/ opt.ant >= Cardinality(Plotted)
    BY <1>8 DEF ShowPilots, Goto, Stop
  <2>2. Plotted \subseteq nodes /\ Plotted' = Plotted
    BY <2>1 DEF Plotted
  <2>3. Cardinality(Plotted) \in Nat
    BY <2>2, PlottedCount DEF CauseInv
  <2>4. /\ Max({opt.ant + 1, Len(trace.on)}) >= opt.ant + 1
        /\ Max({opt.ant + 1, Len(trace.on)}) >= Len(trace.on)
        /\ Max({opt.ant + 1, Len(trace.on)}) \in Int
    <3>1. opt.ant + 1 \in Int /\ Len(trace.on) \in Int
      BY <1>2
    <3>2. QED
      BY <3>1, MaxOfTwo
  <2>5. Len(trace.on) > Cardinality(Plotted) \/ opt.ant >= Cardinality(Plotted)
          => Max({opt.ant + 1, Len(trace.on)}) > Cardinality(Plotted)
    BY <1>2, <2>3, <2>4
  <2>6. ref = N => asked >= N
    BY <2>1 DEF CauseInv, Looking
  <2>7. QED
    BY <2>1, <2>2, <2>5, <2>6 DEF StopsOnlyFor, N
<1>9. CASE Analyze
  <2>1. /\ UNCHANGED <<trace, opt>> /\ phase = "analyze"
        /\ phase' = "stopped" => opt.analyze
        /\ phase' = "stopped" => \/ why' = "nodes" /\ nodes # 0 .. trace.antennas - 1
                                 \/ why' = "repetition" /\ Reps = 1
    BY <1>9 DEF Analyze, Goto, Stop
  <2>2. nodes # 0 .. trace.antennas - 1 => opt.exclude \cap 0 .. trace.antennas - 1 # {}
    <3>1. nodes = (0 .. trace.antennas - 1) \ opt.exclude
      BY <2>1 DEF CauseInv, Looking
    <3>2. QED
      BY <3>1
  <2>3. Reps' = Reps
    BY <2>1 DEF Reps
  <2>4. QED
    BY <2>1, <2>2, <2>3 DEF StopsOnlyFor
<1>10. CASE Uplink
  <2>1. /\ UNCHANGED <<trace, opt>>
        /\ phase' = "stopped" =>
             \/ why' = "estimates" /\ trace.calib /\ opt.demod # ""
             \/ why' = "noise" /\ opt.demod = "mmse" /\ ~trace.noise
             \/ why' = "users" /\ DOMAIN TxData # Clients
    BY <1>10 DEF Uplink, Goto, Stop
  <2>2. DOMAIN TxData # Clients => opt.files * trace.chan # Len(trace.on) - num_cl
    <3>1. /\ opt.files \in Nat /\ trace.chan \in Nat /\ trace.own \in Nat
      BY <1>1, VerifyAssumption
    <3>2. num_cl \in Nat /\ opt.files * trace.chan = trace.chan * opt.files
          /\ trace.chan * opt.files \in Nat
      BY <3>1 DEF num_cl
    <3>3. DOMAIN TxData = 0 .. num_cl + trace.chan * opt.files - 1
      BY DEF TxData
    <3>4. Clients = 0 .. Len(trace.on) - 1
      BY DEF Clients
    <3>5. ASSUME trace.chan * opt.files = Len(trace.on) - num_cl
          PROVE  num_cl + trace.chan * opt.files = Len(trace.on)
      BY <1>2, <3>2, <3>5
    <3>6. QED
      BY <3>2, <3>3, <3>4, <3>5
  <2>3. num_cl' = num_cl
    BY <2>1 DEF num_cl
  <2>4. QED
    BY <2>1, <2>2, <2>3 DEF StopsOnlyFor
<1>11. CASE Downlink
  <2>1. /\ UNCHANGED <<trace, opt, frames, asked>>
        /\ phase' = "stopped" =>
             \/ why' = "frame" /\ DownlinkRef \notin -N .. N - 1
             \/ why' = "user" /\ trace.down # 0 /\ opt.user >= num_cl
             \/ /\ why' = "slot" /\ trace.down # 0
                /\ opt.ant >= Cardinality((0 .. trace.down - 1) \ opt.exclude)
             \/ why' = "call" /\ trace.dlPilots
    BY <1>11 DEF Downlink, Goto, Stop
  <2>2. asked - opt.start \in Int /\ N \in Int
    BY <1>2
  <2>3. /\ DownlinkRef = asked - opt.start \/ DownlinkRef = N
        /\ DownlinkRef <= asked - opt.start
    BY <2>2, MinOfTwo DEF DownlinkRef
  <2>4. DownlinkRef \notin -N .. N - 1 => asked >= N \/ asked < opt.start
    BY <1>2, <2>2, <2>3
  <2>5. trace.down # 0 => trace.down > 0
    <3>1. trace.down \in Nat
      BY <1>1, VerifyAssumption
    <3>2. QED
      BY <3>1
  <2>6. num_cl' = num_cl
    BY <2>1 DEF num_cl
  <2>7. QED
    BY <2>1, <2>4, <2>5, <2>6 DEF StopsOnlyFor, N
<1>12. CASE Samples
  <2>1. /\ UNCHANGED <<trace, opt, frames, asked>> /\ phase = "samples"
        /\ phase' = "stopped" => \/ why' = "frame" /\ ref = N
                                 \/ why' = "user" /\ opt.user >= Len(trace.on)
    BY <1>12 DEF Samples, Goto, Stop
  <2>2. ref = N => asked >= N
    BY <2>1 DEF CauseInv, Looking
  <2>3. num_cl' = num_cl
    BY <2>1 DEF num_cl
  <2>4. QED
    BY <1>0, <2>1, <2>2, <2>3 DEF StopsOnlyFor, N
<1>13. CASE ShowFactors
  <2>1. /\ UNCHANGED <<trace, opt, nodes>> /\ phase = "factors"
        /\ phase' = "stopped" => \/ why' = "antenna" /\ opt.ant >= Cardinality(Plotted)
                                 \/ why' = "clients" /\ num_cl # Len(trace.on)
    BY <1>13 DEF ShowFactors, Goto, Stop
  <2>2. Plotted \subseteq nodes /\ Plotted' = Plotted
    BY <2>1 DEF Plotted
  <2>3. Cardinality(Plotted) \in Nat
    BY <2>2, PlottedCount DEF CauseInv
  <2>4. /\ Max({opt.ant + 1, Len(trace.on)}) >= opt.ant + 1
        /\ Max({opt.ant + 1, Len(trace.on)}) \in Int
    <3>1. opt.ant + 1 \in Int /\ Len(trace.on) \in Int
      BY <1>2
    <3>2. QED
      BY <3>1, MaxOfTwo
  <2>5. opt.ant >= Cardinality(Plotted)
          => Max({opt.ant + 1, Len(trace.on)}) > Cardinality(Plotted)
    BY <1>2, <2>3, <2>4
  <2>6. num_cl # Len(trace.on) => num_cl < Len(trace.on)
    BY <1>2
  <2>7. trace.calib /\ num_cl' = num_cl
    BY <2>1 DEF CauseInv, num_cl
  <2>8. QED
    BY <2>1, <2>2, <2>5, <2>6, <2>7 DEF StopsOnlyFor
<1>14. QED
  BY <1>3, <1>4, <1>5, <1>6, <1>7, <1>8, <1>9, <1>10, <1>11, <1>12, <1>13 DEF Next

\* The tool ends in an error for the reasons listed only: a frame, an antenna, a
\* user, a slot or a symbol that is not there, pilots moved out of their slot, an
\* analysis with antennas left out or with pilots of one symbol, data that is
\* missing or of other clients, pilots in the downlink (plot_hdf5.py:113-397,
\* 399-476, hdf5_lib.py:362-373, 658-769, channel_analysis.py:105, 171-181).
THEOREM StopsAsListed == Spec => []StopsOnlyFor
<1> DEFINE I == ShapeInv /\ LoopInv /\ RefInv /\ CauseInv /\ StopsOnlyFor
<1>1. Init => I
  BY InitInv, FS_EmptySet DEF Init, CauseInv, StopsOnlyFor, Looking
<1>2. I /\ [Next]_vars => I'
  <2>1. CASE UNCHANGED vars
    BY <2>1, Step DEF vars, CauseInv, StopsOnlyFor, N, Plotted, Reps, num_cl
  <2>2. QED
    BY <2>1, Step, CauseStep, StopStep
<1>3. QED
  BY <1>1, <1>2, PTL DEF Spec
=============================================================================
