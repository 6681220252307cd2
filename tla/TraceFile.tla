----------------------------- MODULE TraceFile -----------------------------
(***************************************************************************)
(* The trace file of one recorder: RecorderWorker::record and finalize on  *)
(* top of Hdf5Lib's datasets, their extents and their handles.             *)
(*                                                                         *)
(* A dataset is created with Inc frames and grows by Step frames when a    *)
(* frame beyond its extent is written, once per packet.  When a packet     *)
(* passes the target size all datasets are closed, which grows each once   *)
(* more, and opened again.  With a frame limit every growth is cut at the  *)
(* limit, so the first one may shrink the dataset.  Frames come in any     *)
(* order (recorder_worker.cc:322).                                         *)
(***************************************************************************)
EXTENDS Integers

CONSTANTS
  Datasets,   \* the datasets init created
  Inc,        \* MAX_FRAME_INC
  Step,       \* kDsExtendStep
  Limits,     \* values of max_frame; 0 means no limit
  MaxGap,     \* frames a dataset goes without a packet, at most
  LastFrame   \* bound of the model: the last frame that is received

ASSUME FileAssumption ==
  /\ Inc \in Nat \ {0} /\ Step \in Nat \ {0}
  /\ Limits \subseteq Nat /\ LastFrame \in Nat /\ MaxGap \in Nat

Frames == 0 .. LastFrame

VARIABLES
  limit,    \* max_frame of the configuration
  beyond,   \* packets beyond the limit arrive: the host counts the frames
  dims,     \* per dataset: the primary dimension, dims_[id][0]
  target,   \* target_prim_dim_size
  open,     \* the dataset handles are not null
  file,     \* file_ is not null
  written,  \* history: per dataset, the frames written and not cut off
  newest,   \* history: per dataset, the highest frame written, or -1
  fault     \* "none", or what ended the process

config == <<limit, beyond>>
fileVars   == <<config, dims, target, open, file, written, newest, fault>>

\* init creates the datasets and opens them.
FileInit ==
  /\ limit   \in Limits
  /\ beyond  \in BOOLEAN
  /\ dims    = [d \in Datasets |-> Inc]
  /\ target  = Inc
  /\ open    = TRUE
  /\ file    = TRUE
  /\ written = [d \in Datasets |-> {}]
  /\ newest  = [d \in Datasets |-> -1]
  /\ fault   = "none"
-----------------------------------------------------------------------------
\* extendDataset: the extent after a request for size (one step, cut at the
\* limit), or the extent as it is.
Smaller(a, b) == IF a < b THEN a ELSE b

\* Mutants: a frame at the extent does not extend; no cut at the limit; the cut
\* one frame too early.
ExtendedLate(extent, size) ==
  IF extent >= size THEN extent
  ELSE IF limit # 0 THEN Smaller(extent + Step, limit + 1) ELSE extent + Step
ExtendedUncut(extent, size) == IF extent > size THEN extent ELSE extent + Step
ExtendedShort(extent, size) ==
  IF extent > size THEN extent ELSE Smaller(extent + Step, limit)

Extended(extent, size) ==
  IF extent > size THEN extent
  ELSE IF limit # 0 THEN Smaller(extent + Step, limit + 1) ELSE extent + Step

Within(frames, extent) == {f \in frames : f < extent}

\* Growing or cutting every dataset; what is cut off is gone.
Resize(e) ==
  /\ dims' = e
  /\ written' = [d \in Datasets |-> Within(written[d], e[d])]

\* closeDataset: extend and close each dataset.  A handle that is null fails
\* the assertion, or is dereferenced when assertions are compiled out.
CloseAll == [d \in Datasets |-> Extended(dims[d], target)]
NullHandle ==
  /\ fault' = "null"
  /\ UNCHANGED <<dims, target, open, file, written, newest>>

\* A packet beyond the limit closes the datasets.
RecordBeyond(f) ==
  /\ limit # 0 /\ f > limit
  /\ IF open
       THEN /\ Resize(CloseAll)
            /\ open' = FALSE
            /\ UNCHANGED <<target, file, newest, fault>>
       ELSE NullHandle

\* Writing frame f of dataset d when its extent is e[d] after all extensions.
Write(d, f, e) ==
  /\ dims' = e
  /\ IF f < e[d]
       THEN /\ written' = [c \in Datasets |-> Within(written[c], e[c])
                                              \cup (IF c = d THEN {f} ELSE {})]
            /\ newest' = [newest EXCEPT ![d] = IF f > @ THEN f ELSE @]
            /\ fault' = fault
       ELSE /\ written' = [c \in Datasets |-> Within(written[c], e[c])]
            /\ newest' = newest
            /\ fault' = "extent"

\* Any other packet is written; at the target size the datasets are closed
\* and opened again first.
RecordWithin(d, f) ==
  /\ limit = 0 \/ f <= limit
  /\ IF ~open
       THEN NullHandle
       ELSE LET e == IF f >= target THEN CloseAll ELSE dims IN
              /\ Write(d, f, [e EXCEPT ![d] = Extended(@, f)])
              /\ target' = IF f >= target THEN target + Inc ELSE target
              /\ UNCHANGED <<open, file>>

Record ==
  /\ file
  /\ \E f \in Frames :
       /\ limit # 0 /\ ~beyond => f <= limit
       /\ \/ RecordBeyond(f)
          \/ \E d \in Datasets : f <= newest[d] + MaxGap /\ RecordWithin(d, f)

\* finalize, at the end of the recorder thread: closeDataset and closeFile.
Finalize ==
  /\ file
  /\ IF open
       THEN /\ Resize(CloseAll)
            /\ open' = FALSE /\ file' = FALSE
            /\ UNCHANGED <<target, newest, fault>>
       ELSE NullHandle

FileFinished == (~file \/ fault # "none") /\ UNCHANGED fileVars

FileNext ==
  \/ fault = "none" /\ (Record \/ Finalize) /\ UNCHANGED config
  \/ FileFinished

FileSpec == FileInit /\ [][FileNext]_fileVars
-----------------------------------------------------------------------------
(* Properties *)

\* Type correctness of Hdf5Lib's bookkeeping.
FileTypeOK ==
  /\ limit \in Limits /\ beyond \in BOOLEAN
  /\ dims \in [Datasets -> Nat]
  /\ target \in Nat
  /\ open \in BOOLEAN /\ file \in BOOLEAN
  /\ written \in [Datasets -> SUBSET Frames]
  /\ newest \in [Datasets -> Frames \cup {-1}]
  /\ fault \in {"none", "extent", "null"}

\* No write misses its dataset (HDF5 would throw out of writeDataset and end
\* the process): one step of growth per packet is enough as long as no dataset
\* goes without a packet for more than Step frames (hdf5_lib.cc:160-178,
\* recorder_worker.cc:324-373).
WritesFit == MaxGap <= Step => fault # "extent"

\* A closed file is not longer than the run: with a limit, closing leaves
\* every dataset at limit + 1 frames or fewer (hdf5_lib.cc:143, 165-167).
Trimmed ==
  limit # 0 /\ ~open => \A d \in Datasets : dims[d] <= limit + 1

\* The file keeps the run, all of it and no more: nothing that was recorded is
\* cut off again, although the first growth may shrink a dataset to the limit
\* (hdf5_lib.cc:160-169).
FileIsTheRun ==
  [][Trimmed' /\ \A d \in Datasets : written[d] \subseteq written'[d]]_fileVars

\* Unless packets beyond the limit arrive, the datasets are open whenever they
\* are written or closed: closing at the target size opens them again, and the
\* last close is that of finalize (recorder_worker.cc:284-322).
OpenWithinLimit == fault = "null" => limit # 0 /\ beyond

\* The recorder dies only of a gap longer than a step of growth, or of packets
\* beyond the limit, for which closeDataset asserts that what the first of
\* them closed is open (hdf5_lib.cc:140, recorder_worker.cc:317-318).
FaultsExplained == WritesFit /\ OpenWithinLimit

=============================================================================
