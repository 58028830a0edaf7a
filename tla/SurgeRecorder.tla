--------------------------- MODULE SurgeRecorder ---------------------------
(***************************************************************************)
(* class SurgeRecorder of the simulator-side driver                        *)
(* (driver/include/surge/surge.hpp): once per clock it turns the annotated *)
(* signal into a surge score and sets the score's bin in shared memory.    *)
(*                                                                         *)
(* The bitmap is the set of its non-zero bins.  Counters are uint32_t:     *)
(* they live in 0 .. WordSize - 1 and their arithmetic is modulo WordSize. *)
(***************************************************************************)
EXTENDS Integers, FiniteSets

CONSTANTS
  HistorySize,  \* HISTORY_SIZE (256)
  SurgeBins,    \* bins of FUZZ_SURGE_SCORE_BITMAP (256)
  WordSize,     \* 2^32
  Counts        \* values the signal takes for the COUNT annotation

ASSUME HistoryAssumption == HistorySize \in Nat \ {0}
ASSUME BinsAssumption == SurgeBins \in Nat \ {0}
ASSUME WordAssumption ==
  WordSize \in Nat /\ HistorySize < WordSize /\ WordSize % HistorySize = 0
ASSUME CountsAssumption == Counts \subseteq 0 .. (WordSize - 1)

VARIABLES
  annotation_type,
  history,        \* static history[HISTORY_SIZE]
  freq,           \* static freq
  trace_count,    \* static trace_count
  cur_seq,        \* static cur_seq
  current_score,
  bitmap,
  aborted,        \* an assert() of the recorder has failed
  top             \* history: the largest score computed so far

recorderVars == <<annotation_type, history, freq, trace_count, cur_seq,
                  current_score, bitmap, aborted, top>>

Kinds == {"FREQ", "CONSEC", "COUNT"}
Index == 0 .. (HistorySize - 1)
Word == 0 .. (WordSize - 1)
Bin == 0 .. (SurgeBins - 1)

RecorderTypeOK ==
  /\ annotation_type \in Kinds
  /\ history \in [Index -> {0, 1}]
  /\ freq \in Word
  /\ trace_count \in Word
  /\ cur_seq \in Word
  /\ current_score \in Word
  /\ bitmap \subseteq Bin
  /\ aborted \in BOOLEAN
  /\ top \in Word

RecorderInit ==
  /\ annotation_type \in Kinds
  /\ history = [i \in Index |-> 0]
  /\ freq = 0
  /\ trace_count = 0
  /\ cur_seq = 0
  /\ current_score = 0
  /\ bitmap = {}
  /\ aborted = FALSE
  /\ top = 0

----------------------------------------------------------------------------
(* Mutated forms, used only to show that the properties can fail.          *)

SlotPlusOne(count) == (count + 1) % HistorySize
ForgetsOldest(f, oldest, signal) == (f + signal) % WordSize
LatestOnly(bins, score) == {score % SurgeBins}
UnmaskedBin(bins, score) == bins \cup {score}

----------------------------------------------------------------------------
(* assert_valid_signal *)
ValidSignal(signal) == signal \in {0, 1}

(* trace_count % HISTORY_SIZE: the slot of the oldest signal. *)
Slot(count) == count % HistorySize

(* freq -= the oldest signal; freq += the new one: modulo WordSize both. *)
Slide(f, oldest, signal) == (f - oldest + signal) % WordSize

(* (signal == 1) ? ++cur_seq : (cur_seq = 0) *)
Streak(seq, signal) == IF signal = 1 THEN (seq + 1) % WordSize ELSE 0

(* bitmap[current_score & 0xff] = 1 *)
SetBin(bins, score) == bins \cup {score % SurgeBins}

Scored(score) ==
  /\ current_score' = score
  /\ bitmap' = SetBin(bitmap, score)
  /\ top' = IF score > top THEN score ELSE top

UpdateFreq(signal) ==
  /\ annotation_type = "FREQ"
  /\ ValidSignal(signal)
  /\ freq' = Slide(freq, history[Slot(trace_count)], signal)
  /\ history' = [history EXCEPT ![Slot(trace_count)] = signal]
  /\ trace_count' = (trace_count + 1) % WordSize
  /\ IF freq' <= HistorySize
     THEN Scored(freq') /\ UNCHANGED aborted
     ELSE aborted' = TRUE /\ UNCHANGED <<current_score, bitmap, top>>
  /\ UNCHANGED <<annotation_type, cur_seq>>

(* Bound: no simulation runs for WordSize clocks. *)
UpdateConsec(signal) ==
  /\ annotation_type = "CONSEC"
  /\ ValidSignal(signal)
  /\ cur_seq < WordSize - 1
  /\ cur_seq' = Streak(cur_seq, signal)
  /\ Scored(cur_seq')
  /\ UNCHANGED <<annotation_type, history, freq, trace_count, aborted>>

UpdateCount(signal) ==
  /\ annotation_type = "COUNT"
  /\ Scored(signal)
  /\ UNCHANGED <<annotation_type, history, freq, trace_count, cur_seq, aborted>>

(* The annotation says FREQ or CONSEC and the signal is wider than a bit. *)
UpdateAborts(signal) ==
  /\ annotation_type \in {"FREQ", "CONSEC"}
  /\ ~ValidSignal(signal)
  /\ aborted' = TRUE
  /\ UNCHANGED <<annotation_type, history, freq, trace_count, cur_seq,
                 current_score, bitmap, top>>

(* SurgeRecorder::update *)
Update(signal) ==
  /\ ~aborted
  /\ \/ UpdateFreq(signal)
     \/ UpdateConsec(signal)
     \/ UpdateCount(signal)
     \/ UpdateAborts(signal)

----------------------------------------------------------------------------
(* PROPERTIES                                                              *)

MaxIndex(bins) ==
  IF bins = {} THEN 0 ELSE CHOOSE m \in bins : \A n \in bins : n <= m

(* The running counter freq never drifts from the ring buffer it summarises:
   the subtraction never wraps below zero and nothing is counted twice, at
   any point of the ring and across the wrap of trace_count
   (calc_freq_surge_score). *)
FreqCountsHistory ==
  freq = Cardinality({i \in Index : history[i] = 1})

(* Hence assert(freq <= HISTORY_SIZE) can never fail: the recorder only stops
   a simulation for a signal wider than one bit. *)
AbortOnlyOnWideSignal ==
  [][aborted' # aborted => UNCHANGED <<history, freq, bitmap>>]_recorderVars

(* As long as no score has reached the number of bins, the largest non-zero
   bin, which the fuzzer reads back as the run's score, is the largest score
   of the run (update, and Surge::score on the fuzzer's side). *)
BestIsExactBelowBins == top < SurgeBins => MaxIndex(bitmap) = top

(* The score the fuzzer reports for a run is the surge the run achieved
   (README.md: "the achieved surge score"). *)
ReportedScoreIsAchieved == MaxIndex(bitmap) = top

(* The ring buffer and the counters implement the score's meaning. *)
Meaning == INSTANCE SurgeWindow WITH
  kind   <- annotation_type,
  window <- [k \in 1 .. HistorySize |->
               history[(trace_count - k) % HistorySize]],
  streak <- cur_seq,
  score  <- current_score

ImplementsMeaning == Meaning!Spec
=============================================================================
