----------------------- MODULE SurgeFuzzDriverProofs -----------------------
(***************************************************************************)
(* Proofs about the simulator-side driver, for every history length, word  *)
(* size, number of bins and set of signals.                                *)
(***************************************************************************)
EXTENDS SurgeFuzzDriver, DataLemmas

----------------------------------------------------------------------------
(* The parts of WordAssumption that do not speak of a remainder (a uint32_t
   counts further than HISTORY_SIZE). *)
LEMMA WordFacts ==
  /\ WordSize \in Nat \ {0}
  /\ HistorySize < WordSize
  /\ 0 \in Word
<1>1. WordSize \in Nat /\ HistorySize < WordSize
  BY WordAssumption
<1> QED
  BY <1>1, HistoryAssumption DEF Word

----------------------------------------------------------------------------
(* The ring buffer.                                                        *)

Ones(h) == {i \in Index : h[i] = 1}

(* The number of ones in the ring buffer is at most its length
   (assert(freq <= HISTORY_SIZE) in calc_freq_surge_score). *)
LEMMA OnesBounded ==
  ASSUME NEW h \in [Index -> {0, 1}]
  PROVE  /\ IsFiniteSet(Ones(h))
         /\ Cardinality(Ones(h)) \in 0 .. HistorySize
<1>1. /\ IsFiniteSet(Index)
      /\ Cardinality(Index) = HistorySize
  BY FS_Interval, HistoryAssumption DEF Index
<1>2. Ones(h) \in SUBSET Index
  BY DEF Ones
<1>3. /\ IsFiniteSet(Ones(h))
      /\ Cardinality(Ones(h)) <= HistorySize
  BY <1>1, <1>2, FS_Subset
<1> QED
  BY <1>3, FS_CardinalityType, HistoryAssumption

(* Replacing the oldest signal by the new one changes the number of ones by
   their difference (freq -= history[...]; freq += annotated_signal). *)
LEMMA SlideCounts ==
  ASSUME NEW h \in [Index -> {0, 1}], NEW s \in Index, NEW signal \in {0, 1}
  PROVE  Cardinality(Ones([h EXCEPT ![s] = signal]))
           = Cardinality(Ones(h)) - h[s] + signal
<1> DEFINE g == [h EXCEPT ![s] = signal]
<1>1. /\ IsFiniteSet(Ones(h))
      /\ Cardinality(Ones(h)) \in Nat
  BY OnesBounded
<1>2. CASE signal = 1
  <2>1. Ones(g) = Ones(h) \cup {s}
    BY <1>2 DEF Ones
  <2>2. s \in Ones(h) <=> h[s] = 1
    BY DEF Ones
  <2>3. h[s] \in {0, 1}
    OBVIOUS
  <2>4. Cardinality(Ones(g)) =
          IF s \in Ones(h) THEN Cardinality(Ones(h)) ELSE Cardinality(Ones(h)) + 1
    BY <1>1, <2>1, FS_AddElement
  <2> QED
    BY <1>1, <1>2, <2>2, <2>3, <2>4
<1>3. CASE signal = 0
  <2>1. Ones(g) = Ones(h) \ {s}
    BY <1>3 DEF Ones
  <2>2. s \in Ones(h) <=> h[s] = 1
    BY DEF Ones
  <2>3. h[s] \in {0, 1}
    OBVIOUS
  <2>4. Cardinality(Ones(g)) =
          IF s \in Ones(h) THEN Cardinality(Ones(h)) - 1 ELSE Cardinality(Ones(h))
    BY <1>1, <2>1, FS_RemoveElement
  <2> QED
    BY <1>1, <1>3, <2>2, <2>3, <2>4
<1> QED
  BY <1>2, <1>3

----------------------------------------------------------------------------
(* The inductive invariant of the recorder.                                *)

(* What BestIsExactBelowBins needs at every step: below the number of bins no
   score shares a bin with a larger one. *)
BinsFollowTop ==
  top < SurgeBins =>
    /\ \A n \in bitmap : n <= top
    /\ top \in bitmap \/ (bitmap = {} /\ top = 0)

DriverInv ==
  /\ TypeOK
  /\ FreqCountsHistory
  /\ BinsFollowTop
  /\ CoverageIsOfOneClock

(* Before the first clock. *)
LEMMA InitEstablishesInv == Init => DriverInv
<1> SUFFICES ASSUME Init PROVE DriverInv
  OBVIOUS
<1> USE DEF Init, RecorderInit
<1>1. TypeOK
  <2>1. history \in [Index -> {0, 1}]
    OBVIOUS
  <2>2. RecorderTypeOK
    BY <2>1, WordFacts DEF RecorderTypeOK
  <2> QED
    BY <2>2 DEF TypeOK
<1>2. FreqCountsHistory
  <2>1. {i \in Index : history[i] = 1} = {}
    OBVIOUS
  <2> QED
    BY <2>1, FS_EmptySet DEF FreqCountsHistory
<1>3. BinsFollowTop
  BY DEF BinsFollowTop
<1>4. CoverageIsOfOneClock
  BY DEF CoverageIsOfOneClock
<1> QED
  BY <1>1, <1>2, <1>3, <1>4 DEF DriverInv

(* A word is never lost to the wrap of trace_count: the slot is an index of
   the ring buffer (calc_freq_surge_score). *)
LEMMA SlotInIndex ==
  ASSUME RecorderTypeOK
  PROVE  Slot(trace_count) \in Index
<1>1. trace_count \in Int
  BY DEF RecorderTypeOK, Word
<1> QED
  BY <1>1, ModBound, HistoryAssumption DEF Slot, Index

(* One FREQ update: freq is again the number of ones, so the assertion on it
   holds and the simulation goes on (calc_freq_surge_score). *)
LEMMA FreqStep ==
  ASSUME RecorderTypeOK, FreqCountsHistory, NEW signal, UpdateFreq(signal)
  PROVE  /\ history' \in [Index -> {0, 1}]
         /\ FreqCountsHistory'
         /\ freq' \in 0 .. HistorySize
         /\ freq' \in Word
         /\ trace_count' \in Word
<1> DEFINE s == Slot(trace_count)
<1>1. s \in Index
  BY SlotInIndex
<1>2. history \in [Index -> {0, 1}] /\ signal \in {0, 1}
  BY DEF RecorderTypeOK, UpdateFreq, ValidSignal
<1>3. history' = [history EXCEPT ![s] = signal]
  BY DEF UpdateFreq
<1>4. history' \in [Index -> {0, 1}]
  BY <1>2, <1>3
<1>5. Cardinality(Ones(history')) = freq - history[s] + signal
  BY <1>1, <1>2, <1>3, SlideCounts DEF FreqCountsHistory, Ones
<1>6. Cardinality(Ones(history')) \in 0 .. HistorySize
  BY <1>4, OnesBounded
<1>7. freq' = Cardinality(Ones(history'))
  <2>1. freq' = (freq - history[s] + signal) % WordSize
    BY DEF UpdateFreq, Slide
  <2>2. /\ WordSize \in Nat \ {0}
        /\ Cardinality(Ones(history')) \in 0 .. (WordSize - 1)
    BY <1>6, WordFacts, HistoryAssumption
  <2> QED
    BY <1>5, <2>1, <2>2, ModSmall
<1>8. FreqCountsHistory'
  BY <1>7 DEF FreqCountsHistory, Ones, Index
<1>9. trace_count' \in Word
  BY ModBound, WordFacts
     DEF UpdateFreq, RecorderTypeOK, Word
<1>10. freq' \in Word
  BY <1>6, <1>7, WordFacts, HistoryAssumption DEF Word
<1> QED
  BY <1>4, <1>6, <1>7, <1>8, <1>9, <1>10

(* A score sets one bin, and the bins follow the largest score
   (SurgeRecorder::update). *)
LEMMA ScoredStep ==
  ASSUME RecorderTypeOK, BinsFollowTop, NEW score \in Word, Scored(score)
  PROVE  /\ current_score' \in Word
         /\ bitmap' \subseteq Bin
         /\ top' \in Word
         /\ BinsFollowTop'
<1>1. /\ current_score' = score
      /\ top' = IF score > top THEN score ELSE top
      /\ bitmap' = bitmap \cup {score % SurgeBins}
  BY DEF Scored, SetBin
<1>2. score \in Int /\ top \in Int /\ SurgeBins \in Nat \ {0}
  BY BinsAssumption, WordFacts DEF RecorderTypeOK, Word
<1>3. bitmap' \subseteq Bin
  BY <1>1, <1>2, ModBound DEF RecorderTypeOK, Bin
<1>4. ASSUME top' < SurgeBins
      PROVE  /\ \A n \in bitmap' : n <= top'
             /\ top' \in bitmap'
  <2>1. score <= top' /\ top <= top' /\ top < SurgeBins /\ top' \in Int
    BY <1>1, <1>2, <1>4
  <2>2. score % SurgeBins = score
    <3>1. score \in 0 .. (SurgeBins - 1)
      BY <1>2, <1>4, <2>1 DEF Word
    <3> QED
      BY <1>2, <3>1, ModSmall
  <2>3. \A n \in bitmap : n <= top /\ n \in Int
    BY <2>1 DEF BinsFollowTop, RecorderTypeOK, Bin
  <2>4. \A n \in bitmap' : n <= top'
    BY <1>1, <1>2, <2>1, <2>2, <2>3
  <2>5. top' \in bitmap'
    <3>1. CASE score > top
      BY <1>1, <2>2, <3>1
    <3>2. CASE ~(score > top) /\ top \in bitmap
      BY <1>1, <3>2
    <3>3. CASE ~(score > top) /\ top = 0
      BY <1>1, <1>2, <2>2, <3>3 DEF Word
    <3> QED
      BY <2>1, <3>1, <3>2, <3>3 DEF BinsFollowTop
  <2> QED
    BY <2>4, <2>5
<1>5. BinsFollowTop'
  BY <1>4 DEF BinsFollowTop
<1> QED
  BY <1>1, <1>3, <1>5 DEF RecorderTypeOK

(* One update of the recorder keeps the recorder's part of the invariant, and
   stops the simulation only without having counted the signal
   (SurgeRecorder::update). *)
LEMMA UpdateStep ==
  ASSUME RecorderTypeOK, FreqCountsHistory, BinsFollowTop,
         NEW signal \in Signals, Update(signal)
  PROVE  /\ RecorderTypeOK'
         /\ FreqCountsHistory'
         /\ BinsFollowTop'
         /\ annotation_type' = annotation_type
         /\ aborted' # aborted => UNCHANGED <<history, freq, bitmap>>
<1>1. signal \in Word
  BY SignalsAssumption DEF Word
<1>2. CASE UpdateFreq(signal)
  <2>1. /\ history' \in [Index -> {0, 1}]
        /\ FreqCountsHistory'
        /\ freq' \in 0 .. HistorySize
        /\ freq' \in Word
        /\ trace_count' \in Word
    BY <1>2, FreqStep
  <2>2. freq' <= HistorySize
    BY <2>1, HistoryAssumption
  <2>3. Scored(freq') /\ aborted' = aborted
    BY <1>2, <2>2 DEF UpdateFreq
  <2>4. /\ current_score' \in Word
        /\ bitmap' \subseteq Bin
        /\ top' \in Word
        /\ BinsFollowTop'
    <3> DEFINE score == freq'
    <3>1. score \in Word /\ Scored(score)
      BY <2>1, <2>3
    <3> HIDE DEF score
    <3> QED
      BY <3>1, ScoredStep
  <2>5. annotation_type' = annotation_type /\ cur_seq' = cur_seq
    BY <1>2 DEF UpdateFreq
  <2>6. RecorderTypeOK'
    BY <2>1, <2>3, <2>4, <2>5 DEF RecorderTypeOK, Index, Word, Bin, Kinds
  <2> QED
    BY <2>1, <2>3, <2>4, <2>5, <2>6
<1>3. CASE UpdateConsec(signal)
  <2>1. cur_seq' \in Word
    <3>1. (cur_seq + 1) % WordSize \in Word
      BY ModBound, WordFacts DEF RecorderTypeOK, Word
    <3> QED
      BY <1>3, <3>1, WordFacts DEF UpdateConsec, Streak
  <2>2. /\ current_score' \in Word
        /\ bitmap' \subseteq Bin
        /\ top' \in Word
        /\ BinsFollowTop'
    <3> DEFINE score == cur_seq'
    <3>1. score \in Word /\ Scored(score)
      BY <1>3, <2>1 DEF UpdateConsec
    <3> HIDE DEF score
    <3> QED
      BY <3>1, ScoredStep
  <2>3. UNCHANGED <<annotation_type, history, freq, trace_count, aborted>>
    BY <1>3 DEF UpdateConsec
  <2>4. FreqCountsHistory'
    BY <2>3 DEF FreqCountsHistory
  <2>5. RecorderTypeOK'
    BY <2>1, <2>2, <2>3 DEF RecorderTypeOK, Index, Word, Bin, Kinds
  <2> QED
    BY <2>2, <2>3, <2>4, <2>5
<1>4. CASE UpdateCount(signal)
  <2>1. /\ current_score' \in Word
        /\ bitmap' \subseteq Bin
        /\ top' \in Word
        /\ BinsFollowTop'
    BY <1>1, <1>4, ScoredStep DEF UpdateCount
  <2>2. UNCHANGED <<annotation_type, history, freq, trace_count, cur_seq, aborted>>
    BY <1>4 DEF UpdateCount
  <2>3. FreqCountsHistory'
    BY <2>2 DEF FreqCountsHistory
  <2>4. RecorderTypeOK'
    BY <2>1, <2>2 DEF RecorderTypeOK, Index, Word, Bin, Kinds
  <2> QED
    BY <2>1, <2>2, <2>3, <2>4
<1>5. CASE UpdateAborts(signal)
  <2>1. /\ UNCHANGED <<annotation_type, history, freq, trace_count, cur_seq,
                       current_score, bitmap, top>>
        /\ aborted' = TRUE
    BY <1>5 DEF UpdateAborts
  <2>2. FreqCountsHistory' /\ BinsFollowTop'
    BY <2>1 DEF FreqCountsHistory, BinsFollowTop
  <2>3. RecorderTypeOK'
    BY <2>1 DEF RecorderTypeOK
  <2> QED
    BY <2>1, <2>2, <2>3
<1> QED
  BY <1>2, <1>3, <1>4, <1>5 DEF Update

----------------------------------------------------------------------------
(* The driver.                                                             *)

(* The coverage index is a natural number whatever the design shows
   (update_bitmap). *)
LEMMA CovIndexIsNat ==
  ASSUME NEW c \in Coverage, NEW s \in Word
  PROVE  CovIndex(c, s) \in Nat
<1>1. c \in Nat
  BY DEF Coverage
<1>2. s % ScoreSlots \in Nat
  BY ModBound, ScoreSlotsAssumption DEF Word
<1>3. c * ScoreSlots \in Nat
  BY <1>1, ScoreSlotsAssumption
<1> QED
  BY <1>1, <1>2, <1>3 DEF CovIndex

(* Every clock keeps the invariant. *)
LEMMA StepKeepsInv == DriverInv /\ [Next]_vars => DriverInv'
<1> SUFFICES ASSUME DriverInv, [Next]_vars PROVE DriverInv'
  OBVIOUS
<1>1. CASE Next
  <2>1. PICK signal \in Signals, c \in Coverage : CallPerOneCycle(signal, c)
    BY <1>1 DEF Next
  <2>2. /\ RecorderTypeOK'
        /\ FreqCountsHistory'
        /\ BinsFollowTop'
        /\ annotation_type' = annotation_type
    BY <2>1, UpdateStep DEF CallPerOneCycle, DriverInv, TypeOK
  <2>3. covBitmap' \subseteq Nat
    <3>1. CASE aborted'
      BY <2>1, <3>1 DEF CallPerOneCycle, DriverInv, TypeOK
    <3>2. CASE ~aborted'
      <4> DEFINE s == current_score'
      <4>1. s \in Word
        BY <2>2 DEF RecorderTypeOK, Word
      <4>2. covBitmap' = covBitmap \cup {CovIndex(c, s)}
        BY <2>1, <3>2 DEF CallPerOneCycle, ScoreOfThisClock
      <4> HIDE DEF s
      <4> QED
        BY <4>1, <4>2, CovIndexIsNat DEF DriverInv, TypeOK
    <3> QED
      BY <3>1, <3>2
  <2>4. CoverageIsOfOneClock'
    <3>1. CASE aborted'
      BY <2>1, <2>2, <3>1 DEF CallPerOneCycle, DriverInv, CoverageIsOfOneClock
    <3>2. CASE ~aborted'
      <4>1. /\ covBitmap' = covBitmap \cup {CovIndex(c, current_score')}
            /\ met' = met \cup {<<c, current_score'>>}
        BY <2>1, <3>2 DEF CallPerOneCycle, ScoreOfThisClock
      <4>2. covBitmap = {CovIndex(p[1], p[2]) : p \in met}
        BY DEF CovIndex, DriverInv, CoverageIsOfOneClock
      <4> DEFINE q == <<c, current_score'>>
      <4>3. {CovIndex(p[1], p[2]) : p \in met \cup {q}} =
              {CovIndex(p[1], p[2]) : p \in met} \cup {CovIndex(q[1], q[2])}
        OBVIOUS
      <4>4. covBitmap' = {CovIndex(p[1], p[2]) : p \in met'}
        BY <4>1, <4>2, <4>3
      <4> QED
        BY <2>2, <4>4 DEF CovIndex, CoverageIsOfOneClock
    <3> QED
      BY <3>1, <3>2
  <2> QED
    BY <2>2, <2>3, <2>4 DEF DriverInv, TypeOK
<1>2. CASE UNCHANGED vars
  BY <1>2 DEF vars, recorderVars, DriverInv, TypeOK, RecorderTypeOK,
              FreqCountsHistory, BinsFollowTop, CoverageIsOfOneClock
<1> QED
  BY <1>1, <1>2

(* DriverInv holds of every simulation (SurgeFuzzDriver::call_per_one_cycle). *)
THEOREM DriverInvariant == Spec => []DriverInv
  BY InitEstablishesInv, StepKeepsInv, PTL DEF Spec

----------------------------------------------------------------------------
(* The results.                                                            *)

(* The driver's variables keep their types: in particular no score ever sets
   a byte outside the score bitmap (bitmap[current_score & 0xff]). *)
THEOREM DriverTypeCorrect == Spec => []TypeOK
<1>1. DriverInv => TypeOK
  BY DEF DriverInv
<1> QED
  BY <1>1, DriverInvariant, PTL

(* For every history length the running counter equals the number of ones in
   the ring buffer, after any number of clocks (calc_freq_surge_score). *)
THEOREM FreqIsExact == Spec => []FreqCountsHistory
<1>1. DriverInv => FreqCountsHistory
  BY DEF DriverInv
<1> QED
  BY <1>1, DriverInvariant, PTL

(* The fuzzer reads back the largest score of the run as long as it is smaller
   than the number of bins (SurgeRecorder::update, Surge::score). *)
THEOREM BestIsExact == Spec => []BestIsExactBelowBins
<1>1. DriverInv => BestIsExactBelowBins
  <2> SUFFICES ASSUME DriverInv, top < SurgeBins PROVE MaxIndex(bitmap) = top
    BY DEF BestIsExactBelowBins
  <2>1. CASE bitmap = {}
    BY <2>1 DEF DriverInv, BinsFollowTop, MaxIndex
  <2>2. CASE bitmap # {}
    <3>1. top \in bitmap /\ \A n \in bitmap : n <= top /\ n \in Int
      <4>1. top \in bitmap /\ \A n \in bitmap : n <= top
        BY <2>2 DEF DriverInv, BinsFollowTop
      <4>2. bitmap \subseteq Int
        BY DEF DriverInv, TypeOK, RecorderTypeOK, Bin
      <4> QED
        BY <4>1, <4>2
    <3> DEFINE m == CHOOSE k \in bitmap : \A n \in bitmap : n <= k
    <3>2. m \in bitmap /\ \A n \in bitmap : n <= m
      BY <3>1
    <3>3. m = top
      BY <3>1, <3>2
    <3> QED
      BY <2>2, <3>3 DEF MaxIndex
  <2> QED
    BY <2>1, <2>2
<1> QED
  BY <1>1, DriverInvariant, PTL

(* No byte of the coverage bitmap mixes two clocks (SurgeFuzz::update after
   SurgeRecorder::update). *)
THEOREM CoverageIsExact == Spec => []CoverageIsOfOneClock
<1>1. DriverInv => CoverageIsOfOneClock
  BY DEF DriverInv
<1> QED
  BY <1>1, DriverInvariant, PTL

(* assert(freq <= HISTORY_SIZE) never fails: a simulation is only stopped by a
   signal wider than one bit, before it is counted (assert_valid_signal). *)
THEOREM OnlyWideSignalsAbort == Spec => AbortOnlyOnWideSignal
<1>1. DriverInv /\ [Next]_vars =>
        [aborted' # aborted => UNCHANGED <<history, freq, bitmap>>]_recorderVars
  <2> SUFFICES ASSUME DriverInv, [Next]_vars, aborted' # aborted
               PROVE  UNCHANGED <<history, freq, bitmap>>
    OBVIOUS
  <2>1. Next
    BY DEF vars, recorderVars
  <2>2. PICK signal \in Signals : Update(signal)
    BY <2>1 DEF Next, CallPerOneCycle
  <2> QED
    BY <2>2, UpdateStep DEF DriverInv, TypeOK
<1> QED
  BY <1>1, DriverInvariant, PTL DEF Spec, AbortOnlyOnWideSignal
----------------------------------------------------------------------------
(* The ring buffer and the counters mean what SurgeWindow says.            *)

(* Clocks less than a turn apart have slots of their own. *)
LEMMA SlotsDiffer ==
  ASSUME NEW m \in Nat \ {0}, NEW a \in Int, NEW d \in 1 .. (m - 1)
  PROVE  (a - d) % m # a % m
<1> SUFFICES ASSUME (a - d) % m = a % m PROVE FALSE
  OBVIOUS
<1> DEFINE p == a \div m
           q == (a - d) \div m
<1>1. a = m * p + (a % m) /\ p \in Int
  BY Quotient
<1>2. a - d = m * q + (a % m) /\ q \in Int
  BY Quotient
<1> HIDE DEF p, q
<1> DEFINE e == p - q
<1>3. m * e = d /\ e \in Int
  BY <1>1, <1>2
<1> HIDE DEF e
<1>4. m * e < m /\ -m < m * e
  BY <1>3
<1>5. e = 0
  BY <1>3, <1>4, LessThanATurn
<1> QED
  BY <1>3, <1>5

(* The last HISTORY_SIZE signals, the latest first. *)
Window == [k \in 1 .. HistorySize |-> history[(trace_count - k) % HistorySize]]

(* The slot of the clock k steps back is the same whether trace_count has
   wrapped or not, as the ring divides the word (calc_freq_surge_score). *)
LEMMA SlotAfterWrap ==
  ASSUME NEW t \in Word, NEW k \in Int
  PROVE  (((t + 1) % WordSize) - k) % HistorySize = (t + 1 - k) % HistorySize
<1> DEFINE q == WordSize \div HistorySize
<1>1. HistorySize \in Nat \ {0} /\ WordSize \in Nat \ {0} /\ t \in Int
  BY HistoryAssumption, WordFacts DEF Word
<1>2. WordSize = HistorySize * q /\ q \in Int
  BY <1>1, Quotient, WordAssumption
<1> HIDE DEF q
<1>3. CASE t + 1 = WordSize
  <2>1. (t + 1) % WordSize = 0
    BY <1>1, <1>3
  <2>2. ((0 - k) + HistorySize * q) % HistorySize = (0 - k) % HistorySize
    <3>1. 0 - k \in Int
      OBVIOUS
    <3> QED
      BY <1>1, <1>2, <3>1, WholeTurns
  <2>3. t + 1 - k = (0 - k) + HistorySize * q
    BY <1>1, <1>2, <1>3
  <2> QED
    BY <2>1, <2>2, <2>3
<1>4. CASE t + 1 # WordSize
  <2>1. t + 1 \in 0 .. (WordSize - 1)
    BY <1>1, <1>4 DEF Word
  <2>2. (t + 1) % WordSize = t + 1
    BY <1>1, <2>1, ModSmall
  <2> QED
    BY <1>1, <2>2
<1> QED
  BY <1>3, <1>4

(* A clock puts its signal in front of the window, and the others move back. *)
LEMMA WindowSlides ==
  ASSUME RecorderTypeOK, NEW signal, UpdateFreq(signal)
  PROVE  Window' = [k \in 1 .. HistorySize |->
                      IF k = 1 THEN signal ELSE Window[k - 1]]
<1>1. /\ HistorySize \in Nat \ {0}
      /\ trace_count \in Word /\ trace_count \in Int
      /\ history \in [Index -> {0, 1}]
  BY HistoryAssumption DEF RecorderTypeOK, Word
<1>2. /\ trace_count' = (trace_count + 1) % WordSize
      /\ history' = [history EXCEPT ![trace_count % HistorySize] = signal]
  BY DEF UpdateFreq, Slot
<1>3. trace_count % HistorySize \in Index
  BY <1>1, ModBound DEF Index
<1>4. ASSUME NEW k \in 1 .. HistorySize
      PROVE  history'[(trace_count' - k) % HistorySize] =
               IF k = 1 THEN signal ELSE Window[k - 1]
  <2>1. (trace_count' - k) % HistorySize = (trace_count + 1 - k) % HistorySize
    BY <1>1, <1>2, SlotAfterWrap
  <2>2. CASE k = 1
    <3>1. trace_count + 1 - k = trace_count
      BY <1>1, <2>2
    <3> QED
      BY <1>1, <1>2, <1>3, <2>1, <2>2, <3>1
  <2>3. CASE k # 1
    <3> DEFINE d == k - 1
    <3>1. d \in 1 .. (HistorySize - 1) /\ d \in 1 .. HistorySize
      BY <1>1, <2>3
    <3>2. trace_count + 1 - k = trace_count - d
      BY <1>1
    <3> HIDE DEF d
    <3>3. (trace_count - d) % HistorySize # trace_count % HistorySize
      BY <1>1, <3>1, SlotsDiffer
    <3>4. (trace_count - d) % HistorySize \in Index
      <4>1. trace_count - d \in Int
        BY <1>1, <3>1
      <4> QED
        BY <1>1, <4>1, ModBound DEF Index
    <3>5. history'[(trace_count - d) % HistorySize] =
            history[(trace_count - d) % HistorySize]
      BY <1>1, <1>2, <3>3, <3>4
    <3>6. Window[d] = history[(trace_count - d) % HistorySize]
      BY <3>1 DEF Window
    <3> QED
      BY <2>1, <2>3, <3>2, <3>5, <3>6 DEF d
  <2> QED
    BY <2>2, <2>3
<1> QED
  BY <1>4 DEF Window

(* The two modules count alike. *)
LEMMA SameCardinality == \A T : Meaning!Cardinality(T) = Cardinality(T)
  BY DEF Meaning!Cardinality, Cardinality

(* As many signals of the window are set as slots of the ring buffer are. *)
LEMMA WindowOnes ==
  ASSUME NEW h \in [Index -> {0, 1}], NEW t \in Word,
         NEW w, w = [k \in 1 .. HistorySize |-> h[(t - k) % HistorySize]]
  PROVE  Meaning!Ones(w) = Cardinality(Ones(h))
<1> DEFINE S == {k \in 1 .. HistorySize : w[k] = 1}
           slot == [k \in S |-> (t - k) % HistorySize]
<1>1. HistorySize \in Nat \ {0} /\ t \in Int
  BY HistoryAssumption, WordFacts DEF Word
<1>2. IsFiniteSet(S)
  <2>1. IsFiniteSet(1 .. HistorySize)
    BY <1>1, FS_Interval
  <2>2. S \in SUBSET (1 .. HistorySize)
    OBVIOUS
  <2> QED
    BY <2>1, <2>2, FS_Subset
<1>3. \A k \in S : /\ k \in 1 .. HistorySize
                   /\ slot[k] \in Index /\ h[slot[k]] = 1
  <2> SUFFICES ASSUME NEW k \in S
               PROVE  (t - k) % HistorySize \in Index
    OBVIOUS
  <2>1. t - k \in Int
    BY <1>1
  <2> QED
    BY <1>1, <2>1, ModBound DEF Index
<1>4. slot \in [S -> Ones(h)]
  BY <1>3 DEF Ones
<1>5. \A j, k \in S : slot[j] = slot[k] => j = k
  <2>1. ASSUME NEW j \in S, NEW k \in S, j < k
        PROVE  slot[j] # slot[k]
    <3> DEFINE a == t - j
               d == k - j
    <3>1. a \in Int /\ d \in 1 .. (HistorySize - 1) /\ t - k = a - d
      BY <1>1, <2>1
    <3>2. slot[j] = a % HistorySize /\ slot[k] = (a - d) % HistorySize
      BY <3>1
    <3> HIDE DEF a, d
    <3> QED
      BY <1>1, <3>1, <3>2, SlotsDiffer
  <2>2. \A j, k \in S : j < k \/ k < j \/ j = k
    BY <1>1
  <2> HIDE DEF S, slot
  <2> QED
    BY <2>1, <2>2
<1>6. ASSUME NEW i \in Ones(h) PROVE \E k \in S : slot[k] = i
  <2>1. i \in 0 .. (HistorySize - 1) /\ h[i] = 1
    BY DEF Ones, Index
  <2> DEFINE q == (t - 1 - i) \div HistorySize
             r == (t - 1 - i) % HistorySize
             k == r + 1
  <2>2. t - 1 - i = HistorySize * q + r /\ q \in Int /\ r \in 0 .. (HistorySize - 1)
    <3>1. t - 1 - i \in Int
      BY <1>1, <2>1
    <3> QED
      BY <1>1, <3>1, Quotient
  <2>3. k \in 1 .. HistorySize
    <3> HIDE DEF r
    <3> QED
      BY <1>1, <2>2
  <2>4. t - k = i + HistorySize * q
    <3> HIDE DEF q, r
    <3> QED
      BY <1>1, <2>1, <2>2
  <2>5. (t - k) % HistorySize = i
    <3> HIDE DEF q, k
    <3>1. (i + HistorySize * q) % HistorySize = i % HistorySize
      <4>1. i \in Int /\ q \in Int
        BY <2>1, <2>2
      <4> QED
        BY <1>1, <4>1, WholeTurns
    <3> QED
      BY <1>1, <2>1, <2>4, <3>1, ModSmall
  <2> HIDE DEF k
  <2> QED
    BY <2>1, <2>3, <2>5
<1>7. slot \in Injection(S, Ones(h)) /\ slot \in Surjection(S, Ones(h))
  BY <1>4, <1>5, <1>6 DEF Injection, IsInjective, Surjection
<1>8. Cardinality(Ones(h)) = Cardinality(S)
  <2> HIDE DEF S, slot
  <2> QED
    BY <1>2, <1>7, FS_Surjection
<1>9. Meaning!Ones(w) = Cardinality(S)
  BY SameCardinality DEF Meaning!Ones
<1> QED
  BY <1>8, <1>9

(* A step of the driver is a step of the score's meaning, or none: it slides
   the window, follows the streak or takes the signal, and scores it
   (SurgeRecorder::update). *)
LEMMA StepMeans == DriverInv /\ [Next]_vars => [Meaning!Next]_(Meaning!windowVars)
<1> SUFFICES ASSUME DriverInv, [Next]_vars
             PROVE  [Meaning!Next]_<<annotation_type, Window, cur_seq, current_score>>
  BY DEF Meaning!windowVars, Window
<1>1. RecorderTypeOK /\ FreqCountsHistory
  BY DEF DriverInv, TypeOK
<1>2. CASE UNCHANGED vars
  BY <1>2 DEF vars, recorderVars, Window
<1>3. ASSUME NEW signal \in Signals, Update(signal),
             annotation_type = "COUNT" => signal \in Counts
      PROVE  [Meaning!Next]_<<annotation_type, Window, cur_seq, current_score>>
  <2>1. CASE UpdateFreq(signal)
    <3>1. Window' = [k \in 1 .. HistorySize |->
                       IF k = 1 THEN signal ELSE Window[k - 1]]
      BY <1>1, <2>1, WindowSlides
    <3>2. /\ history' \in [Index -> {0, 1}] /\ FreqCountsHistory'
          /\ freq' \in 0 .. HistorySize /\ trace_count' \in Word
      BY <1>1, <2>1, FreqStep
    <3>3. current_score' = freq' /\ UNCHANGED <<annotation_type, cur_seq>>
      BY <2>1, <3>2, HistoryAssumption DEF UpdateFreq, Scored
    <3>4. Meaning!Ones(Window') = freq'
      <4>1. Window' = [k \in 1 .. HistorySize |->
                         history'[(trace_count' - k) % HistorySize]]
        BY DEF Window
      <4>2. Meaning!Ones(Window') = Cardinality(Ones(history'))
        BY <3>2, <4>1, WindowOnes
      <4> QED
        BY <3>2, <4>2 DEF FreqCountsHistory, Ones
    <3>5. Meaning!ObserveFreq(signal)
      BY <2>1, <3>1, <3>3, <3>4 DEF UpdateFreq, Meaning!ObserveFreq, Window
    <3> QED
      BY <2>1, <3>5 DEF UpdateFreq, ValidSignal, Meaning!Next
  <2>2. CASE UpdateConsec(signal)
    <3>1. /\ annotation_type = "CONSEC" /\ signal \in {0, 1}
          /\ cur_seq' = IF signal = 1 THEN cur_seq + 1 ELSE 0
          /\ current_score' = cur_seq'
          /\ UNCHANGED <<annotation_type, history, trace_count>>
      <4>1. cur_seq + 1 \in 0 .. (WordSize - 1)
        BY <1>1, <2>2, WordFacts DEF UpdateConsec, RecorderTypeOK, Word
      <4>2. (cur_seq + 1) % WordSize = cur_seq + 1
        BY <4>1, WordFacts, ModSmall
      <4> QED
        BY <2>2, <4>2 DEF UpdateConsec, Streak, Scored, ValidSignal
    <3>2. Meaning!ObserveConsec(signal)
      BY <3>1 DEF Meaning!ObserveConsec
    <3> QED
      BY <3>1, <3>2 DEF Meaning!Next
  <2>3. CASE UpdateCount(signal)
    <3>1. Meaning!ObserveCount(signal)
      BY <2>3 DEF UpdateCount, Scored, Meaning!ObserveCount
    <3> QED
      BY <1>3, <2>3, <3>1 DEF UpdateCount, Meaning!Next
  <2>4. CASE UpdateAborts(signal)
    BY <2>4 DEF UpdateAborts, Window
  <2> QED
    BY <1>3, <2>1, <2>2, <2>3, <2>4 DEF Update
<1> QED
  BY <1>2, <1>3 DEF Next, CallPerOneCycle

(* Ring buffer, running counter and streak implement the meaning of the score,
   across every turn of the ring and every wrap of trace_count
   (SurgeRecorder::update). *)
THEOREM RecorderImplementsMeaning == Spec => ImplementsMeaning
<1>1. Init => Meaning!Init
  <2> SUFFICES ASSUME Init PROVE Meaning!Init
    OBVIOUS
  <2>1. \A k \in 1 .. HistorySize : history[(trace_count - k) % HistorySize] = 0
    BY HistoryAssumption, ModBound DEF Init, RecorderInit, Index
  <2> QED
    BY <2>1 DEF Init, RecorderInit, Kinds, Meaning!Init
<1> QED
  BY <1>1, StepMeans, DriverInvariant, PTL DEF Spec, ImplementsMeaning, Meaning!Spec

=============================================================================
