--------------------------- MODULE FuzzLoopProofs ---------------------------
(***************************************************************************)
(* Proofs about the fuzzing campaign, for every design, corpus size, pipe  *)
(* capacity and number of cycles: first its corpus, coverage and ends,     *)
(* then the books it keeps - under which assertion line a failed run is    *)
(* booked, the lineage and the use counts in the corpus, the statistics    *)
(* and the files of crashing inputs, and the saved corpus.                 *)
(***************************************************************************)
EXTENDS FuzzLoop, DataLemmas

----------------------------------------------------------------------------
(* The largest index of a bitmap (Surge::get_max_value).                   *)

(* A bitmap with a non-zero byte has a last one. *)
LEMMA MaxExists ==
  ASSUME NEW bins \in SUBSET Bin, bins # {}
  PROVE  \E m \in bins : \A n \in bins : n <= m
<1> DEFINE T == {SurgeBins - 1 - m : m \in bins}
<1>1. T \subseteq Nat /\ T # {}
  BY SurgeBinsAssumption DEF Bin
<1>2. PICK x \in T : \A y \in T : ~(<<y, x>> \in OpToRel(<, Nat))
  BY <1>1, NatLessThanWellFounded, WFMin
<1>3. \A y \in T : x <= y
  <2> HIDE DEF T
  <2>1. ASSUME NEW y \in T PROVE x <= y
    <3>1. y \in Nat /\ x \in Nat
      BY <1>1
    <3>2. ~(y < x)
      BY <1>2, <3>1 DEF OpToRel
    <3> QED
      BY <3>1, <3>2
  <2> QED
    BY <2>1
<1>4. PICK m \in bins : x = SurgeBins - 1 - m
  OBVIOUS
<1>5. \A n \in bins : n <= m
  <2> SUFFICES ASSUME NEW n \in bins PROVE n <= m
    OBVIOUS
  <2>1. x <= SurgeBins - 1 - n
    BY <1>3
  <2>2. m \in Int /\ n \in Int /\ SurgeBins \in Int
    BY SurgeBinsAssumption DEF Bin
  <2> QED
    BY <1>4, <2>1, <2>2
<1> QED
  BY <1>5

(* get_max_value answers a bin, the last non-zero one if there is one. *)
LEMMA MaxIndexFacts ==
  ASSUME NEW bins \in SUBSET Bin
  PROVE  /\ MaxIndex(bins) \in Bin
         /\ \A n \in bins : n <= MaxIndex(bins)
         /\ bins # {} => MaxIndex(bins) \in bins
<1>1. CASE bins = {}
  BY <1>1, SurgeBinsAssumption DEF MaxIndex, Bin
<1>2. CASE bins # {}
  BY <1>2, MaxExists DEF MaxIndex
<1> QED
  BY <1>1, <1>2

(* The best score of more runs is not smaller. *)
LEMMA MaxIndexMonotone ==
  ASSUME NEW S \in SUBSET Bin, NEW T \in SUBSET Bin, S \subseteq T
  PROVE  MaxIndex(S) <= MaxIndex(T)
<1>1. MaxIndex(T) \in Bin /\ \A n \in T : n <= MaxIndex(T)
  BY MaxIndexFacts
<1>2. CASE S = {}
  BY <1>1, <1>2 DEF MaxIndex, Bin
<1>3. CASE S # {}
  BY <1>1, <1>3, MaxIndexFacts
<1> QED
  BY <1>2, <1>3

(* Monitor::update adds the segments to the bitmaps. *)
LEMMA MonitorUpdateIsUnion ==
  ASSUME NEW b \in Bitmaps, NEW s \in Bitmaps
  PROVE  /\ MonitorUpdate(b, s) \in Bitmaps
         /\ MonitorUpdate(b, s).cov = b.cov \cup s.cov
         /\ MonitorUpdate(b, s).surge = b.surge \cup s.surge
  BY DEF Bitmaps, MonitorUpdate

(* The number of reached bins is a number (Surge::coverage_count). *)
LEMMA BinCount ==
  ASSUME NEW bins \in SUBSET Bin
  PROVE  Cardinality(bins) \in Nat
<1>1. IsFiniteSet(Bin)
  BY FS_Interval, SurgeBinsAssumption DEF Bin
<1> QED
  BY <1>1, FS_Subset, FS_CardinalityType

----------------------------------------------------------------------------
(* Type correctness, action by action.                                     *)

ExecTypes == pc \in Phases /\ ExecTypeOK

(* The phases of an execution are phases of the loop. *)
LEMMA PhaseStrings ==
  /\ ExecPhases \subseteq Phases
  /\ {"loop", "input", "build", "admit", "record", "save", "done", "failed"}
       \subseteq Phases
  BY DEF Phases

(* Wait statuses are natural numbers (sys/wait.h). *)
LEMMA StatusIsNat ==
  /\ EndStatus \subseteq Nat
  /\ Exited(1) \in Nat
  BY DEF EndStatus, Exited, Killed

(* The crash of a feedback is a line of the design, 0 or nothing
   (Feedback::get_crash_line). *)
LEMMA CrashLineType ==
  ASSUME NEW success \in BOOLEAN, NEW out \in Seq(Chunk)
  PROVE  CrashLine(success, out) \in Line \cup {NoLine, None}
<1>1. FirstAssertion(out) \in Chunk
  <2>1. CASE \E i \in DOMAIN out : out[i] # NoLine
    <3>1. \E i \in DOMAIN out :
            /\ out[i] # NoLine
            /\ \A j \in DOMAIN out : j < i => out[j] = NoLine
      <4> DEFINE T == {i \in DOMAIN out : out[i] # NoLine}
      <4>1. T \subseteq Nat /\ T # {}
        BY <2>1
      <4>2. PICK x \in T : \A y \in T : ~(<<y, x>> \in OpToRel(<, Nat))
        BY <4>1, NatLessThanWellFounded, WFMin
      <4>3. ASSUME NEW j \in DOMAIN out, j < x PROVE out[j] = NoLine
        <5>1. j \in Nat /\ x \in Nat
          BY <4>1
        <5>2. <<j, x>> \in OpToRel(<, Nat)
          BY <4>3, <5>1 DEF OpToRel
        <5> QED
          BY <4>2, <5>2
      <4> QED
        BY <4>2, <4>3
    <3> QED
      BY <2>1, <3>1 DEF FirstAssertion
  <2>2. CASE ~\E i \in DOMAIN out : out[i] # NoLine
    BY <2>2 DEF FirstAssertion, Chunk
  <2> QED
    BY <2>1, <2>2
<1> QED
  BY <1>1 DEF CrashLine, Chunk

(* Executor::run up to the fork. *)
LEMMA StartTypes ==
  ASSUME ExecTypes, StartRun \/ RunForkFails
  PROVE  ExecTypes'
<1> USE DEF ExecTypes, ExecTypeOK
<1>1. /\ NoOutput \in Streams
      /\ Empty \in Bitmaps
      /\ NoRun \in [cov : SUBSET Point, surge : SUBSET Bin, out : Seq(Chunk),
                    err : Nat, clocks : Nat]
  BY DEF NoOutput, Streams, Empty, Bitmaps, NoRun
<1>2. CASE StartRun
  BY <1>1, <1>2, PhaseStrings
     DEF StartRun, MonitorReset, ClearedBuffers, WriteEndsAfterFork,
         ChildStates, ExecPhases
<1>3. CASE RunForkFails
  BY <1>1, <1>3, PhaseStrings DEF RunForkFails, MonitorReset, ClearedBuffers
<1> QED
  BY <1>2, <1>3

RunType == [cov : SUBSET Point, surge : SUBSET Bin, out : Seq(Chunk),
            err : Nat, clocks : Nat]

(* What is in the pipes and buffers stays a pair of streams, whatever is
   written or read (Pipe, read_chunk). *)
LEMMA StreamTypes ==
  ASSUME NEW s \in Streams
  PROVE  /\ [s EXCEPT !.err = @ + 1] \in Streams
         /\ s.err > 0 => [s EXCEPT !.err = @ - 1] \in Streams
         /\ \A c \in Chunk : [s EXCEPT !.out = Append(@, c)] \in Streams
         /\ s.out # <<>> => /\ [s EXCEPT !.out = Tail(@)] \in Streams
                            /\ Head(s.out) \in Chunk
<1>1. s.err \in Nat /\ s.out \in Seq(Chunk)
  BY DEF Streams
<1>2. /\ s.err + 1 \in Nat
      /\ s.err > 0 => s.err - 1 \in Nat
      /\ \A c \in Chunk : Append(s.out, c) \in Seq(Chunk)
      /\ s.out # <<>> => Tail(s.out) \in Seq(Chunk) /\ Head(s.out) \in Chunk
  BY <1>1
<1> QED
  BY <1>1, <1>2 DEF Streams

(* The record of a run stays one, whatever the simulation does. *)
LEMMA RunTypes ==
  ASSUME NEW r \in RunType
  PROVE  /\ [r EXCEPT !.err = @ + 1] \in RunType
         /\ \A c \in Chunk : [r EXCEPT !.out = Append(@, c)] \in RunType
         /\ \A p \in Point, n \in Bin :
              [r EXCEPT !.cov = @ \cup {p}, !.surge = @ \cup {n},
                        !.clocks = @ + 1] \in RunType
<1>1. /\ r.err + 1 \in Nat
      /\ r.clocks + 1 \in Nat
      /\ \A c \in Chunk : Append(r.out, c) \in Seq(Chunk)
      /\ \A p \in Point : r.cov \cup {p} \in SUBSET Point
      /\ \A n \in Bin : r.surge \cup {n} \in SUBSET Bin
  BY DEF RunType
<1> QED
  BY <1>1 DEF RunType

(* The simulator process. *)
LEMMA ChildTypes ==
  ASSUME ExecTypes, Child
  PROVE  ExecTypes'
<1> USE DEF ExecTypes, ExecTypeOK, childUnchanged
<1>1. CASE ChildExec
  BY <1>1 DEF ChildExec, ChildStates
<1>2. CASE ChildExecFails
  <2>1. child' \in [st : ChildStates, status : Nat]
    BY <1>2, StatusIsNat DEF ChildExecFails, ChildStates
  <2>2. pipe' \in Streams /\ run' \in RunType
    BY <1>2, StreamTypes, RunTypes DEF ChildExecFails, RunType
  <2> QED
    BY <1>2, <2>1, <2>2 DEF ChildExecFails, RunType
<1>3. ASSUME NEW p \in Point, NEW n \in Bin, Clock(p, n) PROVE ExecTypes'
  <2>1. shm' \in Bitmaps
    BY <1>3 DEF Clock, Bitmaps
  <2>2. run' \in RunType
    BY <1>3, RunTypes DEF Clock, RunType
  <2> QED
    BY <1>3, <2>1, <2>2 DEF Clock, RunType
<1>4. ASSUME NEW c \in Chunk, PrintOut(c) PROVE ExecTypes'
  <2>1. child' \in [st : ChildStates, status : Nat]
    BY <1>4 DEF PrintOut, ChildStates
  <2>2. run \in RunType /\ pipe \in Streams
    BY DEF RunType
  <2>3. CASE Len(pipe.out) < PipeCapacity
    <3>1. /\ pipe' = [pipe EXCEPT !.out = Append(@, c)]
          /\ run' = [run EXCEPT !.out = Append(@, c)]
      BY <1>4, <2>3 DEF PrintOut
    <3>2. pipe' \in Streams
      BY <2>2, <3>1, StreamTypes
    <3>3. run' \in RunType
      BY <2>2, <3>1, RunTypes
    <3> QED
      BY <1>4, <2>1, <3>2, <3>3 DEF PrintOut, RunType
  <2>4. CASE ~(Len(pipe.out) < PipeCapacity)
    BY <1>4, <2>1, <2>4 DEF PrintOut
  <2> QED
    BY <2>3, <2>4
<1>5. CASE PrintErr
  <2>1. child' \in [st : ChildStates, status : Nat]
    BY <1>5 DEF PrintErr, ChildStates
  <2>2. pipe' \in Streams /\ run' \in RunType
    BY <1>5, StreamTypes, RunTypes DEF PrintErr, RunType
  <2> QED
    BY <1>5, <2>1, <2>2 DEF PrintErr, RunType
<1>6. ASSUME NEW status \in EndStatus, ChildExit(status) PROVE ExecTypes'
  BY <1>6, StatusIsNat DEF ChildExit, ChildStates
<1> QED
  BY <1>1, <1>2, <1>3, <1>4, <1>5, <1>6 DEF Child

(* Executor::run from waitpid to the last read. *)
LEMMA DrainTypes ==
  ASSUME ExecTypes, WaitPid \/ DrainOut \/ DrainErr
  PROVE  ExecTypes'
<1> USE DEF ExecTypes, ExecTypeOK
<1>1. CASE WaitPid
  BY <1>1, PhaseStrings DEF WaitPid, ChildStates, ExecPhases
<1>2. CASE DrainOut
  <2>1. pc' \in Phases
    BY <1>2, PhaseStrings DEF DrainOut, ExecPhases
  <2>2. pipe' \in Streams /\ buf' \in Streams
    <3>1. CASE /\ pipe.out # <<>>
               /\ buf' = [buf EXCEPT !.out = Append(@, Head(pipe.out))]
               /\ pipe' = [pipe EXCEPT !.out = Tail(@)]
      <4>1. Head(pipe.out) \in Chunk /\ pipe' \in Streams
        BY <3>1, StreamTypes
      <4>2. buf' \in Streams
        BY <3>1, <4>1, StreamTypes
      <4> QED
        BY <4>1, <4>2
    <3>2. CASE UNCHANGED <<buf, pipe>>
      BY <3>2
    <3> QED
      BY <1>2, <3>1, <3>2 DEF DrainOut
  <2> QED
    BY <1>2, <2>1, <2>2 DEF DrainOut
<1>3. CASE DrainErr
  <2>1. pc' \in Phases
    BY <1>3, PhaseStrings DEF DrainErr, ExecPhases
  <2>2. pipe' \in Streams /\ buf' \in Streams
    BY <1>3, StreamTypes DEF DrainErr
  <2> QED
    BY <1>3, <2>1, <2>2 DEF DrainErr
<1> QED
  BY <1>1, <1>2, <1>3

(* The feedback of a run (Executor::run, Feedback). *)
LEMMA FeedbackTypes ==
  ASSUME ExecTypes, ReturnFeedback
  PROVE  ExecTypes'
<1> USE DEF ExecTypes, ExecTypeOK
<1>1. bitmap \in Bitmaps /\ shm \in Bitmaps
  OBVIOUS
<1>2. MonitorUpdate(bitmap, shm) \in Bitmaps
  BY <1>1, MonitorUpdateIsUnion
<1>3. shm.surge \in SUBSET Bin /\ MonitorUpdate(bitmap, shm).surge \in SUBSET Bin
  BY <1>1, <1>2 DEF Bitmaps
<1>4. MakeFeedback(bitmap, shm) \in Feedbacks
  <2>1. (child.status = 0) \in BOOLEAN
    OBVIOUS
  <2>2. MaxIndex(shm.surge) \in Bin /\ BestScore(bitmap, shm) \in Bin
    BY <1>3, MaxIndexFacts DEF BestScore
  <2>3. Cardinality(MonitorUpdate(bitmap, shm).surge) \in Nat
    BY <1>3, BinCount
  <2>4. Energy(MaxIndex(shm.surge)) \in Nat
    BY <2>2 DEF Energy, Bin
  <2>5. NewCoverage(bitmap, shm) \in BOOLEAN
    BY DEF NewCoverage
  <2> QED
    BY <2>1, <2>2, <2>3, <2>4, <2>5 DEF MakeFeedback, Feedbacks
<1> QED
  BY <1>2, <1>4, PhaseStrings DEF ReturnFeedback

(* Seed::used counts up and changes nothing else. *)
LEMMA UsedSeed ==
  ASSUME NEW s \in Seeds
  PROVE  [s EXCEPT !.used = @ + 1] \in Seeds
<1>1. s.used \in Nat
  BY DEF Seeds
<1>2. s.used + 1 \in Nat
  BY <1>1
<1> QED
  BY <1>2 DEF Seeds

(* The corpus stays a sequence of seeds when a seed is used or added
   (Seed::used, Corpus::add_new_input). *)
LEMMA CorpusTypes ==
  ASSUME CorpusTypeOK
  PROVE  /\ \A i \in DOMAIN corpus : MarkUsed(corpus, i) \in Seq(Seeds)
         /\ \A cycle \in Nat, energy \in Nat, score \in Nat,
               seed \in Nat \cup {None} :
              AddNewInput(cycle, energy, score, seed) => corpus' \in Seq(Seeds)
<1> USE DEF CorpusTypeOK
<1>1. ASSUME NEW i \in DOMAIN corpus
      PROVE  MarkUsed(corpus, i) \in Seq(Seeds)
  <2>1. corpus[i] \in Seeds
    OBVIOUS
  <2>2. \A s \in Seeds : [s EXCEPT !.used = @ + 1] \in Seeds
    BY UsedSeed
  <2>3. MarkUsed(corpus, i) = [corpus EXCEPT ![i] = [corpus[i] EXCEPT !.used = @ + 1]]
    BY DEF MarkUsed
  <2> QED
    BY <2>1, <2>2, <2>3
<1>2. ASSUME NEW cycle \in Nat, NEW energy \in Nat, NEW score \in Nat,
             NEW seed \in Nat \cup {None},
             AddNewInput(cycle, energy, score, seed)
      PROVE  corpus' \in Seq(Seeds)
  <2>1. NewId(corpus, seed) \in Nat /\ NewPid(seed) \in Nat
    BY DEF NewId, NewPid
  <2> QED
    BY <1>2, <2>1 DEF AddNewInput, Seeds
<1> QED
  BY <1>1, <1>2

(* Counting a run, crashed or not, keeps the counters' types and leaves the
   best score alone (State::update). *)
LEMMA CountedTypes ==
  ASSUME StateTypeOK, NEW crash \in Line \cup {NoLine, None}
  PROVE  /\ Counted(crash) \in [current_cycle : Nat, total_crashes : Nat,
                                crash_lines : [CrashLines -> Nat],
                                best : Nat, count : Nat]
         /\ Counted(crash).best = stats.best
<1> USE DEF StateTypeOK
<1>1. /\ stats.current_cycle + 1 \in Nat
      /\ stats.total_crashes + (IF crash = None THEN 0 ELSE 1) \in Nat
  OBVIOUS
<1>2. (IF crash = None THEN stats.crash_lines
       ELSE CountCrash(stats.crash_lines, crash)) \in [CrashLines -> Nat]
  <2>1. crash # None => crash \in CrashLines
    BY CrashLinesAssumption
  <2> QED
    BY <2>1 DEF CountCrash
<1> QED
  BY <1>1, <1>2 DEF Counted

(* The statistics keep their types (State::update). *)
LEMMA StateTypes ==
  ASSUME StateTypeOK, NEW fb \in Feedbacks, NEW crash \in Line \cup {NoLine, None},
         NEW seed \in Nat \cup {None}, NEW input \in Nat,
         StateUpdate(fb, crash, seed, input)
  PROVE  StateTypeOK' /\ stats'.best = fb.best
<1>1. fb.best \in Nat /\ fb.count \in Nat
  BY DEF Feedbacks, Bin
<1>2. stats' \in [current_cycle : Nat, total_crashes : Nat,
                  crash_lines : [CrashLines -> Nat], best : Nat, count : Nat]
      /\ stats'.best = fb.best
  BY <1>1, CountedTypes DEF StateUpdate
<1>3. crashes' \subseteq [cycle : Nat, seed : Nat \cup {None}, content : Nat]
  BY DEF StateUpdate, SavedInput, StateTypeOK
<1> QED
  BY <1>2, <1>3 DEF StateTypeOK

(* What the crash line of the last feedback is (Feedback::get_crash_line). *)
LEMMA LastCrashLine ==
  ASSUME ExecTypeOK
  PROVE  GetCrashLine \in Line \cup {NoLine, None}
<1>1. feedback.success \in BOOLEAN
  BY DEF ExecTypeOK, Feedbacks
<1>2. buf.out \in Seq(Chunk)
  BY DEF ExecTypeOK, Streams
<1> QED
  BY <1>1, <1>2, CrashLineType DEF GetCrashLine

LoopTypes ==
  /\ fuzz_cycle \in Nat
  /\ expired \in BOOLEAN
  /\ inputFile \in Nat
  /\ artifact \in Nat
  /\ seedId \in Nat \cup {None}
  /\ parent \in Nat
  /\ hist \in Seq(Runs)

(* The parts of the type invariant. *)
LEMMA TypeParts ==
  TypeOK <=> ExecTypes /\ CorpusTypeOK /\ StateTypeOK /\ LoopTypes
  BY DEF TypeOK, ExecTypes, LoopTypes

(* The initial states have the types. *)
LEMMA TypeInit == Init => TypeOK
<1> SUFFICES ASSUME Init PROVE TypeOK
  OBVIOUS
<1>1. ExecTypes
  BY PhaseStrings, SurgeBinsAssumption
     DEF Init, ExecInit, ExecTypes, ExecTypeOK, ChildStates, NoOutput, Streams,
         Empty, Bitmaps, Feedbacks, Bin, NoRun
<1>2. CorpusTypeOK
  BY DEF Init, CorpusInit, CorpusTypeOK
<1>3. StateTypeOK
  <2>1. [l \in CrashLines |-> 0] \in [CrashLines -> Nat]
    OBVIOUS
  <2> QED
    BY <2>1 DEF Init, StateInit, StateTypeOK
<1>4. LoopTypes
  <2>1. hist = <<>> /\ hist \in Seq(Runs)
    BY DEF Init
  <2>2. expired \in BOOLEAN
    BY DEF Init
  <2> QED
    BY <2>1, <2>2 DEF Init, LoopTypes
<1> QED
  BY <1>1, <1>2, <1>3, <1>4, TypeParts

(* Every step keeps the types. *)
LEMMA TypeStep == TypeOK /\ [Next]_vars => TypeOK'
<1> SUFFICES ASSUME TypeOK, [Next]_vars PROVE TypeOK'
  OBVIOUS
<1>0. ExecTypes /\ CorpusTypeOK /\ StateTypeOK /\ LoopTypes
  BY TypeParts
<1> SUFFICES ExecTypes' /\ CorpusTypeOK' /\ StateTypeOK' /\ LoopTypes'
  BY DEF TypeOK, ExecTypes, LoopTypes
<1>1. CASE Expire
  BY <1>0, <1>1 DEF Expire, execVars, stateVars, ExecTypes, ExecTypeOK,
                    CorpusTypeOK, StateTypeOK, LoopTypes
<1>2. CASE LoopHead
  BY <1>0, <1>2, PhaseStrings
     DEF LoopHead, stateVars, ExecTypes, ExecTypeOK, CorpusTypeOK, StateTypeOK,
         LoopTypes
<1>3. ASSUME NEW i \in DOMAIN corpus, MutateSeed(i)
      PROVE  ExecTypes' /\ CorpusTypeOK' /\ StateTypeOK' /\ LoopTypes'
  <2>1. ExecTypes' /\ StateTypeOK'
    BY <1>0, <1>3, PhaseStrings
       DEF MutateSeed, inputUnchanged, stateVars, ExecTypes, ExecTypeOK, StateTypeOK
  <2>2. CorpusTypeOK'
    <3>1. corpus' = MarkUsed(corpus, i)
      BY <1>3 DEF MutateSeed, GetNextSeed
    <3> QED
      BY <1>0, <3>1, CorpusTypes DEF CorpusTypeOK
  <2>3. LoopTypes'
    <3>1. corpus[i] \in Seeds /\ i \in Nat
      BY <1>0 DEF CorpusTypeOK
    <3>2. corpus[i].id \in Nat
      BY <3>1 DEF Seeds
    <3> QED
      BY <1>0, <1>3, <3>1, <3>2 DEF MutateSeed, inputUnchanged, LoopTypes
  <2> QED
    BY <2>1, <2>2, <2>3
<1>4. CASE NewProgram
  BY <1>0, <1>4, PhaseStrings
     DEF NewProgram, inputUnchanged, stateVars, ExecTypes, ExecTypeOK,
         CorpusTypeOK, StateTypeOK, LoopTypes
<1>5. ASSUME NEW wstatus \in BuildStatus, Build(wstatus)
      PROVE  ExecTypes' /\ CorpusTypeOK' /\ StateTypeOK' /\ LoopTypes'
  <2>1. pc' \in Phases /\ artifact' \in Nat
    BY <1>0, <1>5, PhaseStrings DEF Build, BuiltImage, LoopTypes, ExecPhases
  <2> QED
    BY <1>0, <1>5, <2>1
       DEF Build, stateVars, ExecTypes, ExecTypeOK, CorpusTypeOK, StateTypeOK,
           LoopTypes
<1>6. CASE Execute
  <2>1. ExecTypes'
    BY <1>0, <1>6, StartTypes, ChildTypes, DrainTypes DEF Execute
  <2>2. CorpusTypeOK' /\ StateTypeOK' /\ LoopTypes'
    BY <1>0, <1>6
       DEF Execute, stateVars, loopVars, CorpusTypeOK, StateTypeOK, LoopTypes
  <2> QED
    BY <2>1, <2>2
<1>7. CASE Answer
  <2>1. ExecTypes'
    BY <1>0, <1>7, FeedbackTypes DEF Answer
  <2>2. CorpusTypeOK' /\ StateTypeOK'
    BY <1>0, <1>7 DEF Answer, stateVars, CorpusTypeOK, StateTypeOK
  <2>3. LoopTypes'
    <3>1. [cov |-> run.cov, surge |-> run.surge, parent |-> parent] \in Runs
      BY <1>0 DEF ExecTypes, ExecTypeOK, LoopTypes, Runs
    <3> QED
      BY <1>0, <1>7, <3>1 DEF Answer, LoopTypes
  <2> QED
    BY <2>1, <2>2, <2>3
<1>8. CASE Admit
  <2>1. ExecTypes' /\ StateTypeOK' /\ LoopTypes'
    BY <1>0, <1>8, PhaseStrings
       DEF Admit, stateVars, loopVars, ExecTypes, ExecTypeOK, StateTypeOK, LoopTypes
  <2>2. CorpusTypeOK'
    <3>1. /\ feedback.energy \in Nat /\ feedback.score \in Nat
          /\ fuzz_cycle \in Nat /\ seedId \in Nat \cup {None}
      BY <1>0 DEF ExecTypes, ExecTypeOK, Feedbacks, Bin, LoopTypes
    <3> QED
      BY <1>0, <1>8, <3>1, CorpusTypes DEF Admit, CorpusTypeOK
  <2> QED
    BY <2>1, <2>2
<1>9. CASE Record
  <2>1. ExecTypes' /\ CorpusTypeOK' /\ LoopTypes'
    BY <1>0, <1>9, PhaseStrings
       DEF Record, loopVars, ExecTypes, ExecTypeOK, CorpusTypeOK, LoopTypes
  <2>2. StateTypeOK'
    <3>1. feedback \in Feedbacks
      BY <1>0 DEF ExecTypes, ExecTypeOK
    <3>3. GetCrashLine \in Line \cup {NoLine, None}
      BY <1>0, LastCrashLine DEF ExecTypes
    <3>4. seedId \in Nat \cup {None} /\ inputFile \in Nat
      BY <1>0 DEF LoopTypes
    <3> QED
      BY <1>0, <1>9, <3>1, <3>3, <3>4, StateTypes DEF Record
  <2> QED
    BY <2>1, <2>2
<1>10. CASE RecordThrows
  <2>1. ExecTypes' /\ CorpusTypeOK' /\ LoopTypes'
    BY <1>0, <1>10, PhaseStrings
       DEF RecordThrows, loopVars, ExecTypes, ExecTypeOK, CorpusTypeOK, LoopTypes
  <2>2. StateTypeOK'
    BY <1>0, <1>10, CountedTypes, LastCrashLine
       DEF RecordThrows, StateUpdateThrows, StateTypeOK, ExecTypes
  <2> QED
    BY <2>1, <2>2
<1>11. CASE SaveResults
  BY <1>0, <1>11, PhaseStrings
     DEF SaveResults, stateVars, ExecTypes, ExecTypeOK, CorpusTypeOK,
         StateTypeOK, LoopTypes
<1>12. CASE UNCHANGED vars
  BY <1>0, <1>12
     DEF vars, execVars, stateVars, loopVars, ExecTypes, ExecTypeOK,
         CorpusTypeOK, StateTypeOK, LoopTypes
<1> QED
  BY <1>1, <1>2, <1>3, <1>4, <1>5, <1>6, <1>7, <1>8, <1>9, <1>10, <1>11, <1>12
     DEF Next, FuzzOne, Terminating

(* Every variable keeps its type in every campaign: the scores and the best
   score are bins, no counter becomes negative, the corpus is a sequence of
   seeds (fuzz_loop, fuzz_one, Executor::run). *)
THEOREM TypeCorrect == Spec => []TypeOK
  BY TypeInit, TypeStep, PTL DEF Spec

----------------------------------------------------------------------------
(* The inductive invariant of the campaign.                                *)

Attending == {"wait", "drainOut", "drainErr", "feedback"}

(* From the fork to the feedback the shared memory holds what the present
   simulation set, and nothing else (Executor::run). *)
SegmentsAreOfThisRun ==
  pc \in Attending => shm.cov = run.cov /\ shm.surge = run.surge

(* The best score on the books has been reached by some run (State::update). *)
BestIsReached == stats.best <= MaxIndex(bitmap.surge)

FuzzInv ==
  /\ TypeOK
  /\ ChildOnlyWhileWaiting
  /\ SegmentsAreOfThisRun
  /\ CoverageIsUnionOfRuns
  /\ ScoresAreExact
  /\ BestIsReached

(* What a step does that neither runs a simulator nor closes a cycle. *)
QuietStep ==
  /\ UNCHANGED <<child, shm, run, bitmap, hist, feedback, stats.best>>
  /\ \/ pc' = pc
     \/ pc = "admit" /\ pc' = "record"
     \/ pc \notin Attending /\ pc' \notin Attending \cup {"admit", "record"}

(* The actions that run no simulator and take no answer are quiet. *)
LEMMA QuietActions ==
  /\ Expire => QuietStep
  /\ LoopHead => QuietStep
  /\ \A i \in DOMAIN corpus : MutateSeed(i) => QuietStep
  /\ NewProgram => QuietStep
  /\ \A wstatus \in BuildStatus : Build(wstatus) => QuietStep
  /\ Admit => QuietStep
  /\ RecordThrows => QuietStep
  /\ SaveResults => QuietStep
<1> USE DEF QuietStep, Attending, execVars, stateVars, loopVars
<1>1. Expire => QuietStep
  BY DEF Expire
<1>2. LoopHead => QuietStep
  BY DEF LoopHead
<1>3. \A i \in DOMAIN corpus : MutateSeed(i) => QuietStep
  BY DEF MutateSeed, inputUnchanged
<1>4. NewProgram => QuietStep
  BY DEF NewProgram, inputUnchanged
<1>5. \A wstatus \in BuildStatus : Build(wstatus) => QuietStep
  BY DEF Build
<1>6. Admit => QuietStep
  BY DEF Admit
<1>7. RecordThrows => QuietStep
  BY DEF RecordThrows, StateUpdateThrows, Counted
<1>8. SaveResults => QuietStep
  BY DEF SaveResults
<1> QED
  BY <1>1, <1>2, <1>3, <1>4, <1>5, <1>6, <1>7, <1>8

(* Those actions keep the invariant. *)
LEMMA QuietKeepsInv ==
  ASSUME FuzzInv, QuietStep, TypeOK'
  PROVE  FuzzInv'
<1> USE DEF FuzzInv, QuietStep
<1>1. ChildOnlyWhileWaiting'
  BY DEF ChildOnlyWhileWaiting, Attending
<1>2. SegmentsAreOfThisRun'
  BY DEF SegmentsAreOfThisRun, Attending
<1>3. CoverageIsUnionOfRuns'
  BY DEF CoverageIsUnionOfRuns, SeenByAll, ScoredByAll
<1>4. ScoresAreExact'
  BY DEF ScoresAreExact, ScoredByAll
<1>5. BestIsReached'
  BY DEF BestIsReached
<1> QED
  BY <1>1, <1>2, <1>3, <1>4, <1>5

(* A run put on record adds its points and scores to those of all runs. *)
LEMMA UnionOfAppend ==
  ASSUME NEW h \in Seq(Runs), NEW r \in Runs
  PROVE  LET g == Append(h, r)
         IN  /\ UNION {g[d].cov : d \in DOMAIN g} =
                  (UNION {h[d].cov : d \in DOMAIN h}) \cup r.cov
             /\ UNION {g[d].surge : d \in DOMAIN g} =
                  (UNION {h[d].surge : d \in DOMAIN h}) \cup r.surge
             /\ g[Len(g)] = r
<1> DEFINE g == Append(h, r)
<1>1. /\ Len(g) = Len(h) + 1
      /\ DOMAIN g = DOMAIN h \cup {Len(g)}
      /\ \A d \in DOMAIN h : g[d] = h[d]
      /\ g[Len(g)] = r
  OBVIOUS
<1> HIDE DEF g
<1>2. UNION {g[d].cov : d \in DOMAIN g} =
        (UNION {h[d].cov : d \in DOMAIN h}) \cup r.cov
  BY <1>1
<1>3. UNION {g[d].surge : d \in DOMAIN g} =
        (UNION {h[d].surge : d \in DOMAIN h}) \cup r.surge
  BY <1>1
<1> QED
  BY <1>1, <1>2, <1>3 DEF g

(* The steps of the executor and of the simulator. *)
LEMMA ExecuteKeepsInv ==
  ASSUME FuzzInv, Execute, TypeOK'
  PROVE  FuzzInv'
<1>1. UNCHANGED <<hist, stats>>
  BY DEF Execute, stateVars, loopVars
<1>2. bitmap' = bitmap
  BY DEF Execute, StartRun, RunForkFails, WaitPid, DrainOut, DrainErr, Child,
         childUnchanged, ChildExec, ChildExecFails, Clock, PrintOut, PrintErr,
         ChildExit
<1>3. pc' \notin {"admit", "record"}
  <2>1. ASSUME Child PROVE pc' = pc /\ pc = "wait"
    BY <2>1
       DEF FuzzInv, ChildOnlyWhileWaiting, Child, childUnchanged, ChildExec,
           ChildExecFails, Clock, PrintOut, PrintErr, ChildExit
  <2> QED
    BY <2>1 DEF Execute, StartRun, RunForkFails, WaitPid, DrainOut, DrainErr
<1>4. CoverageIsUnionOfRuns' /\ ScoresAreExact' /\ BestIsReached'
  BY <1>1, <1>2, <1>3
     DEF FuzzInv, CoverageIsUnionOfRuns, SeenByAll, ScoredByAll, ScoresAreExact,
         BestIsReached
<1>5. ChildOnlyWhileWaiting' /\ SegmentsAreOfThisRun'
  <2> USE DEF FuzzInv, ChildOnlyWhileWaiting, SegmentsAreOfThisRun, Attending
  <2>1. CASE StartRun
    BY <2>1 DEF StartRun, MonitorReset, Empty, NoRun
  <2>2. CASE RunForkFails
    BY <2>2 DEF RunForkFails
  <2>3. CASE Child
    <3> USE DEF childUnchanged
    <3>1. CASE ChildExec
      BY <3>1 DEF ChildExec
    <3>2. CASE ChildExecFails
      BY <3>2 DEF ChildExecFails, TypeOK, ExecTypeOK
    <3>3. ASSUME NEW p \in Point, NEW n \in Bin, Clock(p, n)
          PROVE  ChildOnlyWhileWaiting' /\ SegmentsAreOfThisRun'
      BY <3>3 DEF Clock, TypeOK, ExecTypeOK
    <3>4. ASSUME NEW c \in Chunk, PrintOut(c)
          PROVE  ChildOnlyWhileWaiting' /\ SegmentsAreOfThisRun'
      BY <3>4 DEF PrintOut, TypeOK, ExecTypeOK
    <3>5. CASE PrintErr
      BY <3>5 DEF PrintErr, TypeOK, ExecTypeOK
    <3>6. ASSUME NEW status \in EndStatus, ChildExit(status)
          PROVE  ChildOnlyWhileWaiting' /\ SegmentsAreOfThisRun'
      BY <3>6 DEF ChildExit
    <3> QED
      BY <2>3, <3>1, <3>2, <3>3, <3>4, <3>5, <3>6 DEF Child
  <2>4. CASE WaitPid
    BY <2>4 DEF WaitPid, TypeOK, ExecTypeOK
  <2>5. CASE DrainOut
    BY <2>5 DEF DrainOut
  <2>6. CASE DrainErr
    BY <2>6 DEF DrainErr
  <2> QED
    BY <2>1, <2>2, <2>3, <2>4, <2>5, <2>6 DEF Execute
<1> QED
  BY <1>4, <1>5 DEF FuzzInv

(* The feedback adds exactly this run (Executor::run: update after the coverage
   test, both after waitpid). *)
LEMMA AnswerFacts ==
  ASSUME FuzzInv, Answer
  PROVE  /\ bitmap'.cov = bitmap.cov \cup run.cov
         /\ bitmap'.surge = bitmap.surge \cup run.surge
         /\ bitmap' \in Bitmaps
         /\ run.cov \in SUBSET Point /\ run.surge \in SUBSET Bin
         /\ feedback'.fresh = ~(run.cov \subseteq bitmap.cov)
         /\ feedback'.score = MaxIndex(run.surge)
         /\ feedback'.best = MaxIndex(bitmap'.surge)
         /\ feedback'.count = Cardinality(bitmap'.surge)
         /\ hist' = Append(hist, [cov |-> run.cov, surge |-> run.surge,
                                  parent |-> parent])
         /\ [cov |-> run.cov, surge |-> run.surge, parent |-> parent] \in Runs
         /\ hist \in Seq(Runs)
         /\ pc = "feedback" /\ pc' = "admit"
<1>1. bitmap \in Bitmaps /\ shm \in Bitmaps /\ parent \in Nat /\ hist \in Seq(Runs)
  BY DEF FuzzInv, TypeOK, ExecTypeOK
<1>2. shm.cov = run.cov /\ shm.surge = run.surge
  BY DEF FuzzInv, SegmentsAreOfThisRun, Attending, Answer, ReturnFeedback
<1>3. /\ bitmap' = MonitorUpdate(bitmap, shm)
      /\ feedback' = MakeFeedback(bitmap, shm)
      /\ pc = "feedback" /\ pc' = "admit"
      /\ hist' = Append(hist, [cov |-> run.cov, surge |-> run.surge,
                               parent |-> parent])
  BY DEF Answer, ReturnFeedback
<1>4. run.cov \in SUBSET Point /\ run.surge \in SUBSET Bin
  BY <1>1, <1>2 DEF Bitmaps
<1>5. feedback'.fresh = ~(run.cov \subseteq bitmap.cov)
  BY <1>2, <1>3, <1>4 DEF MakeFeedback, NewCoverage
<1>6. /\ feedback'.score = MaxIndex(run.surge)
      /\ feedback'.best = MaxIndex(bitmap'.surge)
      /\ feedback'.count = Cardinality(bitmap'.surge)
  BY <1>2, <1>3 DEF MakeFeedback, BestScore
<1>7. [cov |-> run.cov, surge |-> run.surge, parent |-> parent] \in Runs
  BY <1>1, <1>4 DEF Runs
<1> QED
  BY <1>1, <1>2, <1>3, <1>4, <1>5, <1>6, <1>7, MonitorUpdateIsUnion

(* The feedback of a run. *)
LEMMA AnswerKeepsInv ==
  ASSUME FuzzInv, Answer, TypeOK'
  PROVE  FuzzInv'
<1> DEFINE r == [cov |-> run.cov, surge |-> run.surge, parent |-> parent]
<1>1. r \in Runs /\ hist \in Seq(Runs) /\ hist' = Append(hist, r)
  BY AnswerFacts
<1>2. /\ SeenByAll' = SeenByAll \cup run.cov
      /\ ScoredByAll' = ScoredByAll \cup run.surge
      /\ hist'[Len(hist')].surge = run.surge
  <2>1. r.cov = run.cov /\ r.surge = run.surge
    OBVIOUS
  <2> HIDE DEF r
  <2> QED
    BY <1>1, <2>1, UnionOfAppend DEF SeenByAll, ScoredByAll
<1>3. CoverageIsUnionOfRuns'
  BY <1>2, AnswerFacts DEF FuzzInv, CoverageIsUnionOfRuns
<1>4. ScoresAreExact'
  BY <1>2, <1>3, AnswerFacts DEF ScoresAreExact, CoverageIsUnionOfRuns
<1>5. BestIsReached'
  <2>1. bitmap.surge \in SUBSET Bin /\ bitmap'.surge \in SUBSET Bin
    BY AnswerFacts DEF FuzzInv, TypeOK, ExecTypeOK, Bitmaps
  <2>2. MaxIndex(bitmap.surge) <= MaxIndex(bitmap'.surge)
    BY <2>1, AnswerFacts, MaxIndexMonotone
  <2>3. stats' = stats
    BY DEF Answer, stateVars
  <2>4. MaxIndex(bitmap.surge) \in Int /\ MaxIndex(bitmap'.surge) \in Int
    <3>1. MaxIndex(bitmap.surge) \in Bin /\ MaxIndex(bitmap'.surge) \in Bin
      BY <2>1, MaxIndexFacts
    <3> QED
      BY <3>1 DEF Bin
  <2>5. stats.best \in Int
    BY DEF FuzzInv, TypeOK, StateTypeOK
  <2> QED
    BY <2>2, <2>3, <2>4, <2>5 DEF FuzzInv, BestIsReached
<1>6. ChildOnlyWhileWaiting' /\ SegmentsAreOfThisRun'
  BY DEF FuzzInv, Answer, ReturnFeedback, ChildOnlyWhileWaiting,
         SegmentsAreOfThisRun, Attending
<1> QED
  BY <1>3, <1>4, <1>5, <1>6 DEF FuzzInv

(* The books: the best score is raised. *)
LEMMA RecordKeepsInv ==
  ASSUME FuzzInv, Record, TypeOK'
  PROVE  FuzzInv'
<1>1. /\ pc = "record" /\ pc' = "loop"
      /\ UNCHANGED <<child, shm, bitmap, run, hist, feedback>>
      /\ stats'.best = feedback.best
  BY DEF Record, StateUpdate, loopVars
<1>2. stats'.best = MaxIndex(bitmap.surge)
  BY <1>1 DEF FuzzInv, ScoresAreExact, CoverageIsUnionOfRuns
<1>3. BestIsReached'
  <2>1. MaxIndex(bitmap.surge) \in Int
    BY MaxIndexFacts DEF FuzzInv, TypeOK, ExecTypeOK, Bitmaps, Bin
  <2> QED
    BY <1>1, <1>2, <2>1 DEF BestIsReached
<1>4. /\ ChildOnlyWhileWaiting' /\ SegmentsAreOfThisRun'
      /\ CoverageIsUnionOfRuns' /\ ScoresAreExact'
  BY <1>1 DEF FuzzInv, ChildOnlyWhileWaiting, SegmentsAreOfThisRun, Attending,
              CoverageIsUnionOfRuns, SeenByAll, ScoredByAll, ScoresAreExact
<1> QED
  BY <1>3, <1>4 DEF FuzzInv

(* The invariant holds at first. *)
LEMMA InvInit == Init => FuzzInv
<1> SUFFICES ASSUME Init PROVE FuzzInv
  OBVIOUS
<1>1. TypeOK
  BY TypeInit
<1>2. ChildOnlyWhileWaiting /\ SegmentsAreOfThisRun /\ ScoresAreExact
  BY DEF Init, ExecInit, ChildOnlyWhileWaiting, SegmentsAreOfThisRun, Attending,
         ScoresAreExact
<1>3. CoverageIsUnionOfRuns
  BY DEF Init, ExecInit, Empty, CoverageIsUnionOfRuns, SeenByAll, ScoredByAll
<1>4. BestIsReached
  BY DEF Init, ExecInit, StateInit, Empty, MaxIndex, BestIsReached
<1> QED
  BY <1>1, <1>2, <1>3, <1>4 DEF FuzzInv

(* Every step keeps the invariant. *)
LEMMA InvStep == FuzzInv /\ [Next]_vars => FuzzInv'
<1> SUFFICES ASSUME FuzzInv, [Next]_vars PROVE FuzzInv'
  OBVIOUS
<1>0. TypeOK'
  BY TypeStep DEF FuzzInv
<1>1. CASE UNCHANGED vars
  <2>1. QuietStep
    BY <1>1 DEF vars, execVars, stateVars, loopVars, QuietStep
  <2> QED
    BY <1>0, <2>1, QuietKeepsInv
<1>2. CASE Execute
  BY <1>0, <1>2, ExecuteKeepsInv
<1>3. CASE Answer
  BY <1>0, <1>3, AnswerKeepsInv
<1>4. CASE Record
  BY <1>0, <1>4, RecordKeepsInv
<1>5. CASE QuietStep
  BY <1>0, <1>5, QuietKeepsInv
<1> QED
  BY <1>1, <1>2, <1>3, <1>4, <1>5, QuietActions DEF Next, FuzzOne, Terminating

(* The invariant holds in every campaign (fuzz_one, Executor::run). *)
THEOREM FuzzInvariant == Spec => []FuzzInv
  BY InvInit, InvStep, PTL DEF Spec

----------------------------------------------------------------------------
(* The results for safety.                                                 *)

(* The accumulated bitmaps are the union of what all answered runs set, for
   any design, any pipes and any interleaving with the simulators
   (Monitor::reset, waitpid, Monitor::update). *)
THEOREM CoverageIsExact == Spec => []CoverageIsUnionOfRuns
<1>1. FuzzInv => CoverageIsUnionOfRuns
  BY DEF FuzzInv
<1> QED
  BY <1>1, FuzzInvariant, PTL

(* The fuzzer process does nothing while a simulator exists but wait for it
   (Executor::run up to waitpid). *)
THEOREM OneAtATime == Spec => []ChildOnlyWhileWaiting
<1>1. FuzzInv => ChildOnlyWhileWaiting
  BY DEF FuzzInv
<1> QED
  BY <1>1, FuzzInvariant, PTL

(* The scores of a feedback are the run's own maximum, the maximum over all
   runs and the number of scores reached (Surge::score, best_score,
   coverage_count). *)
THEOREM ScoresAlwaysExact == Spec => []ScoresAreExact
<1>1. FuzzInv => ScoresAreExact
  BY DEF FuzzInv
<1> QED
  BY <1>1, FuzzInvariant, PTL

----------------------------------------------------------------------------
(* No step forgets.                                                        *)

Forgetless ==
  /\ bitmap.cov \subseteq bitmap'.cov
  /\ bitmap.surge \subseteq bitmap'.surge
  /\ Len(corpus) <= Len(corpus')
  /\ \A i \in DOMAIN corpus :
       /\ corpus'[i].cycle = corpus[i].cycle
       /\ corpus'[i].used \in corpus[i].used .. (corpus[i].used + 1)
  /\ stats.best <= stats'.best

(* A corpus that is not touched forgets nothing. *)
LEMMA SameCorpus ==
  ASSUME FuzzInv, corpus' = corpus
  PROVE  /\ Len(corpus) <= Len(corpus')
         /\ \A i \in DOMAIN corpus :
              /\ corpus'[i].cycle = corpus[i].cycle
              /\ corpus'[i].used \in corpus[i].used .. (corpus[i].used + 1)
<1>1. corpus \in Seq(Seeds)
  BY DEF FuzzInv, TypeOK, CorpusTypeOK
<1>2. \A i \in DOMAIN corpus : corpus[i].used \in Nat
  <2>1. \A i \in DOMAIN corpus : corpus[i] \in Seeds
    BY <1>1
  <2> QED
    BY <2>1 DEF Seeds
<1> QED
  BY <1>1, <1>2

(* A seed that is used stays what it is, and so do the others (Seed::used is
   called through a reference into the corpus). *)
LEMMA UsedCorpus ==
  ASSUME FuzzInv, NEW k \in DOMAIN corpus, corpus' = MarkUsed(corpus, k)
  PROVE  /\ Len(corpus') = Len(corpus)
         /\ DOMAIN corpus' = DOMAIN corpus
         /\ \A i \in DOMAIN corpus :
              /\ corpus'[i].cycle = corpus[i].cycle
              /\ corpus'[i].used \in corpus[i].used .. (corpus[i].used + 1)
<1>1. corpus \in Seq(Seeds)
  BY DEF FuzzInv, TypeOK, CorpusTypeOK
<1>2. \A i \in DOMAIN corpus :
        /\ corpus[i] \in Seeds
        /\ corpus[i].used \in Nat
  <2>1. \A i \in DOMAIN corpus : corpus[i] \in Seeds
    BY <1>1
  <2> QED
    BY <2>1 DEF Seeds
<1>3. corpus' = [corpus EXCEPT ![k] = [corpus[k] EXCEPT !.used = @ + 1]]
  BY DEF MarkUsed
<1>4. \A s \in Seeds : /\ [s EXCEPT !.used = @ + 1].cycle = s.cycle
                       /\ [s EXCEPT !.used = @ + 1].used = s.used + 1
  BY DEF Seeds
<1>5. \A i \in DOMAIN corpus :
        /\ corpus'[i].cycle = corpus[i].cycle
        /\ corpus'[i].used \in corpus[i].used .. (corpus[i].used + 1)
  <2> SUFFICES ASSUME NEW i \in DOMAIN corpus
               PROVE  /\ corpus'[i].cycle = corpus[i].cycle
                      /\ corpus'[i].used \in corpus[i].used .. (corpus[i].used + 1)
    OBVIOUS
  <2>1. CASE i = k
    <3>1. corpus'[i] = [corpus[i] EXCEPT !.used = @ + 1]
      BY <1>1, <1>3, <2>1
    <3>2. corpus'[i].cycle = corpus[i].cycle /\ corpus'[i].used = corpus[i].used + 1
      BY <1>2, <1>4, <3>1
    <3> QED
      BY <1>2, <3>2
  <2>2. CASE i # k
    <3>1. corpus'[i] = corpus[i]
      BY <1>1, <1>3, <2>2
    <3> QED
      BY <1>2, <3>1
  <2> QED
    BY <2>1, <2>2
<1> QED
  BY <1>1, <1>3, <1>5

(* An admitted input goes to the end (Corpus::add_new_input). *)
LEMMA ExtendedCorpus ==
  ASSUME FuzzInv, NEW s, corpus' = Append(corpus, s)
  PROVE  /\ Len(corpus') = Len(corpus) + 1
         /\ \A i \in DOMAIN corpus :
              /\ corpus'[i].cycle = corpus[i].cycle
              /\ corpus'[i].used \in corpus[i].used .. (corpus[i].used + 1)
<1>1. corpus \in Seq(Seeds)
  BY DEF FuzzInv, TypeOK, CorpusTypeOK
<1>2. \A i \in DOMAIN corpus : corpus[i].used \in Nat
  <2>1. \A i \in DOMAIN corpus : corpus[i] \in Seeds
    BY <1>1
  <2> QED
    BY <2>1 DEF Seeds
<1>3. /\ Len(corpus') = Len(corpus) + 1
      /\ \A i \in DOMAIN corpus : corpus'[i] = corpus[i]
  BY <1>1
<1> QED
  BY <1>2, <1>3

(* Which variables a step leaves alone, as far as NothingForgotten cares. *)
LEMMA Untouched ==
  /\ Expire \/ LoopHead \/ NewProgram \/ RecordThrows \/ SaveResults \/ Execute
       => UNCHANGED <<bitmap, corpus, stats.best>>
  /\ \A wstatus \in BuildStatus : Build(wstatus) => UNCHANGED <<bitmap, corpus, stats.best>>
<1> USE DEF execVars, stateVars, loopVars
<1>1. Expire \/ LoopHead \/ NewProgram \/ SaveResults
        => UNCHANGED <<bitmap, corpus, stats.best>>
  BY DEF Expire, LoopHead, NewProgram, inputUnchanged, SaveResults
<1>4. RecordThrows => UNCHANGED <<bitmap, corpus, stats.best>>
  BY QuietActions DEF RecordThrows, QuietStep
<1>2. Execute => UNCHANGED <<bitmap, corpus, stats.best>>
  BY DEF Execute, StartRun, RunForkFails, WaitPid, DrainOut, DrainErr, Child,
         childUnchanged, ChildExec, ChildExecFails, Clock, PrintOut, PrintErr,
         ChildExit
<1>3. \A wstatus \in BuildStatus : Build(wstatus) => UNCHANGED <<bitmap, corpus, stats.best>>
  BY DEF Build
<1> QED
  BY <1>1, <1>2, <1>3, <1>4

(* No step forgets coverage, a seed or a score. *)
LEMMA StepForgetsNothing == FuzzInv /\ [Next]_vars => Forgetless
<1> SUFFICES ASSUME FuzzInv, [Next]_vars PROVE Forgetless
  OBVIOUS
<1>0. stats.best \in Nat
  BY DEF FuzzInv, TypeOK, StateTypeOK
<1>1. CASE UNCHANGED <<bitmap, corpus, stats.best>>
  BY <1>0, <1>1, SameCorpus DEF Forgetless
<1>2. ASSUME NEW k \in DOMAIN corpus, MutateSeed(k) PROVE Forgetless
  <2>1. corpus' = MarkUsed(corpus, k) /\ UNCHANGED <<bitmap, stats>>
    BY <1>2 DEF MutateSeed, GetNextSeed, inputUnchanged, stateVars
  <2>2. Len(corpus) \in Nat
    BY DEF FuzzInv, TypeOK, CorpusTypeOK
  <2> QED
    BY <1>0, <2>1, <2>2, UsedCorpus DEF Forgetless
<1>3. CASE Answer
  <2>1. corpus' = corpus /\ stats' = stats
    BY <1>3 DEF Answer, stateVars
  <2> QED
    BY <1>0, <1>3, <2>1, SameCorpus, AnswerFacts DEF Forgetless
<1>4. CASE Admit
  <2>1. UNCHANGED <<bitmap, stats>>
    BY <1>4 DEF Admit, stateVars
  <2>2. corpus' = corpus \/ \E s : corpus' = Append(corpus, s)
    BY <1>4 DEF Admit, AddNewInput
  <2>3. Len(corpus) \in Nat
    BY DEF FuzzInv, TypeOK, CorpusTypeOK
  <2> QED
    BY <1>0, <2>1, <2>2, <2>3, SameCorpus, ExtendedCorpus DEF Forgetless
<1>5. CASE Record
  <2>1. UNCHANGED <<bitmap, corpus>> /\ stats'.best = feedback.best /\ pc = "record"
    BY <1>5 DEF Record, StateUpdate
  <2>2. stats.best <= stats'.best
    BY <2>1 DEF FuzzInv, ScoresAreExact, CoverageIsUnionOfRuns, BestIsReached
  <2> QED
    BY <2>1, <2>2, SameCorpus DEF Forgetless
<1> QED
  BY <1>1, <1>2, <1>3, <1>4, <1>5, Untouched
     DEF Next, FuzzOne, Terminating, vars, execVars, stateVars

(* Covered bytes stay covered, seeds stay in place, and the best score never
   falls (Monitor::update, Corpus, State::update). *)
THEOREM NothingIsForgotten == Spec => NothingForgotten
<1>1. FuzzInv /\ [Next]_vars => [Forgetless]_vars
  BY StepForgetsNothing
<1> QED
  BY <1>1, FuzzInvariant, PTL DEF Spec, NothingForgotten, Forgetless

----------------------------------------------------------------------------
(* The campaign implements the abstract one.                               *)

Begun == {"input", "build", "execute"} \cup Attending
Chosen == {"build", "execute", "admit"} \cup Attending

(* How the loop's counter runs ahead of the answered runs (fuzz_loop). *)
CyclesFollowRuns ==
  /\ pc \in Begun => fuzz_cycle = Len(hist) + 1
  /\ pc \in {"loop", "admit", "record"} => fuzz_cycle = Len(hist)

(* From the choice of the input to the decision about it, seed_id is empty
   exactly if the corpus still lacks initial seeds (fuzz_one). *)
ChoiceFollowsCorpus ==
  pc \in Chosen => (seedId = None <=> Len(corpus) < InitialSeedCount)

RefInv == FuzzInv /\ CyclesFollowRuns /\ ChoiceFollowsCorpus

(* The stronger invariant holds at first. *)
LEMMA RefInvInit == Init => RefInv
<1>1. Init => CyclesFollowRuns /\ ChoiceFollowsCorpus
  BY DEF Init, CyclesFollowRuns, ChoiceFollowsCorpus, Begun, Chosen, Attending
<1> QED
  BY <1>1, InvInit DEF RefInv

(* Every step keeps the stronger invariant. *)
LEMMA RefInvStep == RefInv /\ [Next]_vars => RefInv'
<1> SUFFICES ASSUME RefInv, [Next]_vars
             PROVE  CyclesFollowRuns' /\ ChoiceFollowsCorpus'
  BY InvStep DEF RefInv
<1> USE DEF CyclesFollowRuns, ChoiceFollowsCorpus, Begun, Chosen, Attending,
            execVars, stateVars, loopVars
<1>0. /\ fuzz_cycle \in Nat /\ Len(hist) \in Nat /\ Len(corpus) \in Nat
      /\ InitialSeedCount \in Nat
  BY InitialSeedCountAssumption DEF RefInv, FuzzInv, TypeOK, CorpusTypeOK
<1>1. CASE Expire
  BY <1>1 DEF RefInv, Expire
<1>2. CASE LoopHead
  BY <1>0, <1>2 DEF RefInv, LoopHead
<1>3. ASSUME NEW i \in DOMAIN corpus, MutateSeed(i)
      PROVE  CyclesFollowRuns' /\ ChoiceFollowsCorpus'
  <2>1. /\ corpus' = MarkUsed(corpus, i) /\ Len(corpus) >= InitialSeedCount
        /\ seedId' = corpus[i].id /\ pc = "input" /\ pc' = "build"
        /\ UNCHANGED <<fuzz_cycle, hist>>
    BY <1>3 DEF MutateSeed, GetNextSeed, HasInitialSeeds, inputUnchanged
  <2>2. Len(corpus') = Len(corpus)
    BY <2>1, UsedCorpus DEF RefInv
  <2>3. corpus[i].id \in Nat
    <3>1. corpus[i] \in Seeds
      BY DEF RefInv, FuzzInv, TypeOK, CorpusTypeOK
    <3> QED
      BY <3>1 DEF Seeds
  <2>4. seedId' # None
    BY <2>1, <2>3 DEF None
  <2> QED
    BY <1>0, <2>1, <2>2, <2>4 DEF RefInv
<1>4. CASE NewProgram
  BY <1>0, <1>4 DEF RefInv, NewProgram, HasInitialSeeds, inputUnchanged
<1>5. ASSUME NEW wstatus \in BuildStatus, Build(wstatus)
      PROVE  CyclesFollowRuns' /\ ChoiceFollowsCorpus'
  BY <1>0, <1>5 DEF RefInv, Build
<1>6. CASE Execute
  <2>1. UNCHANGED <<corpus, seedId, fuzz_cycle, hist>>
    BY <1>6 DEF Execute
  <2>2. \/ pc' = pc
        \/ pc \in {"execute"} \cup Attending /\ pc' \in Attending
        \/ pc' = "failed"
    BY <1>6 DEF Execute, StartRun, RunForkFails, WaitPid, DrainOut, DrainErr, Child,
                childUnchanged, ChildExec, ChildExecFails, Clock, PrintOut,
                PrintErr, ChildExit
  <2> QED
    BY <1>0, <2>1, <2>2 DEF RefInv
<1>7. CASE Answer
  <2>1. Len(hist') = Len(hist) + 1
    BY <1>7, AnswerFacts DEF RefInv
  <2> QED
    BY <1>0, <1>7, <2>1 DEF RefInv, Answer, ReturnFeedback
<1>8. CASE Admit
  BY <1>0, <1>8 DEF RefInv, Admit
<1>9. CASE Record
  BY <1>0, <1>9 DEF RefInv, Record
<1>10. CASE RecordThrows
  BY <1>10 DEF RefInv, RecordThrows
<1>11. CASE SaveResults
  BY <1>11 DEF RefInv, SaveResults
<1>12. CASE UNCHANGED vars
  BY <1>12 DEF RefInv, vars
<1> QED
  BY <1>1, <1>2, <1>3, <1>4, <1>5, <1>6, <1>7, <1>8, <1>9, <1>10, <1>11, <1>12
     DEF Next, FuzzOne, Terminating

(* The kept runs: the abstract view of the corpus. *)
Kept == [i \in DOMAIN corpus |-> corpus[i].cycle]
Verdict == IF pc # "admit" THEN "settled"
           ELSE IF feedback.fresh \/ seedId = None THEN "keep" ELSE "drop"

(* The inputs kept, as the mapping sees them, are those of the corpus. *)
LEMMA KeptFacts ==
  ASSUME RefInv
  PROVE  Kept \in Seq(Nat) /\ Len(Kept) = Len(corpus)
<1>1. corpus \in Seq(Seeds)
  BY DEF RefInv, FuzzInv, TypeOK, CorpusTypeOK
<1>2. \A i \in DOMAIN corpus : corpus[i].cycle \in Nat
  <2>1. \A i \in DOMAIN corpus : corpus[i] \in Seeds
    BY <1>1
  <2> QED
    BY <2>1 DEF Seeds
<1>3. DOMAIN corpus = 1 .. Len(corpus) /\ Len(corpus) \in Nat
  BY <1>1
<1>4. Kept \in [1 .. Len(corpus) -> Nat]
  BY <1>2, <1>3 DEF Kept
<1> QED
  BY <1>3, <1>4

(* Admitting an input appends the run to the kept ones (Corpus::add_new_input,
   with the cycle of fuzz_loop). *)
LEMMA KeptGrows ==
  ASSUME RefInv, NEW s, corpus' = Append(corpus, s)
  PROVE  Kept' = Append(Kept, s.cycle)
<1>1. corpus \in Seq(Seeds)
  BY DEF RefInv, FuzzInv, TypeOK, CorpusTypeOK
<1>2. Kept \in Seq(Nat) /\ Len(Kept) = Len(corpus) /\ Len(corpus) \in Nat
  BY <1>1, KeptFacts
<1>3. /\ DOMAIN corpus' = 1 .. (Len(corpus) + 1)
      /\ \A i \in 1 .. Len(corpus) : corpus'[i] = corpus[i]
      /\ corpus'[Len(corpus) + 1] = s
  BY <1>1
<1>4. /\ DOMAIN Append(Kept, s.cycle) = 1 .. (Len(corpus) + 1)
      /\ \A i \in 1 .. Len(corpus) : Append(Kept, s.cycle)[i] = Kept[i]
      /\ Append(Kept, s.cycle)[Len(corpus) + 1] = s.cycle
  BY <1>2
<1>5. \A i \in 1 .. Len(corpus) : Kept[i] = corpus[i].cycle
  BY <1>1 DEF Kept
<1>6. Kept' = [i \in 1 .. (Len(corpus) + 1) |-> corpus'[i].cycle]
  BY <1>3 DEF Kept
<1>7. \A i \in 1 .. (Len(corpus) + 1) : corpus'[i].cycle = Append(Kept, s.cycle)[i]
  <2> SUFFICES ASSUME NEW i \in 1 .. (Len(corpus) + 1)
               PROVE  corpus'[i].cycle = Append(Kept, s.cycle)[i]
    OBVIOUS
  <2>1. CASE i \in 1 .. Len(corpus)
    BY <1>3, <1>4, <1>5, <2>1
  <2>2. CASE i = Len(corpus) + 1
    BY <1>3, <1>4, <2>2
  <2> QED
    BY <1>2, <2>1, <2>2
<1>8. Append(Kept, s.cycle) =
        [i \in 1 .. (Len(corpus) + 1) |-> Append(Kept, s.cycle)[i]]
  BY <1>2, <1>4
<1> QED
  BY <1>6, <1>7, <1>8

(* Initial states map to initial states. *)
LEMMA AbstractInit == Init => Abstract!Init
<1> SUFFICES ASSUME Init PROVE Abstract!Init
  OBVIOUS
<1>1. bitmap.cov = {} /\ bitmap.surge = {} /\ hist = <<>> /\ corpus = <<>>
      /\ pc = "loop"
  BY DEF Init, ExecInit, Empty, CorpusInit
<1>2. [i \in DOMAIN corpus |-> corpus[i].cycle] = <<>>
  BY <1>1
<1>3. Len(hist) = 0
  BY <1>1
<1> QED
  BY <1>1, <1>2, <1>3 DEF Abstract!Init

(* A step that leaves the campaign as it is in the abstract view. *)
LEMMA AbstractStutter ==
  ASSUME UNCHANGED <<bitmap, hist>>, Kept' = Kept, Verdict' = Verdict
  PROVE  UNCHANGED Abstract!campaignVars
  BY DEF Abstract!campaignVars, Kept, Verdict

(* Every step maps to a step or a stutter. *)
LEMMA AbstractStep ==
  RefInv /\ [Next]_vars => [Abstract!Next]_(Abstract!campaignVars)
<1> SUFFICES ASSUME RefInv, [Next]_vars
             PROVE  [Abstract!Next]_(Abstract!campaignVars)
  OBVIOUS
<1> USE DEF execVars, stateVars, loopVars
<1>1. ASSUME UNCHANGED <<bitmap, hist, corpus>>, pc # "admit", pc' # "admit"
      PROVE  UNCHANGED Abstract!campaignVars
  BY <1>1, AbstractStutter DEF Kept, Verdict
<1>2. CASE Expire \/ UNCHANGED vars
  BY <1>2, AbstractStutter DEF Kept, Verdict, Expire, vars
<1>3. CASE LoopHead \/ NewProgram \/ Record \/ RecordThrows \/ SaveResults
  BY <1>1, <1>3
     DEF LoopHead, NewProgram, inputUnchanged, Record, RecordThrows, SaveResults
<1>4. ASSUME NEW wstatus \in BuildStatus, Build(wstatus)
      PROVE  UNCHANGED Abstract!campaignVars
  BY <1>1, <1>4 DEF Build
<1>5. ASSUME NEW k \in DOMAIN corpus, MutateSeed(k)
      PROVE  UNCHANGED Abstract!campaignVars
  <2>1. /\ corpus' = MarkUsed(corpus, k) /\ UNCHANGED <<bitmap, hist>>
        /\ pc = "input" /\ pc' = "build"
    BY <1>5 DEF MutateSeed, GetNextSeed, inputUnchanged
  <2>2. Kept' = Kept
    BY <2>1, UsedCorpus DEF RefInv, Kept
  <2> QED
    BY <2>1, <2>2, AbstractStutter DEF Verdict
<1>6. CASE Execute
  <2>1. UNCHANGED <<hist, corpus>> /\ bitmap' = bitmap
    BY <1>6, Untouched DEF Execute
  <2>2. ASSUME Child PROVE pc' = pc /\ pc = "wait"
    BY <2>2
       DEF RefInv, FuzzInv, ChildOnlyWhileWaiting, Child, childUnchanged,
           ChildExec, ChildExecFails, Clock, PrintOut, PrintErr, ChildExit
  <2>3. pc # "admit" /\ pc' # "admit"
    BY <1>6, <2>2
       DEF Execute, StartRun, RunForkFails, WaitPid, DrainOut, DrainErr
  <2> QED
    BY <1>1, <2>1, <2>3
<1>7. CASE Answer
  <2>1. Abstract!Observe(run.cov, run.surge)
    <3>1. Verdict = "settled"
      BY <1>7, AnswerFacts DEF RefInv, Verdict
    <3>2. Len(hist') = Len(hist) + 1
      BY <1>7, AnswerFacts DEF RefInv
    <3>3. corpus' = corpus /\ seedId' = seedId
      BY <1>7 DEF Answer
    <3>4. Kept' = Kept /\ Len(Kept) = Len(corpus) /\ Len(corpus) \in Nat
      BY <3>3, KeptFacts DEF Kept, RefInv, FuzzInv, TypeOK, CorpusTypeOK
    <3>5. seedId = None <=> Len(corpus) < InitialSeedCount
      BY <1>7, AnswerFacts DEF RefInv, ChoiceFollowsCorpus, Chosen, Attending
    <3>6. Verdict' = IF run.cov \subseteq bitmap.cov /\ Len(Kept) >= InitialSeedCount
                     THEN "drop" ELSE "keep"
      <4>1. ~(Len(Kept) >= InitialSeedCount) <=> Len(corpus) < InitialSeedCount
        BY <3>4, InitialSeedCountAssumption
      <4>2. feedback'.fresh = ~(run.cov \subseteq bitmap.cov) /\ pc' = "admit"
        BY <1>7, AnswerFacts DEF RefInv
      <4>3. Verdict' = IF feedback'.fresh \/ seedId = None THEN "keep" ELSE "drop"
        BY <3>3, <4>2 DEF Verdict
      <4>4. CASE feedback'.fresh \/ seedId = None
        BY <3>5, <4>1, <4>2, <4>3, <4>4
      <4>5. CASE ~(feedback'.fresh \/ seedId = None)
        BY <3>5, <4>1, <4>2, <4>3, <4>5
      <4> QED
        BY <4>4, <4>5
    <3> QED
      BY <1>7, <3>1, <3>2, <3>4, <3>6, AnswerFacts
         DEF RefInv, Abstract!Observe, Kept, Verdict
  <2>2. run.cov \in SUBSET Point /\ run.surge \in SUBSET Bin
    BY <1>7, AnswerFacts DEF RefInv
  <2> QED
    BY <2>1, <2>2 DEF Abstract!Next
<1>8. CASE Admit
  <2>1. /\ pc = "admit" /\ pc' = "record"
        /\ UNCHANGED <<bitmap, hist, feedback, seedId>>
    BY <1>8 DEF Admit
  <2>2. Verdict # "settled" /\ Verdict' = "settled"
    BY <2>1 DEF Verdict
  <2>3. Kept' = IF Verdict = "keep" THEN Append(Kept, Len(hist)) ELSE Kept
    <3>1. CASE Keeps(feedback, seedId)
      <4> DEFINE s == [cycle |-> fuzz_cycle, id |-> NewId(corpus, seedId),
                       pid |-> NewPid(seedId), score |-> feedback.score,
                       energy |-> feedback.energy, used |-> 0]
      <4>1. corpus' = Append(corpus, s) /\ s.cycle = fuzz_cycle
        BY <1>8, <3>1 DEF Admit, AddNewInput
      <4>2. fuzz_cycle = Len(hist)
        BY <2>1 DEF RefInv, CyclesFollowRuns
      <4>3. Verdict = "keep"
        BY <2>1, <3>1 DEF Verdict, Keeps
      <4> HIDE DEF s
      <4> QED
        BY <4>1, <4>2, <4>3, KeptGrows
    <3>2. CASE ~Keeps(feedback, seedId)
      BY <1>8, <2>1, <3>2 DEF Admit, Kept, Verdict, Keeps
    <3> QED
      BY <3>1, <3>2
  <2>4. Abstract!Settle
    BY <2>1, <2>2, <2>3 DEF Abstract!Settle, Kept, Verdict
  <2> QED
    BY <2>4 DEF Abstract!Next
<1> QED
  BY <1>2, <1>3, <1>4, <1>5, <1>6, <1>7, <1>8 DEF Next, FuzzOne, Terminating

(* For every design, corpus size and pipe capacity the loop of processes,
   pipes and shared memory is a campaign in the abstract sense: what runs cover
   adds up, and an input is kept exactly for new coverage or as an initial
   seed (fuzz_one). *)
THEOREM CampaignIsImplemented == Spec => ImplementsCampaign
<1>1. Spec => []RefInv
  BY RefInvInit, RefInvStep, PTL DEF Spec
<1> QED
  BY <1>1, AbstractInit, AbstractStep, PTL DEF Spec, ImplementsCampaign, Abstract!Spec

----------------------------------------------------------------------------
(* The output of a run.                                                    *)

(* What the simulator printed is in the pipe until the fuzzer process reads
   it, in order, and has been read completely when stdout has reached its
   end (Executor::run, read_chunk). *)
OutputIsOfThisRun ==
  /\ pc = "wait" => buf.out = <<>> /\ pipe.out = run.out
  /\ pc = "drainOut" => buf.out \o pipe.out = run.out
  /\ pc \in {"drainErr", "feedback", "admit", "record"} => buf.out = run.out

(* A feedback says whether its own simulator exited with code 0
   (Executor::run). *)
SuccessIsOfThisRun ==
  pc \in {"admit", "record"} => feedback.success = (child.status = 0)

OutputInv == FuzzInv /\ OutputIsOfThisRun /\ SuccessIsOfThisRun

(* What the steps between two executions leave alone: the process, its output
   and the last feedback. *)
LEMMA OutputUntouched ==
  ASSUME \/ Expire \/ LoopHead \/ NewProgram \/ Admit \/ Record \/ RecordThrows
         \/ SaveResults \/ UNCHANGED vars
         \/ \E i \in DOMAIN corpus : MutateSeed(i)
         \/ \E wstatus \in BuildStatus : Build(wstatus)
  PROVE  /\ UNCHANGED <<child, pipe, buf, feedback, run>>
         /\ \/ pc' = pc
            \/ pc = "admit" /\ pc' = "record"
            \/ pc' \notin Attending \cup {"admit", "record"}
<1> USE DEF execVars, stateVars, loopVars, inputUnchanged, Attending
<1>1. CASE Expire \/ UNCHANGED vars
  BY <1>1 DEF Expire, vars
<1>2. CASE LoopHead \/ NewProgram \/ SaveResults
  BY <1>2 DEF LoopHead, NewProgram, SaveResults
<1>3. CASE Admit \/ Record \/ RecordThrows
  BY <1>3 DEF Admit, Record, RecordThrows
<1>4. CASE \E i \in DOMAIN corpus : MutateSeed(i)
  BY <1>4 DEF MutateSeed
<1>5. CASE \E wstatus \in BuildStatus : Build(wstatus)
  BY <1>5 DEF Build
<1> QED
  BY <1>1, <1>2, <1>3, <1>4, <1>5

(* A chunk taken from the pipe and put at the end of the buffer leaves the
   whole as it was (read_chunk). *)
LEMMA ChunkMoves ==
  ASSUME NEW T, NEW b \in Seq(T), NEW p \in Seq(T), p # <<>>
  PROVE  Append(b, Head(p)) \o Tail(p) = b \o p
  OBVIOUS

(* The simulator puts what it prints into the pipe, and nothing else touches
   the output while it runs. *)
LEMMA ChildPrints ==
  ASSUME OutputInv, Child, pc = "wait"
  PROVE  /\ pc' = pc /\ buf' = buf /\ feedback' = feedback
         /\ pipe'.out = run'.out
<1> USE DEF OutputInv, OutputIsOfThisRun, childUnchanged
<1>1. /\ pipe \in Streams /\ run \in RunType /\ pipe.out = run.out
  BY DEF FuzzInv, TypeOK, ExecTypeOK, RunType
<1>2. CASE ChildExec \/ \E status \in EndStatus : ChildExit(status)
  BY <1>1, <1>2 DEF ChildExec, ChildExit
<1>3. CASE ChildExecFails \/ PrintErr
  BY <1>1, <1>3 DEF ChildExecFails, PrintErr, Streams, RunType
<1>4. ASSUME NEW p \in Point, NEW n \in Bin, Clock(p, n)
      PROVE  /\ UNCHANGED <<pc, buf, feedback>>
             /\ pipe'.out = run'.out
  BY <1>1, <1>4 DEF Clock, RunType
<1>5. ASSUME NEW c \in Chunk, PrintOut(c)
      PROVE  /\ UNCHANGED <<pc, buf, feedback>>
             /\ pipe'.out = run'.out
  <2>1. CASE Len(pipe.out) < PipeCapacity
    <3>1. /\ pipe' = [pipe EXCEPT !.out = Append(@, c)]
          /\ run' = [run EXCEPT !.out = Append(@, c)]
          /\ UNCHANGED <<pc, buf, feedback>>
      BY <1>5, <2>1 DEF PrintOut
    <3> QED
      BY <1>1, <3>1 DEF Streams, RunType
  <2>2. CASE ~(Len(pipe.out) < PipeCapacity)
    BY <1>1, <1>5, <2>2 DEF PrintOut
  <2> QED
    BY <2>1, <2>2
<1> QED
  BY <1>2, <1>3, <1>4, <1>5 DEF Child, ChildExec, ChildExecFails, PrintErr, ChildExit

(* Before the first run nothing is buffered. *)
LEMMA OutputInvInit == Init => OutputInv
<1>1. Init => OutputIsOfThisRun /\ SuccessIsOfThisRun
  BY DEF Init, OutputIsOfThisRun, SuccessIsOfThisRun
<1> QED
  BY <1>1, InvInit DEF OutputInv

(* Every step of fuzzer and simulator. *)
LEMMA OutputInvStep == OutputInv /\ [Next]_vars => OutputInv'
<1> SUFFICES ASSUME OutputInv, [Next]_vars
             PROVE  OutputIsOfThisRun' /\ SuccessIsOfThisRun'
  BY InvStep DEF OutputInv
<1>0. FuzzInv /\ OutputIsOfThisRun /\ SuccessIsOfThisRun
  BY DEF OutputInv
<1>1. buf.out \in Seq(Chunk) /\ pipe.out \in Seq(Chunk)
  BY <1>0 DEF FuzzInv, TypeOK, ExecTypeOK, Streams
<1>2. CASE /\ UNCHANGED <<child, pipe, buf, feedback, run>>
           /\ \/ pc' = pc
              \/ pc = "admit" /\ pc' = "record"
              \/ pc' \notin Attending \cup {"admit", "record"}
  BY <1>0, <1>2 DEF OutputIsOfThisRun, SuccessIsOfThisRun, Attending
<1>3. CASE Execute
  <2>1. CASE StartRun
    BY <2>1 DEF StartRun, ClearedBuffers, NoOutput, NoRun, OutputIsOfThisRun,
                SuccessIsOfThisRun
  <2>2. CASE RunForkFails
    BY <2>2 DEF RunForkFails, OutputIsOfThisRun, SuccessIsOfThisRun
  <2>3. CASE Child
    <3>1. pc = "wait"
      BY <1>0, <2>3
         DEF FuzzInv, ChildOnlyWhileWaiting, Child, ChildExec, ChildExecFails,
             Clock, PrintOut, PrintErr, ChildExit
    <3> QED
      BY <1>0, <2>3, <3>1, ChildPrints DEF OutputIsOfThisRun, SuccessIsOfThisRun
  <2>4. CASE WaitPid
    <3>1. <<>> \o pipe.out = pipe.out
      BY <1>1
    <3> QED
      BY <1>0, <2>4, <3>1 DEF WaitPid, OutputIsOfThisRun, SuccessIsOfThisRun
  <2>5. CASE DrainOut
    <3>1. CASE /\ pipe.out # <<>>
               /\ buf' = [buf EXCEPT !.out = Append(@, Head(pipe.out))]
               /\ pipe' = [pipe EXCEPT !.out = Tail(@)]
               /\ UNCHANGED pc
      <4>1. /\ buf'.out = Append(buf.out, Head(pipe.out))
            /\ pipe'.out = Tail(pipe.out)
        BY <1>0, <3>1 DEF FuzzInv, TypeOK, ExecTypeOK, Streams
      <4>2. buf'.out \o pipe'.out = buf.out \o pipe.out
        BY <1>1, <3>1, <4>1, ChunkMoves
      <4> QED
        BY <1>0, <2>5, <3>1, <4>2
           DEF DrainOut, OutputIsOfThisRun, SuccessIsOfThisRun
    <3>2. CASE /\ pipe.out = <<>> /\ pc' = "drainErr"
               /\ UNCHANGED <<buf, pipe>>
      <4>1. buf.out \o <<>> = buf.out
        BY <1>1
      <4> QED
        BY <1>0, <2>5, <3>2, <4>1
           DEF DrainOut, OutputIsOfThisRun, SuccessIsOfThisRun
    <3> QED
      BY <2>5, <3>1, <3>2 DEF DrainOut
  <2>6. CASE DrainErr
    <3>1. buf'.out = buf.out
      BY <1>0, <2>6 DEF DrainErr, FuzzInv, TypeOK, ExecTypeOK, Streams
    <3> QED
      BY <1>0, <2>6, <3>1 DEF DrainErr, OutputIsOfThisRun, SuccessIsOfThisRun
  <2> QED
    BY <1>3, <2>1, <2>2, <2>3, <2>4, <2>5, <2>6 DEF Execute
<1>4. CASE Answer
  <2>1. feedback'.success = (child'.status = 0)
    BY <1>4 DEF Answer, ReturnFeedback, MakeFeedback
  <2> QED
    BY <1>0, <1>4, <2>1
       DEF Answer, ReturnFeedback, OutputIsOfThisRun, SuccessIsOfThisRun
<1> QED
  BY <1>2, <1>3, <1>4, OutputUntouched DEF Next, FuzzOne, Terminating

(* The first assertion line in the output is that of the first chunk with
   assertion text, and there is one if any chunk has it. *)
LEMMA FirstAssertionFacts ==
  ASSUME NEW out \in Seq(Chunk)
  PROVE  /\ FirstAssertion(out) = NoLine =>
              \A i \in DOMAIN out : out[i] = NoLine
         /\ FirstAssertion(out) # NoLine =>
              \E i \in DOMAIN out :
                /\ out[i] = FirstAssertion(out)
                /\ \A j \in 1 .. (i - 1) : out[j] = NoLine
<1>1. CASE \E i \in DOMAIN out : out[i] # NoLine
  <2> DEFINE First(i) == /\ out[i] # NoLine
                         /\ \A j \in DOMAIN out : j < i => out[j] = NoLine
             T == {i \in DOMAIN out : out[i] # NoLine}
  <2>1. T \subseteq Nat /\ T # {}
    BY <1>1
  <2>2. PICK x \in T : \A y \in T : ~(<<y, x>> \in OpToRel(<, Nat))
    BY <2>1, NatLessThanWellFounded, WFMin
  <2>3. ASSUME NEW j \in DOMAIN out, j < x PROVE out[j] = NoLine
    <3>1. j \in Nat /\ x \in Nat
      BY <2>1
    <3>2. <<j, x>> \in OpToRel(<, Nat)
      BY <2>3, <3>1 DEF OpToRel
    <3> QED
      BY <2>2, <3>2
  <2>4. \E i \in DOMAIN out : First(i)
    BY <2>2, <2>3
  <2>5. PICK i \in DOMAIN out : FirstAssertion(out) = out[i] /\ First(i)
    BY <1>1, <2>4 DEF FirstAssertion
  <2>6. \A j \in 1 .. (i - 1) : out[j] = NoLine
    BY <2>5
  <2> QED
    BY <2>5, <2>6
<1>2. CASE ~\E i \in DOMAIN out : out[i] # NoLine
  BY <1>2 DEF FirstAssertion
<1> QED
  BY <1>1, <1>2

(* What is parsed late out of the buffers is what the run printed. *)
LEMMA OutputGivesCrashLine == OutputInv => CrashLineIsExact
<1> SUFFICES ASSUME OutputInv, pc \in {"admit", "record"}
             PROVE  /\ GetCrashLine = None <=> child.status = Exited(0)
                    /\ GetCrashLine \in Line =>
                         \E i \in DOMAIN run.out :
                           /\ run.out[i] = GetCrashLine
                           /\ \A j \in 1 .. (i - 1) : run.out[j] = NoLine
                    /\ GetCrashLine = NoLine =>
                         \A i \in DOMAIN run.out : run.out[i] = NoLine
  BY DEF CrashLineIsExact
<1>1. run.out \in Seq(Chunk) /\ buf.out = run.out
  BY DEF OutputInv, OutputIsOfThisRun, FuzzInv, TypeOK, ExecTypeOK
<1>2. feedback.success = (child.status = 0) /\ feedback.success \in BOOLEAN
  BY DEF OutputInv, SuccessIsOfThisRun
<1>3. GetCrashLine = IF feedback.success THEN None ELSE FirstAssertion(run.out)
  BY <1>1 DEF GetCrashLine, CrashLine
<1>4. FirstAssertion(run.out) \in Line \cup {NoLine, None}
  <2>1. CrashLine(FALSE, run.out) \in Line \cup {NoLine, None}
    BY <1>1, CrashLineType
  <2> QED
    BY <2>1 DEF CrashLine
<1>5. FirstAssertion(run.out) # None
  <2>1. CASE FirstAssertion(run.out) = NoLine
    BY <2>1 DEF NoLine, None
  <2>2. CASE FirstAssertion(run.out) # NoLine
    <3>1. FirstAssertion(run.out) \in Chunk
      BY <1>1, <2>2, FirstAssertionFacts
    <3> QED
      BY <3>1, LineAssumption DEF Chunk, None, NoLine
  <2> QED
    BY <2>1, <2>2
<1>6. Exited(0) = 0
  BY DEF Exited
<1>7. NoLine \notin Line /\ None \notin Line /\ None # NoLine
  BY LineAssumption DEF None, NoLine
<1>8. CASE feedback.success
  BY <1>2, <1>3, <1>6, <1>7, <1>8
<1>9. CASE ~feedback.success
  <2>1. GetCrashLine = FirstAssertion(run.out)
    BY <1>3, <1>9
  <2>2. child.status # Exited(0)
    BY <1>2, <1>6, <1>9
  <2> QED
    BY <1>1, <1>5, <1>7, <2>1, <2>2, FirstAssertionFacts
<1> QED
  BY <1>2, <1>8, <1>9

(* A failed run is booked under the first assertion line its own simulator
   printed, a successful one under none, whatever is left over from earlier
   runs and however the pipes are filled and read (Executor::run,
   Feedback::get_crash_line). *)
THEOREM CrashLineAlwaysExact == Spec => []CrashLineIsExact
  BY OutputInvInit, OutputInvStep, OutputGivesCrashLine, PTL DEF Spec

----------------------------------------------------------------------------
(* The corpus.                                                             *)

(* Seeds stand in the corpus in the order of their cycles, all of them run. *)
CyclesIncrease ==
  /\ \A i \in DOMAIN corpus : corpus[i].cycle \in 1 .. Len(hist)
  /\ \A i, j \in DOMAIN corpus : i < j => corpus[i].cycle < corpus[j].cycle
  /\ pc = "admit" => \A i \in DOMAIN corpus : corpus[i].cycle < Len(hist)

(* The first cycles give the initial seeds, one each, and no later one does
   (fuzz_one: an input without a seed is always added). *)
InitialSeedsFirst ==
  /\ \A i \in DOMAIN corpus :
       IF i <= InitialSeedCount THEN corpus[i].cycle = i
       ELSE corpus[i].cycle > InitialSeedCount
  /\ Len(corpus) < InitialSeedCount =>
       Len(hist) = Len(corpus) + (IF pc = "admit" THEN 1 ELSE 0)

(* From the choice of the input to the decision about it, seed_id is the id
   of the seed that was mutated (fuzz_one). *)
ParentIsChosen ==
  /\ parent <= Len(corpus)
  /\ pc \in Chosen =>
       IF seedId = None THEN parent = 0
       ELSE parent \in DOMAIN corpus /\ seedId = corpus[parent].id
  /\ pc = "admit" => hist[Len(hist)].parent = parent

(* Every input was mutated from a seed that is in the corpus, or from none. *)
ParentsAreKept == \A c \in DOMAIN hist : hist[c].parent <= Len(corpus)

CorpusInv ==
  /\ RefInv
  /\ CyclesIncrease
  /\ InitialSeedsFirst
  /\ ParentIsChosen
  /\ ParentsAreKept
  /\ LineageIsExact
  /\ UsedCountsAreExact

(* The types the steps of the corpus are argued from (Corpus, State). *)
LEMMA CorpusFacts ==
  ASSUME RefInv
  PROVE  /\ corpus \in Seq(Seeds) /\ Len(corpus) \in Nat
         /\ DOMAIN corpus = 1 .. Len(corpus)
         /\ \A i \in DOMAIN corpus :
              /\ corpus[i] \in Seeds
              /\ corpus[i].cycle \in Nat /\ corpus[i].id \in Nat
              /\ corpus[i].pid \in Nat /\ corpus[i].used \in Nat
         /\ hist \in Seq(Runs) /\ Len(hist) \in Nat
         /\ DOMAIN hist = 1 .. Len(hist)
         /\ \A c \in DOMAIN hist : hist[c].parent \in Nat
         /\ parent \in Nat /\ fuzz_cycle \in Nat
         /\ seedId \in Nat \cup {None}
<1>1. corpus \in Seq(Seeds) /\ hist \in Seq(Runs)
  BY DEF RefInv, FuzzInv, TypeOK, CorpusTypeOK
<1>2. \A i \in DOMAIN corpus : corpus[i] \in Seeds
  BY <1>1
<1>3. \A c \in DOMAIN hist : hist[c] \in Runs
  BY <1>1
<1>4. \A c \in DOMAIN hist : hist[c].parent \in Nat
  BY <1>3 DEF Runs
<1>5. \A i \in DOMAIN corpus :
        /\ corpus[i].cycle \in Nat /\ corpus[i].id \in Nat
        /\ corpus[i].pid \in Nat /\ corpus[i].used \in Nat
  BY <1>2 DEF Seeds
<1> QED
  BY <1>1, <1>2, <1>4, <1>5 DEF RefInv, FuzzInv, TypeOK

(* A seed that is used once more keeps all its other fields, and so do the
   other seeds all of theirs (Seed::used). *)
LEMMA UsedSeedFields ==
  ASSUME RefInv, NEW k \in DOMAIN corpus, corpus' = MarkUsed(corpus, k)
  PROVE  /\ Len(corpus') = Len(corpus)
         /\ DOMAIN corpus' = DOMAIN corpus
         /\ \A i \in DOMAIN corpus :
              /\ corpus'[i].cycle = corpus[i].cycle
              /\ corpus'[i].id = corpus[i].id
              /\ corpus'[i].pid = corpus[i].pid
              /\ corpus'[i].used = corpus[i].used + (IF i = k THEN 1 ELSE 0)
<1>1. corpus \in Seq(Seeds)
  BY CorpusFacts
<1>2. corpus' = [corpus EXCEPT ![k] = [corpus[k] EXCEPT !.used = @ + 1]]
  BY DEF MarkUsed
<1>3. \A s \in Seeds : /\ [s EXCEPT !.used = @ + 1].cycle = s.cycle
                       /\ [s EXCEPT !.used = @ + 1].id = s.id
                       /\ [s EXCEPT !.used = @ + 1].pid = s.pid
                       /\ [s EXCEPT !.used = @ + 1].used = s.used + 1
  BY DEF Seeds
<1>4. Len(corpus') = Len(corpus) /\ DOMAIN corpus' = DOMAIN corpus
  BY <1>1, <1>2
<1>5. ASSUME NEW i \in DOMAIN corpus
      PROVE  /\ corpus'[i].cycle = corpus[i].cycle
             /\ corpus'[i].id = corpus[i].id
             /\ corpus'[i].pid = corpus[i].pid
             /\ corpus'[i].used = corpus[i].used + (IF i = k THEN 1 ELSE 0)
  <2>1. corpus[i] \in Seeds /\ corpus[i].used \in Nat
    BY CorpusFacts
  <2>2. CASE i = k
    <3>1. corpus'[i] = [corpus[i] EXCEPT !.used = @ + 1]
      BY <1>1, <1>2, <2>2
    <3> QED
      BY <1>3, <2>1, <2>2, <3>1
  <2>3. CASE i # k
    <3>1. corpus'[i] = corpus[i]
      BY <1>1, <1>2, <2>3
    <3> QED
      BY <2>1, <2>3, <3>1
  <2> QED
    BY <2>2, <2>3
<1> QED
  BY <1>4, <1>5

(* What the steps that neither choose a seed, answer a run nor admit an input
   do to the corpus, the runs and the choice. *)
LEMMA CorpusUntouched ==
  ASSUME RefInv,
         \/ Expire \/ LoopHead \/ Execute \/ Record \/ RecordThrows
         \/ SaveResults \/ UNCHANGED vars
         \/ \E wstatus \in BuildStatus : Build(wstatus)
  PROVE  /\ UNCHANGED <<corpus, hist, parent, seedId>>
         /\ pc' \in Chosen => pc \in Chosen
         /\ pc' = "admit" <=> pc = "admit"
<1> USE DEF execVars, stateVars, loopVars, Attending, Chosen
<1>1. CASE Expire \/ UNCHANGED vars
  BY <1>1 DEF Expire, vars
<1>2. CASE LoopHead \/ SaveResults
  BY <1>2 DEF LoopHead, SaveResults
<1>3. CASE Record \/ RecordThrows
  BY <1>3 DEF Record, RecordThrows
<1>4. CASE \E wstatus \in BuildStatus : Build(wstatus)
  BY <1>4 DEF Build
<1>5. CASE Execute
  <2>1. UNCHANGED <<corpus, hist, parent, seedId>>
    BY <1>5 DEF Execute
  <2>2. ASSUME Child PROVE pc' = pc /\ pc = "wait"
    BY <2>2
       DEF RefInv, FuzzInv, ChildOnlyWhileWaiting, Child, childUnchanged,
           ChildExec, ChildExecFails, Clock, PrintOut, PrintErr, ChildExit
  <2> QED
    BY <1>5, <2>1, <2>2
       DEF Execute, StartRun, RunForkFails, WaitPid, DrainOut, DrainErr
<1> QED
  BY <1>1, <1>2, <1>3, <1>4, <1>5

(* An input is under way: chosen and mutated, its run not yet answered. *)
UnderWay == Len(hist) < fuzz_cycle /\ pc \notin {"loop", "input", "save", "done"}

(* Steps that neither choose a program nor answer one leave it under way. *)
LEMMA UnderWayStays ==
  ASSUME RefInv,
         \/ Expire \/ LoopHead \/ Execute \/ Record \/ RecordThrows
         \/ SaveResults \/ UNCHANGED vars
         \/ \E wstatus \in BuildStatus : Build(wstatus)
  PROVE  UnderWay' = UnderWay
<1> USE DEF UnderWay, execVars, stateVars, loopVars
<1>1. CASE Expire \/ UNCHANGED vars
  BY <1>1 DEF Expire, vars
<1>2. CASE LoopHead \/ SaveResults
  BY <1>2 DEF LoopHead, SaveResults
<1>3. CASE Record \/ RecordThrows
  <2>1. fuzz_cycle = Len(hist) /\ fuzz_cycle \in Nat /\ UNCHANGED <<fuzz_cycle, hist>>
    BY <1>3, CorpusFacts DEF RefInv, CyclesFollowRuns, Record, RecordThrows
  <2> QED
    BY <2>1
<1>4. CASE \E wstatus \in BuildStatus : Build(wstatus)
  BY <1>4 DEF Build
<1>5. CASE Execute
  <2>1. UNCHANGED <<fuzz_cycle, hist>>
    BY <1>5 DEF Execute
  <2>2. ASSUME Child PROVE pc' = pc
    BY <2>2
       DEF Child, childUnchanged, ChildExec, ChildExecFails, Clock, PrintOut,
           PrintErr, ChildExit
  <2> QED
    BY <1>5, <2>1, <2>2
       DEF Execute, StartRun, RunForkFails, WaitPid, DrainOut, DrainErr
<1> QED
  BY <1>1, <1>2, <1>3, <1>4, <1>5

(* The inputs mutated from seed i whose runs have answered. *)
MutantsOf(i) == {c \in DOMAIN hist : hist[c].parent = i}

(* The same with the mutants of a seed as a set. *)
LEMMA UsedCountsForm ==
  UsedCountsAreExact <=>
    \A i \in DOMAIN corpus :
      corpus[i].used = Cardinality(MutantsOf(i))
                         + (IF parent = i /\ UnderWay THEN 1 ELSE 0)
  BY DEF UsedCountsAreExact, MutantsOf, UnderWay

(* The number of mutants is a number. *)
LEMMA MutantCount ==
  ASSUME RefInv, NEW i
  PROVE  IsFiniteSet(MutantsOf(i)) /\ Cardinality(MutantsOf(i)) \in Nat
<1>1. DOMAIN hist = 1 .. Len(hist) /\ Len(hist) \in Int
  BY CorpusFacts
<1>2. IsFiniteSet(1 .. Len(hist))
  BY <1>1, FS_Interval
<1>3. MutantsOf(i) \in SUBSET (1 .. Len(hist))
  BY <1>1 DEF MutantsOf
<1> QED
  BY <1>2, <1>3, FS_Subset, FS_CardinalityType

(* Steps that touch neither corpus nor history. *)
LEMMA UntouchedKeepsCorpusInv ==
  ASSUME CorpusInv, RefInv',
         \/ Expire \/ LoopHead \/ Execute \/ Record \/ RecordThrows
         \/ SaveResults \/ UNCHANGED vars
         \/ \E wstatus \in BuildStatus : Build(wstatus)
  PROVE  CorpusInv'
<1>0. /\ RefInv /\ CyclesIncrease /\ InitialSeedsFirst /\ ParentIsChosen
      /\ ParentsAreKept /\ LineageIsExact /\ UsedCountsAreExact
  BY DEF CorpusInv
<1>1. /\ UNCHANGED <<corpus, hist, parent, seedId>>
      /\ pc' \in Chosen => pc \in Chosen
      /\ pc' = "admit" <=> pc = "admit"
  BY <1>0, CorpusUntouched
<1>2. UnderWay' = UnderWay
  BY <1>0, UnderWayStays
<1>3. CyclesIncrease' /\ ParentIsChosen' /\ ParentsAreKept' /\ LineageIsExact'
  BY <1>0, <1>1 DEF CyclesIncrease, ParentIsChosen, ParentsAreKept, LineageIsExact
<1>4. InitialSeedsFirst'
  <2>1. (IF pc' = "admit" THEN 1 ELSE 0) = (IF pc = "admit" THEN 1 ELSE 0)
    BY <1>1
  <2> QED
    BY <1>0, <1>1, <2>1 DEF InitialSeedsFirst
<1>5. UsedCountsAreExact'
  <2>1. \A i : MutantsOf(i)' = MutantsOf(i)
    BY <1>1 DEF MutantsOf
  <2>2. \A i \in DOMAIN corpus :
          corpus[i].used = Cardinality(MutantsOf(i))
                             + (IF parent = i /\ UnderWay THEN 1 ELSE 0)
    BY <1>0, UsedCountsForm
  <2>3. \A i \in DOMAIN corpus' :
          corpus'[i].used = Cardinality(MutantsOf(i)')
                              + (IF parent' = i /\ UnderWay' THEN 1 ELSE 0)
    BY <1>1, <1>2, <2>1, <2>2
  <2> QED
    BY <2>3 DEF UsedCountsAreExact, MutantsOf, UnderWay
<1> QED
  BY <1>3, <1>4, <1>5 DEF CorpusInv

(* A seed is mutated: it becomes the parent of the input, and its use count
   goes ahead of the answered runs by the one under way. *)
LEMMA MutateKeepsCorpusInv ==
  ASSUME CorpusInv, RefInv', NEW k \in DOMAIN corpus, MutateSeed(k)
  PROVE  CorpusInv'
<1>0. /\ RefInv /\ CyclesIncrease /\ InitialSeedsFirst /\ ParentIsChosen
      /\ ParentsAreKept /\ LineageIsExact /\ UsedCountsAreExact
  BY DEF CorpusInv
<1>1. /\ corpus' = MarkUsed(corpus, k) /\ seedId' = corpus[k].id /\ parent' = k
      /\ pc = "input" /\ pc' = "build" /\ UNCHANGED <<hist, fuzz_cycle>>
  BY DEF MutateSeed, GetNextSeed, inputUnchanged
<1>2. /\ Len(corpus') = Len(corpus)
      /\ DOMAIN corpus' = DOMAIN corpus
      /\ \A i \in DOMAIN corpus :
           /\ corpus'[i].cycle = corpus[i].cycle
           /\ corpus'[i].id = corpus[i].id
           /\ corpus'[i].pid = corpus[i].pid
           /\ corpus'[i].used = corpus[i].used + (IF i = k THEN 1 ELSE 0)
  BY <1>0, <1>1, UsedSeedFields
<1>3. CyclesIncrease' /\ InitialSeedsFirst' /\ ParentsAreKept' /\ LineageIsExact'
  <2>1. CyclesIncrease' /\ ParentsAreKept'
    BY <1>0, <1>1, <1>2 DEF CyclesIncrease, ParentsAreKept
  <2>2. InitialSeedsFirst'
    BY <1>0, <1>1, <1>2 DEF InitialSeedsFirst
  <2>3. LineageIsExact'
    BY <1>0, <1>1, <1>2 DEF LineageIsExact
  <2> QED
    BY <2>1, <2>2, <2>3
<1>4. ParentIsChosen'
  <2>1. corpus[k].id \in Nat /\ k \in 1 .. Len(corpus) /\ Len(corpus) \in Nat
    BY <1>0, CorpusFacts
  <2>2. seedId' # None
    BY <1>1, <2>1 DEF None
  <2> QED
    BY <1>1, <1>2, <2>1, <2>2 DEF ParentIsChosen, Chosen, Attending
<1>5. UsedCountsAreExact'
  <2>1. ~UnderWay /\ UnderWay'
    <3>1. fuzz_cycle = Len(hist) + 1 /\ Len(hist) \in Nat
      BY <1>0, <1>1, CorpusFacts DEF RefInv, CyclesFollowRuns, Begun
    <3> QED
      BY <1>1, <3>1 DEF UnderWay
  <2>2. \A i \in DOMAIN corpus :
          /\ Cardinality(MutantsOf(i)) \in Nat
          /\ corpus[i].used = Cardinality(MutantsOf(i))
                                + (IF parent = i /\ UnderWay THEN 1 ELSE 0)
    BY <1>0, UsedCountsForm, MutantCount
  <2>3. \A i \in DOMAIN corpus :
          corpus'[i].used = Cardinality(MutantsOf(i))
                              + (IF parent' = i /\ UnderWay' THEN 1 ELSE 0)
    BY <1>1, <1>2, <2>1, <2>2
  <2>4. \A i : MutantsOf(i)' = MutantsOf(i)
    BY <1>1 DEF MutantsOf
  <2>5. \A i \in DOMAIN corpus' :
          corpus'[i].used = Cardinality(MutantsOf(i)')
                              + (IF parent' = i /\ UnderWay' THEN 1 ELSE 0)
    BY <1>2, <2>3, <2>4
  <2> QED
    BY <2>5 DEF UsedCountsAreExact, MutantsOf, UnderWay
<1> QED
  BY <1>3, <1>4, <1>5 DEF CorpusInv

(* A new program is generated: it has no parent. *)
LEMMA NewProgramKeepsCorpusInv ==
  ASSUME CorpusInv, RefInv', NewProgram
  PROVE  CorpusInv'
<1>0. /\ RefInv /\ CyclesIncrease /\ InitialSeedsFirst /\ ParentIsChosen
      /\ ParentsAreKept /\ LineageIsExact /\ UsedCountsAreExact
  BY DEF CorpusInv
<1>1. /\ seedId' = None /\ parent' = 0 /\ pc = "input" /\ pc' = "build"
      /\ UNCHANGED <<corpus, hist, fuzz_cycle>>
  BY DEF NewProgram, inputUnchanged
<1>2. CyclesIncrease' /\ ParentsAreKept' /\ LineageIsExact'
  BY <1>0, <1>1 DEF CyclesIncrease, ParentsAreKept, LineageIsExact
<1>3. InitialSeedsFirst'
  BY <1>0, <1>1 DEF InitialSeedsFirst
<1>4. ParentIsChosen'
  <2>1. 0 <= Len(corpus)
    BY <1>0, CorpusFacts
  <2> QED
    BY <1>1, <2>1 DEF ParentIsChosen
<1>5. UsedCountsAreExact'
  <2>1. ~UnderWay /\ \A i \in DOMAIN corpus : i # 0
    BY <1>0, <1>1, CorpusFacts DEF UnderWay
  <2>2. \A i \in DOMAIN corpus :
          corpus[i].used = Cardinality(MutantsOf(i))
                             + (IF parent = i /\ UnderWay THEN 1 ELSE 0)
    BY <1>0, UsedCountsForm
  <2>3. \A i \in DOMAIN corpus :
          corpus[i].used = Cardinality(MutantsOf(i))
                             + (IF parent' = i /\ UnderWay' THEN 1 ELSE 0)
    BY <1>1, <2>1, <2>2
  <2>4. \A i : MutantsOf(i)' = MutantsOf(i)
    BY <1>1 DEF MutantsOf
  <2>5. \A i \in DOMAIN corpus' :
          corpus'[i].used = Cardinality(MutantsOf(i)')
                              + (IF parent' = i /\ UnderWay' THEN 1 ELSE 0)
    BY <1>1, <2>3, <2>4
  <2> QED
    BY <2>5 DEF UsedCountsAreExact, MutantsOf, UnderWay
<1> QED
  BY <1>2, <1>3, <1>4, <1>5 DEF CorpusInv

(* A run is answered: its input is no longer under way but on record. *)
LEMMA AnswerKeepsCorpusInv ==
  ASSUME CorpusInv, RefInv', Answer
  PROVE  CorpusInv'
<1> DEFINE r == [cov |-> run.cov, surge |-> run.surge, parent |-> parent]
<1>0. /\ RefInv /\ CyclesIncrease /\ InitialSeedsFirst /\ ParentIsChosen
      /\ ParentsAreKept /\ LineageIsExact /\ UsedCountsAreExact
  BY DEF CorpusInv
<1>1. /\ hist' = Append(hist, r) /\ r.parent = parent
      /\ pc = "feedback" /\ pc' = "admit"
      /\ UNCHANGED <<corpus, parent, seedId, fuzz_cycle>>
  BY <1>0, AnswerFacts DEF RefInv, Answer
<1> HIDE DEF r
<1>2. /\ Len(hist) \in Nat /\ DOMAIN hist = 1 .. Len(hist)
      /\ Len(hist') = Len(hist) + 1 /\ DOMAIN hist' = 1 .. (Len(hist) + 1)
      /\ \A c \in 1 .. Len(hist) : hist'[c] = hist[c]
      /\ hist'[Len(hist) + 1] = r
  BY <1>0, <1>1, CorpusFacts
<1>3. /\ Len(corpus) \in Nat /\ DOMAIN corpus = 1 .. Len(corpus)
      /\ \A i \in DOMAIN corpus : corpus[i].cycle \in Nat
      /\ fuzz_cycle = Len(hist) + 1
  BY <1>0, <1>1, CorpusFacts DEF RefInv, CyclesFollowRuns, Begun, Attending
<1>4. CyclesIncrease'
  BY <1>0, <1>1, <1>2, <1>3 DEF CyclesIncrease
<1>5. InitialSeedsFirst'
  <2>1. (IF pc = "admit" THEN 1 ELSE 0) = 0 /\ (IF pc' = "admit" THEN 1 ELSE 0) = 1
    BY <1>1
  <2>2. Len(corpus) < InitialSeedCount => Len(hist) = Len(corpus) + 0
    BY <1>0, <2>1 DEF InitialSeedsFirst
  <2>3. Len(corpus) < InitialSeedCount => Len(hist') = Len(corpus) + 1
    BY <1>2, <1>3, <2>2
  <2> QED
    BY <1>0, <1>1, <2>1, <2>3 DEF InitialSeedsFirst
<1>6. ParentIsChosen' /\ ParentsAreKept'
  <2>1. ParentsAreKept'
    BY <1>0, <1>1, <1>2, <1>3 DEF ParentsAreKept, ParentIsChosen
  <2>2. ParentIsChosen'
    BY <1>0, <1>1, <1>2, <1>3 DEF ParentIsChosen, Chosen, Attending
  <2> QED
    BY <2>1, <2>2
<1>7. LineageIsExact'
  <2>1. \A i \in DOMAIN corpus : hist'[corpus[i].cycle] = hist[corpus[i].cycle]
    BY <1>0, <1>2 DEF CyclesIncrease
  <2> QED
    BY <1>0, <1>1, <2>1 DEF LineageIsExact
<1>8. UsedCountsAreExact'
  <2>1. UnderWay /\ ~UnderWay'
    BY <1>1, <1>2, <1>3 DEF UnderWay
  <2>2. \A i : MutantsOf(i)' = IF i = parent
                               THEN MutantsOf(i) \cup {Len(hist) + 1}
                               ELSE MutantsOf(i)
    BY <1>1, <1>2 DEF MutantsOf
  <2>3. \A i : IsFiniteSet(MutantsOf(i)) /\ Cardinality(MutantsOf(i)) \in Nat
    BY <1>0, MutantCount
  <2>4. \A i : Len(hist) + 1 \notin MutantsOf(i)
    BY <1>2 DEF MutantsOf
  <2>5. \A i : Cardinality(MutantsOf(i)') =
                 Cardinality(MutantsOf(i)) + (IF parent = i THEN 1 ELSE 0)
    <3> SUFFICES ASSUME NEW i
                 PROVE  Cardinality(MutantsOf(i)') =
                          Cardinality(MutantsOf(i)) + (IF parent = i THEN 1 ELSE 0)
      OBVIOUS
    <3>1. CASE i = parent
      BY <2>2, <2>3, <2>4, <3>1, FS_AddElement
    <3>2. CASE i # parent
      BY <2>2, <2>3, <3>2
    <3> QED
      BY <3>1, <3>2
  <2>6. \A i \in DOMAIN corpus :
          corpus[i].used = Cardinality(MutantsOf(i))
                             + (IF parent = i /\ UnderWay THEN 1 ELSE 0)
    BY <1>0, UsedCountsForm
  <2>7. \A i \in DOMAIN corpus' :
          corpus'[i].used = Cardinality(MutantsOf(i)')
                              + (IF parent' = i /\ UnderWay' THEN 1 ELSE 0)
    <3> SUFFICES ASSUME NEW i \in DOMAIN corpus
                 PROVE  corpus[i].used = Cardinality(MutantsOf(i)')
                              + (IF parent' = i /\ UnderWay' THEN 1 ELSE 0)
      BY <1>1
    <3>1. Cardinality(MutantsOf(i)) \in Nat
      BY <2>3
    <3>2. (IF parent' = i /\ UnderWay' THEN 1 ELSE 0) = 0
      BY <2>1
    <3>3. (IF parent = i /\ UnderWay THEN 1 ELSE 0) = (IF parent = i THEN 1 ELSE 0)
      BY <2>1
    <3> QED
      BY <2>5, <2>6, <3>1, <3>2, <3>3
  <2> QED
    BY <2>7 DEF UsedCountsAreExact, MutantsOf, UnderWay
<1> QED
  BY <1>4, <1>5, <1>6, <1>7, <1>8 DEF CorpusInv

(* What the new seed is when an input is admitted. *)
LEMMA AdmittedSeed ==
  ASSUME CorpusInv, Admit, Keeps(feedback, seedId)
  PROVE  \E s : /\ corpus' = Append(corpus, s)
                /\ s.cycle = Len(hist) /\ s.used = 0
                /\ s.id = (IF seedId = None THEN 0 ELSE Len(corpus))
                /\ s.pid = (IF seedId = None THEN 0 ELSE seedId)
<1> DEFINE s == [cycle |-> fuzz_cycle, id |-> NewId(corpus, seedId),
                 pid |-> NewPid(seedId), score |-> feedback.score,
                 energy |-> feedback.energy, used |-> 0]
<1>1. corpus' = Append(corpus, s)
  BY DEF Admit, AddNewInput
<1>2. fuzz_cycle = Len(hist)
  BY DEF Admit, CorpusInv, RefInv, CyclesFollowRuns
<1>3. /\ s.cycle = Len(hist) /\ s.used = 0
      /\ s.id = (IF seedId = None THEN 0 ELSE Len(corpus))
      /\ s.pid = (IF seedId = None THEN 0 ELSE seedId)
  BY <1>2 DEF NewId, NewPid
<1> HIDE DEF s
<1> QED
  BY <1>1, <1>3

(* An input is admitted: as an initial seed, while there are too few, or as a
   mutant whose parent and whose place the lineage can be read from
   (Corpus::add_new_input). *)
LEMMA AdmitKeepsLineage ==
  ASSUME CorpusInv, Admit, Keeps(feedback, seedId)
  PROVE  CyclesIncrease' /\ InitialSeedsFirst' /\ LineageIsExact'
<1>0. /\ RefInv /\ CyclesIncrease /\ InitialSeedsFirst /\ ParentIsChosen
      /\ LineageIsExact
  BY DEF CorpusInv
<1> DEFINE L == Len(corpus)
<1>1. /\ pc = "admit" /\ pc' = "record" /\ UNCHANGED <<hist, parent, seedId>>
      /\ fuzz_cycle = Len(hist)
  BY <1>0 DEF Admit, loopVars, RefInv, CyclesFollowRuns
<1>2. PICK s : /\ corpus' = Append(corpus, s)
               /\ s.cycle = Len(hist) /\ s.used = 0
               /\ s.id = (IF seedId = None THEN 0 ELSE L)
               /\ s.pid = (IF seedId = None THEN 0 ELSE seedId)
  BY AdmittedSeed
<1>3. /\ L \in Nat /\ DOMAIN corpus = 1 .. L
      /\ Len(corpus') = L + 1 /\ DOMAIN corpus' = 1 .. (L + 1)
      /\ \A i \in 1 .. L : corpus'[i] = corpus[i]
      /\ corpus'[L + 1] = s
  BY <1>0, <1>2, CorpusFacts
<1>4. /\ seedId = None <=> L < InitialSeedCount
      /\ Len(hist) \in Nat /\ InitialSeedCount \in Nat \ {0}
  BY <1>0, <1>1, CorpusFacts, InitialSeedCountAssumption
     DEF RefInv, ChoiceFollowsCorpus, Chosen
<1>5. \A i \in 1 .. L : corpus[i].cycle \in 1 .. Len(hist)
                        /\ corpus[i].cycle < Len(hist)
  BY <1>0, <1>1, <1>3 DEF CyclesIncrease
<1>6. L < InitialSeedCount => Len(hist) = L + 1
  <2>1. (IF pc = "admit" THEN 1 ELSE 0) = 1
    BY <1>1
  <2> QED
    BY <1>0, <2>1 DEF InitialSeedsFirst
<1>7. L >= InitialSeedCount => Len(hist) > InitialSeedCount
  <2>1. ASSUME L >= InitialSeedCount PROVE Len(hist) > InitialSeedCount
    <3>1. InitialSeedCount \in 1 .. L
      BY <1>3, <1>4, <2>1
    <3>2. corpus[InitialSeedCount].cycle = InitialSeedCount
      BY <1>0, <1>3, <1>4, <3>1 DEF InitialSeedsFirst
    <3> QED
      BY <1>4, <1>5, <3>1, <3>2
  <2> QED
    BY <2>1
<1>8. Len(hist) >= 1
  BY <1>3, <1>4, <1>6, <1>7
<1> HIDE DEF L
<1>9. CyclesIncrease'
  <2>1. \A i \in DOMAIN corpus' : corpus'[i].cycle \in 1 .. Len(hist')
    BY <1>1, <1>2, <1>3, <1>4, <1>5, <1>8
  <2>2. \A i, j \in DOMAIN corpus' : i < j => corpus'[i].cycle < corpus'[j].cycle
    <3> SUFFICES ASSUME NEW i \in 1 .. (L + 1), NEW j \in 1 .. (L + 1), i < j
                 PROVE  corpus'[i].cycle < corpus'[j].cycle
      BY <1>3
    <3>1. i \in 1 .. L /\ corpus'[i] = corpus[i]
      BY <1>3
    <3>2. CASE j \in 1 .. L
      BY <1>0, <1>3, <3>1, <3>2 DEF CyclesIncrease
    <3>3. CASE j = L + 1
      BY <1>2, <1>3, <1>5, <3>1, <3>3
    <3> QED
      BY <1>3, <3>2, <3>3
  <2> QED
    BY <1>1, <2>1, <2>2 DEF CyclesIncrease
<1>10. InitialSeedsFirst'
  <2>1. \A i \in DOMAIN corpus' :
          IF i <= InitialSeedCount THEN corpus'[i].cycle = i
          ELSE corpus'[i].cycle > InitialSeedCount
    <3> SUFFICES ASSUME NEW i \in 1 .. (L + 1)
                 PROVE  IF i <= InitialSeedCount THEN corpus'[i].cycle = i
                        ELSE corpus'[i].cycle > InitialSeedCount
      BY <1>3
    <3>1. CASE i \in 1 .. L
      BY <1>0, <1>3, <3>1 DEF InitialSeedsFirst
    <3>2. CASE i = L + 1
      BY <1>2, <1>3, <1>4, <1>6, <1>7, <3>2
    <3> QED
      BY <1>3, <3>1, <3>2
  <2>2. Len(corpus') < InitialSeedCount =>
          Len(hist') = Len(corpus') + (IF pc' = "admit" THEN 1 ELSE 0)
    <3>1. (IF pc' = "admit" THEN 1 ELSE 0) = 0
      BY <1>1
    <3>2. Len(corpus') < InitialSeedCount => Len(hist') = Len(corpus') + 0
      BY <1>1, <1>3, <1>4, <1>6
    <3> QED
      BY <3>1, <3>2
  <2> QED
    BY <2>1, <2>2 DEF InitialSeedsFirst
<1>11. LineageIsExact'
  <2> DEFINE Followed(i) ==
        LET mutated == hist[corpus'[i].cycle].parent
        IN  IF corpus'[i].cycle <= InitialSeedCount
            THEN mutated = 0 /\ corpus'[i].id = 0
            ELSE /\ corpus'[i].id = i - 1
                 /\ mutated < i
                 /\ IF corpus'[i].pid = 0 THEN mutated \in 1 .. InitialSeedCount
                    ELSE mutated = corpus'[i].pid + 1
  <2>1. ASSUME NEW i \in 1 .. L PROVE Followed(i)
    BY <1>0, <1>3, <2>1 DEF LineageIsExact
  <2>2. Followed(L + 1)
    <3>1. hist[corpus'[L + 1].cycle].parent = parent
      BY <1>0, <1>1, <1>2, <1>3 DEF ParentIsChosen
    <3>2. CASE seedId = None
      <4>1. parent = 0
        BY <1>0, <1>1, <3>2 DEF ParentIsChosen, Chosen
      <4>2. Len(hist) <= InitialSeedCount
        BY <1>3, <1>4, <1>6, <3>2
      <4> QED
        BY <1>2, <1>3, <3>1, <3>2, <4>1, <4>2
    <3>3. CASE seedId # None
      <4>1. L >= InitialSeedCount /\ Len(hist) > InitialSeedCount
        BY <1>3, <1>4, <1>7, <3>3
      <4>2. parent \in 1 .. L /\ seedId = corpus[parent].id
        BY <1>0, <1>1, <1>3, <3>3 DEF ParentIsChosen, Chosen
      <4>3. CASE parent <= InitialSeedCount
        <5>1. corpus[parent].cycle <= InitialSeedCount
          BY <1>0, <1>3, <1>4, <4>2, <4>3 DEF InitialSeedsFirst
        <5>2. seedId = 0
          BY <1>0, <1>3, <4>2, <5>1 DEF LineageIsExact
        <5> QED
          BY <1>2, <1>3, <1>4, <3>1, <3>3, <4>1, <4>2, <4>3, <5>2
      <4>4. CASE ~(parent <= InitialSeedCount)
        <5>1. ~(corpus[parent].cycle <= InitialSeedCount)
          <6>1. corpus[parent].cycle > InitialSeedCount /\ corpus[parent].cycle \in Int
            BY <1>0, <1>3, <1>5, <4>2, <4>4 DEF InitialSeedsFirst
          <6> QED
            BY <1>4, <6>1
        <5>2. seedId = parent - 1
          BY <1>0, <1>3, <4>2, <5>1 DEF LineageIsExact
        <5> QED
          BY <1>2, <1>3, <1>4, <3>1, <3>3, <4>1, <4>2, <4>4, <5>2
      <4> QED
        BY <4>3, <4>4
    <3> QED
      BY <3>2, <3>3
  <2>3. \A i \in DOMAIN corpus' : Followed(i)
    <3>1. DOMAIN corpus' = (1 .. L) \cup {L + 1}
      BY <1>3
    <3> HIDE DEF Followed
    <3> QED
      BY <2>1, <2>2, <3>1
  <2> QED
    BY <1>1, <2>3 DEF LineageIsExact
<1> QED
  BY <1>9, <1>10, <1>11

(* A seed is admitted: it is the last of the corpus. *)
LEMMA AdmitKeepsCorpusInv ==
  ASSUME CorpusInv, RefInv', Admit
  PROVE  CorpusInv'
<1>0. /\ RefInv /\ CyclesIncrease /\ InitialSeedsFirst /\ ParentIsChosen
      /\ ParentsAreKept /\ LineageIsExact /\ UsedCountsAreExact
  BY DEF CorpusInv
<1>1. /\ pc = "admit" /\ pc' = "record"
      /\ UNCHANGED <<hist, parent, seedId, fuzz_cycle>>
      /\ fuzz_cycle = Len(hist) /\ Len(hist) \in Nat /\ Len(corpus) \in Nat
  BY <1>0, CorpusFacts DEF Admit, loopVars, RefInv, CyclesFollowRuns
<1>2. ~UnderWay /\ ~UnderWay'
  BY <1>1 DEF UnderWay
<1>3. \A i : MutantsOf(i)' = MutantsOf(i)
  BY <1>1 DEF MutantsOf
<1>4. \A i \in DOMAIN corpus :
        /\ corpus[i].used = Cardinality(MutantsOf(i)) + 0
        /\ Cardinality(MutantsOf(i)) \in Nat
  BY <1>0, <1>2, UsedCountsForm, MutantCount
<1>5. CASE ~Keeps(feedback, seedId)
  <2>1. corpus' = corpus
    BY <1>5 DEF Admit
  <2>2. ~(Len(corpus) < InitialSeedCount)
    BY <1>0, <1>1, <1>5 DEF Keeps, RefInv, ChoiceFollowsCorpus, Chosen
  <2>3. CyclesIncrease' /\ LineageIsExact' /\ ParentsAreKept'
    BY <1>0, <1>1, <2>1 DEF CyclesIncrease, LineageIsExact, ParentsAreKept
  <2>4. InitialSeedsFirst'
    BY <1>0, <2>1, <2>2 DEF InitialSeedsFirst
  <2>5. ParentIsChosen'
    BY <1>0, <1>1, <2>1 DEF ParentIsChosen, Chosen, Attending
  <2>6. UsedCountsAreExact'
    <3>1. \A i \in DOMAIN corpus' :
            corpus'[i].used = Cardinality(MutantsOf(i)')
                                + (IF parent' = i /\ UnderWay' THEN 1 ELSE 0)
      BY <1>2, <1>3, <1>4, <2>1
    <3> QED
      BY <3>1 DEF UsedCountsAreExact, MutantsOf, UnderWay
  <2> QED
    BY <2>3, <2>4, <2>5, <2>6 DEF CorpusInv
<1>6. CASE Keeps(feedback, seedId)
  <2>1. CyclesIncrease' /\ InitialSeedsFirst' /\ LineageIsExact'
    BY <1>6, AdmitKeepsLineage
  <2>2. PICK s : corpus' = Append(corpus, s) /\ s.used = 0
    BY <1>6, AdmittedSeed
  <2>3. /\ DOMAIN corpus = 1 .. Len(corpus)
        /\ Len(corpus') = Len(corpus) + 1
        /\ DOMAIN corpus' = DOMAIN corpus \cup {Len(corpus) + 1}
        /\ \A i \in DOMAIN corpus : corpus'[i] = corpus[i]
        /\ corpus'[Len(corpus) + 1] = s
    BY <1>0, <2>2, CorpusFacts
  <2>4. /\ parent \in Nat
        /\ \A c \in DOMAIN hist : hist[c].parent \in Nat
    BY <1>0, CorpusFacts
  <2>5. ParentIsChosen' /\ ParentsAreKept'
    <3>1. ParentsAreKept'
      BY <1>0, <1>1, <2>3, <2>4 DEF ParentsAreKept
    <3>2. parent' <= Len(corpus')
      BY <1>0, <1>1, <2>3, <2>4 DEF ParentIsChosen
    <3> QED
      BY <1>1, <3>1, <3>2 DEF ParentIsChosen, Chosen, Attending
  <2>6. UsedCountsAreExact'
    <3>1. MutantsOf(Len(corpus) + 1) = {}
      BY <1>0, <1>1, <2>4 DEF ParentsAreKept, MutantsOf
    <3>2. Cardinality(MutantsOf(Len(corpus) + 1)) = 0
      BY <3>1, FS_EmptySet
    <3>3. \A i \in DOMAIN corpus' :
            corpus'[i].used = Cardinality(MutantsOf(i)) + 0
      BY <1>4, <2>2, <2>3, <3>2
    <3>4. \A i \in DOMAIN corpus' :
            corpus'[i].used = Cardinality(MutantsOf(i)')
                                + (IF parent' = i /\ UnderWay' THEN 1 ELSE 0)
      BY <1>2, <1>3, <3>3
    <3> QED
      BY <3>4 DEF UsedCountsAreExact, MutantsOf, UnderWay
  <2> QED
    BY <2>1, <2>5, <2>6 DEF CorpusInv
<1> QED
  BY <1>5, <1>6

(* An empty corpus has no lineage. *)
LEMMA CorpusInvInit == Init => CorpusInv
<1> SUFFICES ASSUME Init PROVE CorpusInv
  OBVIOUS
<1>1. corpus = <<>> /\ hist = <<>> /\ parent = 0 /\ pc = "loop"
  BY DEF Init, CorpusInit
<1>2. DOMAIN corpus = {} /\ DOMAIN hist = {} /\ Len(corpus) = 0 /\ Len(hist) = 0
  BY <1>1
<1>3. InitialSeedsFirst
  BY <1>1, <1>2 DEF InitialSeedsFirst
<1>4. ParentIsChosen
  BY <1>1, <1>2 DEF ParentIsChosen, Chosen, Attending
<1>5. CyclesIncrease /\ ParentsAreKept /\ LineageIsExact /\ UsedCountsAreExact
  BY <1>1, <1>2
     DEF CyclesIncrease, ParentsAreKept, LineageIsExact, UsedCountsAreExact
<1> QED
  BY <1>3, <1>4, <1>5, RefInvInit DEF CorpusInv

(* Every step of fuzzer and simulator. *)
LEMMA CorpusInvStep == CorpusInv /\ [Next]_vars => CorpusInv'
<1> SUFFICES ASSUME CorpusInv, [Next]_vars PROVE CorpusInv'
  OBVIOUS
<1>0. RefInv'
  BY RefInvStep DEF CorpusInv
<1>1. CASE \/ Expire \/ LoopHead \/ Execute \/ Record \/ RecordThrows
           \/ SaveResults \/ UNCHANGED vars
           \/ \E wstatus \in BuildStatus : Build(wstatus)
  BY <1>0, <1>1, UntouchedKeepsCorpusInv
<1>2. CASE \E i \in DOMAIN corpus : MutateSeed(i)
  BY <1>0, <1>2, MutateKeepsCorpusInv
<1>3. CASE NewProgram
  BY <1>0, <1>3, NewProgramKeepsCorpusInv
<1>4. CASE Answer
  BY <1>0, <1>4, AnswerKeepsCorpusInv
<1>5. CASE Admit
  BY <1>0, <1>5, AdmitKeepsCorpusInv
<1> QED
  BY <1>1, <1>2, <1>3, <1>4, <1>5 DEF Next, FuzzOne, Terminating

(* The invariant of the corpus holds in every campaign. *)
LEMMA CorpusInvariant == Spec => []CorpusInv
  BY CorpusInvInit, CorpusInvStep, PTL DEF Spec

(* Although all initial seeds share id 0, the parent of every seed can be read
   from the corpus: its pid is the id of the seed that was really mutated
   (Corpus::add_new_input, fuzz_one). *)
THEOREM LineageAlwaysExact == Spec => []LineageIsExact
<1>1. CorpusInv => LineageIsExact
  BY DEF CorpusInv
<1> QED
  BY <1>1, CorpusInvariant, PTL

(* A seed's used_count is the number of inputs mutated from it, no use lost on
   a copy of the seed and none counted twice (Seed::used, get_next_seed). *)
THEOREM UsedCountsAlwaysExact == Spec => []UsedCountsAreExact
<1>1. CorpusInv => UsedCountsAreExact
  BY DEF CorpusInv
<1> QED
  BY <1>1, CorpusInvariant, PTL

(* At the end the saved files are the corpus. *)
SavedIsCorpus == pc = "done" => saved = CorpusSave(corpus)

SavedInv == CorpusInv /\ SavedIsCorpus

(* Before the campaign is over no seed is saved. *)
LEMMA SavedInvInit == Init => SavedInv
<1>1. Init => SavedIsCorpus
  BY DEF Init, SavedIsCorpus
<1> QED
  BY <1>1, CorpusInvInit DEF SavedInv

(* Seeds are saved once, when the corpus does not change any more. *)
LEMMA SavedInvStep == SavedInv /\ [Next]_vars => SavedInv'
<1> SUFFICES ASSUME SavedInv, [Next]_vars PROVE SavedIsCorpus'
  BY CorpusInvStep DEF SavedInv
<1> USE DEF SavedIsCorpus, execVars, stateVars, loopVars, Attending
<1>0. CorpusInv /\ SavedIsCorpus
  BY DEF SavedInv
<1>1. CASE Expire \/ UNCHANGED vars
  BY <1>0, <1>1 DEF Expire, vars, CorpusSave
<1>2. CASE SaveResults
  BY <1>2 DEF SaveResults, CorpusSave
<1>3. CASE LoopHead \/ NewProgram \/ Answer \/ Admit \/ Record \/ RecordThrows
  BY <1>3 DEF LoopHead, NewProgram, Answer, ReturnFeedback, Admit, Record,
              RecordThrows
<1>4. CASE \E wstatus \in BuildStatus : Build(wstatus)
  BY <1>4 DEF Build
<1>5. CASE \E i \in DOMAIN corpus : MutateSeed(i)
  BY <1>5 DEF MutateSeed
<1>6. CASE Execute
  <2>1. ASSUME Child PROVE pc' = pc /\ pc = "wait"
    BY <1>0, <2>1
       DEF CorpusInv, RefInv, FuzzInv, ChildOnlyWhileWaiting, Child,
           childUnchanged, ChildExec, ChildExecFails, Clock, PrintOut,
           PrintErr, ChildExit
  <2>2. pc' # "done"
    BY <1>6, <2>1
       DEF Execute, StartRun, RunForkFails, WaitPid, DrainOut, DrainErr
  <2> QED
    BY <2>2
<1> QED
  BY <1>1, <1>2, <1>3, <1>4, <1>5, <1>6 DEF Next, FuzzOne, Terminating

(* Two seeds with different cycles get different file names (Seed::save). *)
LEMMA NamesDiffer ==
  ASSUME NEW s \in Seeds, NEW t \in Seeds, SeedFileName(s) = SeedFileName(t)
  PROVE  s.cycle = t.cycle
  BY DEF SeedFileName

(* The names of the files differ, as the cycles in them do. *)
LEMMA SavedInvGivesFiles == SavedInv => EverySeedSaved
<1> SUFFICES ASSUME SavedInv, pc = "done"
             PROVE  Cardinality(saved) = Len(corpus)
  BY DEF EverySeedSaved
<1> DEFINE names == [i \in 1 .. Len(corpus) |-> SeedFileName(corpus[i])]
<1>1. /\ DOMAIN corpus = 1 .. Len(corpus) /\ Len(corpus) \in Nat
      /\ \A i \in DOMAIN corpus : corpus[i] \in Seeds /\ corpus[i].cycle \in Nat
  BY CorpusFacts DEF SavedInv, CorpusInv
<1>2. saved = {SeedFileName(corpus[i]) : i \in 1 .. Len(corpus)}
  BY <1>1 DEF SavedInv, SavedIsCorpus, CorpusSave
<1>3. \A i, j \in 1 .. Len(corpus) : names[i] = names[j] => i = j
  <2> SUFFICES ASSUME NEW i \in 1 .. Len(corpus), NEW j \in 1 .. Len(corpus),
                      names[i] = names[j]
               PROVE  i = j
    OBVIOUS
  <2>1. corpus[i].cycle = corpus[j].cycle
    BY <1>1, NamesDiffer
  <2>2. ~(i < j) /\ ~(j < i)
    BY <1>1, <2>1 DEF SavedInv, CorpusInv, CyclesIncrease
  <2> QED
    BY <2>2
<1>4. names \in [1 .. Len(corpus) -> saved]
      /\ \A n \in saved : \E i \in 1 .. Len(corpus) : names[i] = n
  BY <1>2
<1>5. names \in Surjection(1 .. Len(corpus), saved)
      /\ names \in Injection(1 .. Len(corpus), saved)
  BY <1>3, <1>4 DEF Surjection, Injection, IsInjective
<1>6. IsFiniteSet(1 .. Len(corpus)) /\ Cardinality(1 .. Len(corpus)) = Len(corpus)
  BY <1>1, FS_Interval
<1> QED
  BY <1>5, <1>6, FS_Surjection

(* At the end no file of a seed has overwritten that of another one: there are
   as many as seeds (Corpus::save, Seed::save). *)
THEOREM EverySeedAlwaysSaved == Spec => []EverySeedSaved
  BY SavedInvInit, SavedInvStep, SavedInvGivesFiles, PTL DEF Spec

----------------------------------------------------------------------------
(* The sum over the assertion lines, and the table of sums behind it.      *)

SumOf(f) == FoldFunction(+, 0, f)

(* The sum is the entry of its table for all lines. *)
LEMMA FoldIsSum ==
  ASSUME NEW f
  PROVE  SumOf(f) = SumTable(f, DOMAIN f)[DOMAIN f]
  BY DEF SumOf, FoldFunction, FoldFunctionOnSet, MapThenFoldSet, SumTable, IsSum, PickOf

----------------------------------------------------------------------------
(* The statistics.                                                         *)

(* While the process runs the number of booked cycles is the loop's counter,
   or one less if a cycle is under way, whose input is in the input file. *)
BookedCycles ==
  /\ pc = "loop" => stats.current_cycle = fuzz_cycle
  /\ pc \in Begun \cup {"admit", "record"} =>
       stats.current_cycle + 1 = fuzz_cycle
  /\ pc \in Chosen \cup {"record"} => inputFile = fuzz_cycle

(* Every crash has a file of its own, with the input of its cycle; the copy
   that fails leaves one crash without. *)
CrashesBooked ==
  /\ IsFiniteSet(crashes)
  /\ \/ stats.total_crashes = Cardinality(crashes)
     \/ pc = "failed" /\ stats.total_crashes = Cardinality(crashes) + 1
  /\ \A f \in crashes : f.content = f.cycle /\ f.cycle <= stats.current_cycle

(* The crashes per assertion line add up. *)
LinesAddUp == stats.total_crashes = SumOf(stats.crash_lines)

BooksInv == RefInv /\ BookedCycles /\ CrashesBooked /\ LinesAddUp

(* The counts of a table of lines add up to one more when one is raised. *)
LEMMA LinesRaised ==
  ASSUME NEW lines \in [CrashLines -> Nat]
  PROVE  /\ SumOf(lines) \in Nat
         /\ \A l \in CrashLines :
              SumOf(CountCrash(lines, l)) = SumOf(lines) + 1
<1>1. IsFiniteSet(CrashLines) /\ NoLine \in CrashLines
  BY CrashLinesAssumption, LinesAreFinite, FS_AddElement
<1>2. DOMAIN lines = CrashLines
  OBVIOUS
<1>3. ASSUME NEW l \in CrashLines
      PROVE  /\ SumOf(lines) \in Nat
             /\ SumOf(CountCrash(lines, l)) = SumOf(lines) + 1
  <2> DEFINE h == CountCrash(lines, l)
  <2>1. /\ DOMAIN h = CrashLines
        /\ \A x \in CrashLines : h[x] = lines[x] + (IF l = x THEN 1 ELSE 0)
    BY DEF CountCrash
  <2> HIDE DEF h
  <2>2. /\ SumOf(lines) = SumTable(lines, CrashLines)[CrashLines]
        /\ SumOf(h) = SumTable(h, CrashLines)[CrashLines]
    <3>1. SumOf(lines) = SumTable(lines, DOMAIN lines)[DOMAIN lines]
      BY FoldIsSum
    <3>2. SumOf(h) = SumTable(h, DOMAIN h)[DOMAIN h]
      BY FoldIsSum
    <3> QED
      BY <1>2, <2>1, <3>1, <3>2
  <2>3. /\ SumTable(lines, CrashLines)[CrashLines] \in Nat
        /\ SumTable(h, CrashLines)[CrashLines] =
             SumTable(lines, CrashLines)[CrashLines] + 1
    BY <1>1, <2>1, SumOfRaised
  <2> QED
    BY <2>2, <2>3 DEF h
<1> QED
  BY <1>1, <1>3

(* What State::update counts before it saves anything. *)
LEMMA CountedFacts ==
  ASSUME StateTypeOK, LinesAddUp, NEW crash \in Line \cup {NoLine, None}
  PROVE  /\ Counted(crash).current_cycle = stats.current_cycle + 1
         /\ Counted(crash).total_crashes =
              stats.total_crashes + (IF crash = None THEN 0 ELSE 1)
         /\ Counted(crash).total_crashes =
              SumOf(Counted(crash).crash_lines)
         /\ stats.current_cycle \in Nat /\ stats.total_crashes \in Nat
<1>1. /\ stats.crash_lines \in [CrashLines -> Nat]
      /\ stats.total_crashes = SumOf(stats.crash_lines)
      /\ stats.current_cycle \in Nat /\ stats.total_crashes \in Nat
  BY DEF StateTypeOK, LinesAddUp
<1>2. /\ Counted(crash).current_cycle = stats.current_cycle + 1
      /\ Counted(crash).total_crashes =
           stats.total_crashes + (IF crash = None THEN 0 ELSE 1)
      /\ Counted(crash).crash_lines =
           IF crash = None THEN stats.crash_lines
           ELSE CountCrash(stats.crash_lines, crash)
  BY DEF Counted, StateTypeOK
<1>3. CASE crash = None
  BY <1>1, <1>2, <1>3
<1>4. CASE crash # None
  <2>1. crash \in CrashLines
    BY <1>4, CrashLinesAssumption
  <2>2. SumOf(CountCrash(stats.crash_lines, crash)) =
          stats.total_crashes + 1
    BY <1>1, <2>1, LinesRaised
  <2> QED
    BY <1>1, <1>2, <1>4, <2>2
<1> QED
  BY <1>3, <1>4

(* Nothing is booked at first. *)
LEMMA BooksInvInit == Init => BooksInv
<1> SUFFICES ASSUME Init PROVE BooksInv
  OBVIOUS
<1>1. /\ stats.current_cycle = 0 /\ stats.total_crashes = 0
      /\ stats.crash_lines = [l \in CrashLines |-> 0] /\ crashes = {}
      /\ pc = "loop" /\ fuzz_cycle = 0
  BY DEF Init, StateInit
<1>2. BookedCycles
  BY <1>1 DEF BookedCycles, Begun, Chosen, Attending
<1>3. CrashesBooked
  BY <1>1, FS_EmptySet DEF CrashesBooked
<1>4. LinesAddUp
  <2> DEFINE zeros == [l \in CrashLines |-> 0]
  <2>1. IsFiniteSet(CrashLines) /\ DOMAIN zeros = CrashLines
    BY CrashLinesAssumption, LinesAreFinite, FS_AddElement
  <2>2. SumTable(zeros, CrashLines)[CrashLines] = 0
    BY <2>1, SumOfZeros
  <2> HIDE DEF zeros
  <2>3. SumOf(zeros) = SumTable(zeros, DOMAIN zeros)[DOMAIN zeros]
    BY FoldIsSum
  <2> QED
    BY <1>1, <2>1, <2>2, <2>3 DEF LinesAddUp, zeros
<1> QED
  BY <1>2, <1>3, <1>4, RefInvInit DEF BooksInv

(* The steps that do not book a cycle leave the books alone. *)
LEMMA UnbookedSteps ==
  ASSUME BooksInv,
         \/ Expire \/ LoopHead \/ NewProgram \/ Execute \/ Answer \/ Admit
         \/ SaveResults \/ UNCHANGED vars
         \/ \E i \in DOMAIN corpus : MutateSeed(i)
         \/ \E wstatus \in BuildStatus : Build(wstatus)
  PROVE  /\ UNCHANGED <<stats, crashes>>
         /\ pc' # "failed" => pc # "failed"
         /\ BookedCycles'
<1> USE DEF execVars, stateVars, loopVars, inputUnchanged, BookedCycles, Begun,
            Chosen, Attending
<1>0. RefInv /\ BookedCycles /\ fuzz_cycle \in Nat /\ stats.current_cycle \in Nat
  BY DEF BooksInv, RefInv, FuzzInv, TypeOK, StateTypeOK
<1>1. CASE Expire \/ UNCHANGED vars
  BY <1>0, <1>1 DEF Expire, vars
<1>2. CASE LoopHead
  BY <1>0, <1>2 DEF LoopHead
<1>3. CASE NewProgram \/ \E i \in DOMAIN corpus : MutateSeed(i)
  BY <1>0, <1>3 DEF NewProgram, MutateSeed
<1>4. CASE \E wstatus \in BuildStatus : Build(wstatus)
  BY <1>0, <1>4 DEF Build
<1>5. CASE Execute
  <2>1. UNCHANGED <<stats, crashes, fuzz_cycle, inputFile>>
    BY <1>5 DEF Execute
  <2>2. ASSUME Child PROVE pc' = pc /\ pc = "wait"
    BY <1>0, <2>2
       DEF RefInv, FuzzInv, ChildOnlyWhileWaiting, Child, childUnchanged,
           ChildExec, ChildExecFails, Clock, PrintOut, PrintErr, ChildExit
  <2>3. \/ pc' = "failed" /\ pc # "failed"
        \/ pc \in {"execute"} \cup Attending /\ pc' \in Attending
    BY <1>5, <2>2
       DEF Execute, StartRun, RunForkFails, WaitPid, DrainOut, DrainErr
  <2> QED
    BY <1>0, <2>1, <2>3
<1>6. CASE Answer
  BY <1>0, <1>6 DEF Answer, ReturnFeedback
<1>7. CASE Admit
  BY <1>0, <1>7 DEF Admit
<1>8. CASE SaveResults
  BY <1>0, <1>8 DEF SaveResults
<1> QED
  BY <1>1, <1>2, <1>3, <1>4, <1>5, <1>6, <1>7, <1>8

(* Only a record changes the books. *)
LEMMA BooksInvStep == BooksInv /\ [Next]_vars => BooksInv'
<1> SUFFICES ASSUME BooksInv, [Next]_vars
             PROVE  BookedCycles' /\ CrashesBooked' /\ LinesAddUp'
  BY RefInvStep DEF BooksInv
<1>0. /\ StateTypeOK /\ fuzz_cycle \in Nat /\ BookedCycles /\ CrashesBooked
      /\ LinesAddUp /\ GetCrashLine \in Line \cup {NoLine, None}
  BY LastCrashLine DEF BooksInv, RefInv, FuzzInv, TypeOK
<1>1. CASE \/ Expire \/ LoopHead \/ NewProgram \/ Execute \/ Answer \/ Admit
           \/ SaveResults \/ UNCHANGED vars
           \/ \E i \in DOMAIN corpus : MutateSeed(i)
           \/ \E wstatus \in BuildStatus : Build(wstatus)
  <2>1. /\ UNCHANGED <<stats, crashes>>
        /\ pc' # "failed" => pc # "failed"
        /\ BookedCycles'
    BY <1>1, UnbookedSteps
  <2>2. CrashesBooked' /\ LinesAddUp'
    BY <1>0, <2>1 DEF CrashesBooked, LinesAddUp
  <2> QED
    BY <2>1, <2>2
<1>2. CASE Record
  <2> DEFINE crash == GetCrashLine
             file  == SavedInput(stats.current_cycle + 1, seedId, inputFile)
  <2>1. /\ pc = "record" /\ pc' = "loop" /\ UNCHANGED <<fuzz_cycle, inputFile>>
        /\ stats' = [Counted(crash) EXCEPT !.best = feedback.best,
                                           !.count = feedback.count]
        /\ crashes' = IF crash = None THEN crashes ELSE crashes \cup {file}
    BY <1>2 DEF Record, StateUpdate, loopVars
  <2>2. /\ stats.current_cycle + 1 = fuzz_cycle /\ inputFile = fuzz_cycle
    BY <1>0, <2>1 DEF BookedCycles
  <2>3. /\ file.cycle = stats.current_cycle + 1
        /\ file.content = stats.current_cycle + 1
    BY <2>2 DEF SavedInput
  <2> HIDE DEF file, crash
  <2>4. crash \in Line \cup {NoLine, None}
    BY <1>0 DEF crash
  <2>5. /\ stats'.current_cycle = stats.current_cycle + 1
        /\ stats'.total_crashes =
             stats.total_crashes + (IF crash = None THEN 0 ELSE 1)
        /\ LinesAddUp'
    <3>1. Counted(crash) \in [current_cycle : Nat, total_crashes : Nat,
                              crash_lines : [CrashLines -> Nat],
                              best : Nat, count : Nat]
      BY <1>0, <2>4, CountedTypes
    <3>2. /\ stats'.current_cycle = Counted(crash).current_cycle
          /\ stats'.total_crashes = Counted(crash).total_crashes
          /\ stats'.crash_lines = Counted(crash).crash_lines
      BY <2>1, <3>1
    <3> QED
      BY <1>0, <2>4, <3>2, CountedFacts DEF LinesAddUp
  <2>6. stats.current_cycle \in Nat /\ stats.total_crashes \in Nat
    BY <1>0 DEF StateTypeOK
  <2>7. BookedCycles'
    BY <2>1, <2>2, <2>5 DEF BookedCycles, Begun, Chosen, Attending
  <2>8. CrashesBooked'
    <3>1. /\ IsFiniteSet(crashes)
          /\ stats.total_crashes = Cardinality(crashes)
          /\ \A f \in crashes : /\ f.content = f.cycle
                                /\ f.cycle <= stats.current_cycle
                                /\ f.cycle \in Nat
      BY <1>0, <2>1 DEF CrashesBooked, StateTypeOK
    <3>2. CASE crash = None
      BY <2>1, <2>5, <2>6, <3>1, <3>2 DEF CrashesBooked
    <3>3. CASE crash # None
      <4>1. crashes' = crashes \cup {file}
        BY <2>1, <3>3
      <4>2. file \notin crashes
        BY <2>3, <2>6, <3>1
      <4>3. IsFiniteSet(crashes') /\ Cardinality(crashes') = Cardinality(crashes) + 1
        BY <3>1, <4>1, <4>2, FS_AddElement
      <4>4. \A f \in crashes' : f.content = f.cycle /\ f.cycle <= stats'.current_cycle
        BY <2>3, <2>5, <2>6, <3>1, <4>1
      <4> QED
        BY <2>5, <3>1, <3>3, <4>3, <4>4 DEF CrashesBooked
    <3> QED
      BY <3>2, <3>3
  <2> QED
    BY <2>5, <2>7, <2>8
<1>3. CASE RecordThrows
  <2>1. /\ pc = "record" /\ pc' = "failed"
        /\ stats' = Counted(GetCrashLine) /\ crashes' = crashes
    BY <1>3 DEF RecordThrows, StateUpdateThrows
  <2>2. BookedCycles'
    BY <2>1 DEF BookedCycles, Begun, Chosen, Attending
  <2>3. /\ LinesAddUp' /\ stats'.current_cycle = stats.current_cycle + 1
        /\ stats.current_cycle \in Nat /\ stats.total_crashes \in Nat
        /\ stats'.total_crashes \in {stats.total_crashes, stats.total_crashes + 1}
    BY <1>0, <2>1, CountedFacts DEF LinesAddUp
  <2>4. CrashesBooked'
    <3>1. \A f \in crashes : /\ f.content = f.cycle
                             /\ f.cycle <= stats.current_cycle
                             /\ f.cycle \in Nat
      BY <1>0 DEF CrashesBooked, StateTypeOK
    <3>2. \A f \in crashes : f.content = f.cycle /\ f.cycle <= stats'.current_cycle
      BY <2>3, <3>1
    <3>3. stats.total_crashes = Cardinality(crashes) /\ IsFiniteSet(crashes)
      BY <1>0, <2>1 DEF CrashesBooked
    <3>4. \/ stats'.total_crashes = Cardinality(crashes')
          \/ pc' = "failed" /\ stats'.total_crashes = Cardinality(crashes') + 1
      BY <2>1, <2>3, <3>3
    <3> QED
      BY <2>1, <3>2, <3>3, <3>4 DEF CrashesBooked
  <2> QED
    BY <2>2, <2>3, <2>4
<1> QED
  BY <1>1, <1>2, <1>3 DEF Next, FuzzOne, Terminating

(* At any time the number of crashes is what the counts per assertion line add
   up to and how many files of crashing inputs there are, each with the input
   of the cycle it is named after; between two cycles the cycles booked are
   those that ran.  Only the copy that throws leaves one crash without its
   file, and with it the campaign is over (State::update, save_input,
   fuzz_loop). *)
THEOREM LedgerAlwaysConsistent == Spec => []LedgerIsConsistent
<1>1. BooksInv => LedgerIsConsistent
  <2> SUFFICES ASSUME BooksInv PROVE LedgerIsConsistent
    OBVIOUS
  <2>1. /\ stats.total_crashes = FoldFunction(+, 0, stats.crash_lines)
        /\ \A f \in crashes : /\ f.content = f.cycle
                              /\ f.cycle <= stats.current_cycle
    BY DEF BooksInv, CrashesBooked, LinesAddUp, SumOf
  <2>2. pc = "loop" => stats.current_cycle = fuzz_cycle /\ Len(hist) = fuzz_cycle
    BY DEF BooksInv, RefInv, CyclesFollowRuns, BookedCycles
  <2>3. stats.total_crashes - Cardinality(crashes)
          \in 0 .. (IF pc = "failed" THEN 1 ELSE 0)
    <3>1. /\ Cardinality(crashes) \in Nat
          /\ \/ stats.total_crashes = Cardinality(crashes)
             \/ pc = "failed" /\ stats.total_crashes = Cardinality(crashes) + 1
      BY FS_CardinalityType DEF BooksInv, CrashesBooked
    <3> QED
      BY <3>1
  <2> QED
    BY <2>1, <2>2, <2>3 DEF LedgerIsConsistent
<1> QED
  BY <1>1, BooksInvInit, BooksInvStep, PTL DEF Spec

----------------------------------------------------------------------------
(* Every cycle and every campaign comes to its end.                        *)

(* How many phases of a cycle are ahead. *)
Ahead(p) ==
  CASE p = "input"    -> 11
    [] p = "build"    -> 10
    [] p = "execute"  -> 9
    [] p = "wait"     -> 8
    [] p = "drainOut" -> 7
    [] p = "drainErr" -> 6
    [] p = "feedback" -> 5
    [] p = "admit"    -> 4
    [] p = "record"   -> 3
    [] p = "loop"     -> 2
    [] p = "save"     -> 1
    [] OTHER          -> 0

(* What the simulator may still do. *)
SimulatorLeft ==
  IF child.st \notin {"forked", "running"} THEN 0
  ELSE (IF child.st = "forked" THEN 2 ELSE 1)
       + (MaxClocks - run.clocks) + (MaxOut - Len(run.out)) + (MaxErr - run.err)

(* What is left to do within a phase: run the simulator, empty a pipe. *)
LeftInPhase ==
  CASE pc = "wait"     -> SimulatorLeft
    [] pc = "drainOut" -> Len(pipe.out)
    [] pc = "drainErr" -> pipe.err
    [] OTHER           -> 0

(* A simulator keeps to what it may do. *)
RunIsBounded ==
  child.st \in {"forked", "running"} =>
    run.clocks <= MaxClocks /\ Len(run.out) <= MaxOut /\ run.err <= MaxErr

(* The time is up only where there is a timeout. *)
OnlyTimeoutExpires == expired => TimeoutEnabled

EndInv == FuzzInv /\ RunIsBounded /\ OnlyTimeoutExpires

(* A cycle begins: neither limit has been reached. *)
CycleBegins ==
  /\ pc = "loop" /\ pc' = "input"
  /\ ~expired
  /\ fuzz_cycle' = fuzz_cycle + 1
  /\ TotalCycles # 0 => fuzz_cycle' <= TotalCycles

(* A step begins a cycle, or lets the time pass, or brings the process closer
   to the end of the cycle: to a later phase, or closer to the end of this
   one. *)
Descends ==
  \/ CycleBegins
  \/ pc' = pc /\ ~expired /\ expired'
  \/ Ahead(pc') < Ahead(pc)
  \/ pc' = pc /\ LeftInPhase \in Nat /\ LeftInPhase' \in Nat /\ LeftInPhase' < LeftInPhase

(* What a cycle has used up stays used up. *)
NothingTurnsBack ==
  /\ Descends
  /\ fuzz_cycle' \in {fuzz_cycle, fuzz_cycle + 1}
  /\ expired => expired'

(* What the steps of the simulator do to what it may still do. *)
LEMMA SimulatorDescends ==
  ASSUME EndInv, Child
  PROVE  /\ pc = "wait" /\ pc' = pc /\ RunIsBounded'
         /\ LeftInPhase \in Nat /\ LeftInPhase' \in Nat /\ LeftInPhase' < LeftInPhase
<1> DEFINE n == run.clocks
           o == Len(run.out)
           e == run.err
<1>0. /\ child \in [st : ChildStates, status : Nat] /\ run \in RunType /\ pipe \in Streams
      /\ ChildOnlyWhileWaiting /\ RunIsBounded
  BY DEF EndInv, FuzzInv, TypeOK, ExecTypeOK, RunType
<1>1. /\ MaxClocks \in Nat /\ MaxOut \in Nat /\ MaxErr \in Nat
      /\ n \in Nat /\ o \in Nat /\ e \in Nat /\ run.out \in Seq(Chunk)
  BY <1>0, OutputAssumption DEF RunType
<1>2. /\ pc = "wait" /\ pc' = pc /\ child.st \in {"forked", "running"}
  BY <1>0 DEF Child, ChildExec, ChildExecFails, Clock, PrintOut, PrintErr, ChildExit,
              ChildOnlyWhileWaiting, childUnchanged
<1>3. n <= MaxClocks /\ o <= MaxOut /\ e <= MaxErr
  BY <1>0, <1>2 DEF RunIsBounded
<1>4. LeftInPhase = (IF child.st = "forked" THEN 2 ELSE 1)
                    + (MaxClocks - n) + (MaxOut - o) + (MaxErr - e)
  BY <1>2 DEF LeftInPhase, SimulatorLeft
<1>5. LeftInPhase' = SimulatorLeft'
  BY <1>2 DEF LeftInPhase
<1>6. CASE child'.st \notin {"forked", "running"}
  <2>1. LeftInPhase' = 0 /\ RunIsBounded'
    BY <1>5, <1>6 DEF SimulatorLeft, RunIsBounded
  <2> HIDE DEF n, o, e
  <2> QED
    BY <1>1, <1>2, <1>3, <1>4, <2>1
<1>7. CASE /\ child.st = "forked" /\ child'.st = "running" /\ run' = run
  <2>1. LeftInPhase' = 1 + (MaxClocks - n) + (MaxOut - o) + (MaxErr - e)
    BY <1>5, <1>7 DEF SimulatorLeft
  <2>2. RunIsBounded'
    BY <1>3, <1>7 DEF RunIsBounded
  <2>3. LeftInPhase = 2 + (MaxClocks - n) + (MaxOut - o) + (MaxErr - e)
    BY <1>4, <1>7
  <2> HIDE DEF n, o, e
  <2> QED
    BY <1>1, <1>2, <1>3, <2>1, <2>2, <2>3
<1>8. CASE /\ child.st = "running" /\ child'.st = "running"
           /\ \/ run'.clocks = n + 1 /\ Len(run'.out) = o /\ run'.err = e /\ n < MaxClocks
              \/ run'.clocks = n /\ Len(run'.out) = o + 1 /\ run'.err = e /\ o < MaxOut
              \/ run'.clocks = n /\ Len(run'.out) = o /\ run'.err = e + 1 /\ e < MaxErr
  <2> DEFINE n2 == run'.clocks
             o2 == Len(run'.out)
             e2 == run'.err
  <2>1. LeftInPhase' = 1 + (MaxClocks - n2) + (MaxOut - o2) + (MaxErr - e2)
    BY <1>5, <1>8 DEF SimulatorLeft
  <2>2. \/ n2 = n + 1 /\ o2 = o /\ e2 = e /\ n < MaxClocks
        \/ n2 = n /\ o2 = o + 1 /\ e2 = e /\ o < MaxOut
        \/ n2 = n /\ o2 = o /\ e2 = e + 1 /\ e < MaxErr
    BY <1>8
  <2>3. LeftInPhase = 1 + (MaxClocks - n) + (MaxOut - o) + (MaxErr - e)
    BY <1>4, <1>8
  <2>4. RunIsBounded' <=> (n2 <= MaxClocks /\ o2 <= MaxOut /\ e2 <= MaxErr)
    BY <1>8 DEF RunIsBounded
  <2> HIDE DEF n, o, e, n2, o2, e2
  <2>5. n2 <= MaxClocks /\ o2 <= MaxOut /\ e2 <= MaxErr /\ n2 \in Nat /\ o2 \in Nat /\ e2 \in Nat
    BY <1>1, <1>3, <2>2
  <2>6. LeftInPhase' = LeftInPhase - 1
    BY <1>1, <2>1, <2>2, <2>3
  <2>7. LeftInPhase \in Nat /\ LeftInPhase' \in Nat /\ LeftInPhase' < LeftInPhase
    <3>1. LeftInPhase' \in Nat
      BY <1>1, <2>1, <2>5
    <3>2. LeftInPhase \in Nat
      BY <1>1, <1>3, <2>3
    <3> QED
      BY <2>6, <3>1, <3>2
  <2> QED
    BY <1>2, <2>4, <2>5, <2>7
<1>9. CASE ChildExec
  BY <1>0, <1>7, <1>9 DEF ChildExec
<1>10. CASE ChildExecFails
  BY <1>6, <1>10 DEF ChildExecFails
<1>11. ASSUME NEW status \in EndStatus, ChildExit(status) PROVE child'.st = "zombie"
  BY <1>11 DEF ChildExit
<1>12. ASSUME NEW p \in Point, NEW b \in Bin, Clock(p, b)
       PROVE  /\ child.st = "running" /\ child' = child /\ n < MaxClocks
              /\ run'.clocks = n + 1 /\ run'.out = run.out /\ run'.err = e
  BY <1>0, <1>12 DEF Clock, RunType
<1>13. ASSUME NEW c \in Chunk, PrintOut(c)
       PROVE  \/ child'.st = "blocked"
              \/ /\ child.st = "running" /\ child' = child /\ o < MaxOut
                 /\ run'.clocks = n /\ Len(run'.out) = o + 1 /\ run'.err = e
  <2>1. CASE Len(pipe.out) < PipeCapacity
    <3>1. /\ child.st = "running" /\ child' = child /\ o < MaxOut
          /\ run' = [run EXCEPT !.out = Append(@, c)]
      BY <1>13, <2>1 DEF PrintOut
    <3>2. run'.clocks = n /\ run'.out = Append(run.out, c) /\ run'.err = e
      BY <1>0, <3>1 DEF RunType
    <3>3. Len(Append(run.out, c)) = o + 1
      BY <1>1
    <3> QED
      BY <3>1, <3>2, <3>3
  <2>2. CASE ~(Len(pipe.out) < PipeCapacity)
    BY <1>0, <1>13, <2>2 DEF PrintOut
  <2> QED
    BY <2>1, <2>2
<1>14. CASE PrintErr
  <2>1. CASE pipe.err < PipeCapacity
    BY <1>0, <1>8, <1>14, <2>1 DEF PrintErr, RunType
  <2>2. CASE ~(pipe.err < PipeCapacity)
    BY <1>0, <1>6, <1>14, <2>2 DEF PrintErr
  <2> QED
    BY <2>1, <2>2
<1>15. ASSUME NEW status \in EndStatus, ChildExit(status)
       PROVE  child'.st \notin {"forked", "running"}
  BY <1>11, <1>15
<1>16. CASE \E p \in Point, b \in Bin : Clock(p, b)
  BY <1>8, <1>12, <1>16
<1>17. CASE \E c \in Chunk : PrintOut(c)
  BY <1>6, <1>8, <1>13, <1>17
<1>18. CASE \E status \in EndStatus : ChildExit(status)
  BY <1>6, <1>15, <1>18
<1> QED
  BY <1>9, <1>10, <1>14, <1>16, <1>17, <1>18 DEF Child

(* The fuzzer process goes on to a later phase, but from one cycle to the
   next. *)
LEMMA PhasesDescend ==
  ASSUME OnlyTimeoutExpires, fuzz_cycle \in Nat,
         \/ LoopHead \/ NewProgram \/ Answer \/ Admit \/ Record \/ RecordThrows
         \/ SaveResults \/ StartRun \/ RunForkFails \/ WaitPid
         \/ \E i \in DOMAIN corpus : MutateSeed(i)
         \/ \E wstatus \in BuildStatus : Build(wstatus)
  PROVE  Descends
<1> USE DEF Ahead
<1>1. CASE LoopHead
  <2>1. pc = "loop" /\ pc' \in {"save", "input"}
    BY <1>1 DEF LoopHead
  <2>2. CASE pc' = "input"
    <3>1. ~StopRequested(fuzz_cycle + 1) /\ fuzz_cycle' = fuzz_cycle + 1
      BY <1>1, <2>2 DEF LoopHead
    <3>2. TotalCycles # 0 => fuzz_cycle + 1 <= TotalCycles
      BY <3>1, TotalCyclesAssumption DEF StopRequested
    <3>3. ~expired
      BY <3>1 DEF StopRequested, OnlyTimeoutExpires
    <3> QED
      BY <2>1, <2>2, <3>1, <3>2, <3>3 DEF Descends, CycleBegins
  <2>3. CASE pc' = "save"
    BY <2>1, <2>3 DEF Descends
  <2> QED
    BY <2>1, <2>2, <2>3
<1>2. CASE \/ NewProgram \/ Answer \/ Admit \/ Record \/ RecordThrows \/ SaveResults
  BY <1>2 DEF NewProgram, Answer, ReturnFeedback, Admit, Record, RecordThrows, SaveResults,
              Descends
<1>3. CASE StartRun \/ RunForkFails \/ WaitPid
  BY <1>3 DEF StartRun, RunForkFails, WaitPid, Descends
<1>4. CASE \E i \in DOMAIN corpus : MutateSeed(i)
  BY <1>4 DEF MutateSeed, Descends
<1>5. CASE \E wstatus \in BuildStatus : Build(wstatus)
  BY <1>5 DEF Build, Descends
<1> QED
  BY <1>1, <1>2, <1>3, <1>4, <1>5

(* Reading a pipe empties it. *)
LEMMA DrainsDescend ==
  ASSUME EndInv, DrainOut \/ DrainErr
  PROVE  Descends
<1>0. pipe.out \in Seq(Chunk) /\ pipe.err \in Nat /\ pipe \in Streams
  BY DEF EndInv, FuzzInv, TypeOK, ExecTypeOK, Streams
<1>1. CASE DrainOut
  <2>1. CASE pipe.out # <<>> /\ pipe' = [pipe EXCEPT !.out = Tail(@)] /\ UNCHANGED pc
    <3>1. pipe'.out = Tail(pipe.out) /\ pc = "drainOut" /\ pc' = pc
      BY <1>0, <1>1, <2>1 DEF DrainOut, Streams
    <3>2. /\ Len(pipe.out) \in Nat /\ Len(Tail(pipe.out)) \in Nat
          /\ Len(Tail(pipe.out)) < Len(pipe.out)
      BY <1>0, <2>1
    <3>3. LeftInPhase = Len(pipe.out) /\ LeftInPhase' = Len(Tail(pipe.out))
      BY <3>1 DEF LeftInPhase
    <3> QED
      BY <3>1, <3>2, <3>3 DEF Descends
  <2>2. CASE pc' = "drainErr"
    BY <1>1, <2>2 DEF DrainOut, Descends, Ahead
  <2> QED
    BY <1>1, <2>1, <2>2 DEF DrainOut
<1>2. CASE DrainErr
  <2>1. CASE pipe.err > 0 /\ pipe' = [pipe EXCEPT !.err = @ - 1] /\ UNCHANGED pc
    <3>1. pipe'.err = pipe.err - 1 /\ pc = "drainErr" /\ pc' = pc
      BY <1>0, <1>2, <2>1 DEF DrainErr, Streams
    <3>2. LeftInPhase = pipe.err /\ LeftInPhase' = pipe.err - 1
      BY <3>1 DEF LeftInPhase
    <3> QED
      BY <1>0, <2>1, <3>1, <3>2 DEF Descends
  <2>2. CASE pc' = "feedback"
    BY <1>2, <2>2 DEF DrainErr, Descends, Ahead
  <2> QED
    BY <1>2, <2>1, <2>2 DEF DrainErr
<1> QED
  BY <1>1, <1>2

(* The two counters of a campaign: its cycles and its time. *)
LEMMA CountersRise ==
  ASSUME [Next]_vars
  PROVE  /\ fuzz_cycle' \in {fuzz_cycle, fuzz_cycle + 1}
         /\ expired => expired'
         /\ Expire \/ expired' = expired
<1>1. Expire \/ expired' = expired
  BY DEF Next, FuzzOne, LoopHead, MutateSeed, NewProgram, Build, Execute, Answer, Admit,
         Record, RecordThrows, SaveResults, Terminating, vars, loopVars, inputUnchanged
<1>2. LoopHead \/ fuzz_cycle' = fuzz_cycle
  BY DEF Next, FuzzOne, Expire, MutateSeed, NewProgram, Build, Execute, Answer, Admit,
         Record, RecordThrows, SaveResults, Terminating, vars, loopVars, inputUnchanged
<1> QED
  BY <1>1, <1>2 DEF Expire, LoopHead

(* Every step of fuzzer and simulator. *)
LEMMA StepDescends == EndInv /\ [Next]_vars => [NothingTurnsBack]_vars
<1> SUFFICES ASSUME EndInv, Next, ~UNCHANGED vars PROVE Descends
  BY CountersRise DEF NothingTurnsBack
<1>1. CASE Expire
  BY <1>1 DEF Expire, Descends, execVars
<1>2. CASE Execute
  <2>1. CASE Child
    BY <2>1, SimulatorDescends DEF Descends
  <2> QED
    BY <1>2, <2>1, PhasesDescend, DrainsDescend DEF Execute, EndInv, FuzzInv, TypeOK
<1>3. CASE Terminating
  BY <1>3 DEF Terminating
<1> QED
  BY <1>1, <1>2, <1>3, PhasesDescend DEF Next, FuzzOne, EndInv, FuzzInv, TypeOK

(* Before the first run, and after every step, a simulator keeps to what it
   may do. *)
LEMMA EndInvInit == Init => EndInv
  BY InvInit DEF EndInv, Init, ExecInit, RunIsBounded, OnlyTimeoutExpires

(* The same for each step of fuzzer and simulator. *)
LEMMA EndInvStep == EndInv /\ [Next]_vars => EndInv'
<1> SUFFICES ASSUME EndInv, [Next]_vars PROVE RunIsBounded' /\ OnlyTimeoutExpires'
  BY InvStep DEF EndInv
<1>4. OnlyTimeoutExpires'
  BY CountersRise DEF EndInv, OnlyTimeoutExpires, Expire
<1> SUFFICES RunIsBounded'
  BY <1>4
<1>1. CASE UNCHANGED <<child, run>>
  BY <1>1 DEF EndInv, RunIsBounded
<1>2. CASE Execute
  <2>1. CASE StartRun \/ RunForkFails
    <3>1. run' = NoRun
      BY <2>1 DEF StartRun, RunForkFails
    <3>2. run'.clocks = 0 /\ Len(run'.out) = 0 /\ run'.err = 0
      BY <3>1 DEF NoRun
    <3> QED
      BY <3>2, OutputAssumption DEF RunIsBounded
  <2>2. CASE Child
    BY <2>2, SimulatorDescends
  <2>3. CASE WaitPid
    <3>1. child \in [st : ChildStates, status : Nat]
      BY DEF EndInv, FuzzInv, TypeOK, ExecTypeOK
    <3> QED
      BY <2>3, <3>1 DEF WaitPid, RunIsBounded
  <2>4. CASE DrainOut \/ DrainErr
    BY <1>1, <2>4 DEF DrainOut, DrainErr
  <2> QED
    BY <1>2, <2>1, <2>2, <2>3, <2>4 DEF Execute
<1>3. CASE Answer
  BY <1>1, <1>3 DEF Answer, ReturnFeedback
<1> QED
  BY <1>1, <1>2, <1>3, OutputUntouched DEF Next, FuzzOne, Terminating

(* No step of the campaign turns back: but for the beginning of a cycle, which
   an expired timeout and a limit on the cycles forbid, every step passes to a
   later phase or leaves less to do in its own (fuzz_loop, Executor::run,
   read_chunk).  A cycle, and the campaign once its time is up, therefore has
   finitely many steps; that the next one is taken is what fairness adds. *)
THEOREM NoStepTurnsBack == Spec => [][NothingTurnsBack]_vars
  BY EndInvInit, EndInvStep, StepDescends, PTL DEF Spec
=============================================================================
