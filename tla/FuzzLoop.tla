------------------------------ MODULE FuzzLoop ------------------------------
(***************************************************************************)
(* Fuzzer<SurgeFuzz>::fuzz_loop and fuzz_one (fuzzer/src/fuzzer.cpp): the  *)
(* campaign, composed of the executor with its simulator process, the      *)
(* corpus and the statistics.  One fuzz cycle goes through the phases      *)
(*   loop - input - build - execute - wait - drainOut - drainErr -         *)
(*   feedback - admit - record - loop                                      *)
(* and the process stops in "done" (results saved) or "failed" (std::exit  *)
(* or an uncaught exception: nothing more is saved).                       *)
(*                                                                         *)
(* A program is identified by the fuzz cycle that generated it.            *)
(***************************************************************************)
EXTENDS Executor, Corpus, State, Functions

CONSTANTS
  TotalCycles,     \* --fuzz_total_cycle, 0 = no limit
  TimeoutEnabled,  \* --timeout_sec is not 0
  MaxCycles        \* bound: fuzz cycles begun before the timeout expires

ASSUME TotalCyclesAssumption ==
  /\ TotalCycles \in Nat
  /\ TimeoutEnabled \in BOOLEAN
  /\ TotalCycles # 0 \/ TimeoutEnabled
ASSUME MaxCyclesAssumption == MaxCycles \in Nat
ASSUME CrashLinesAssumption == CrashLines = Line \cup {NoLine}

VARIABLES
  fuzz_cycle,  \* the loop's counter
  expired,     \* elapsed_ms > timeout_sec * 1000 from now on
  inputFile,   \* the program in the file path_to_input (0 = none)
  artifact,    \* the program the built image the simulator loads (0 = none)
  seedId,      \* seed_id of this cycle
  parent,      \* history: the corpus index the input was mutated from, or 0
  hist,        \* history: one record for each run that answered
  saved        \* the files corpus.save wrote

loopVars == <<fuzz_cycle, expired, inputFile, artifact, seedId, parent, hist,
              saved>>
vars == <<execVars, corpus, stateVars, loopVars>>

Phases == ExecPhases \cup
  {"loop", "input", "build", "admit", "record", "save", "done", "failed"}

Runs == [cov : SUBSET Point, surge : SUBSET Bin, parent : Nat]

TypeOK ==
  /\ pc \in Phases
  /\ ExecTypeOK
  /\ CorpusTypeOK
  /\ StateTypeOK
  /\ fuzz_cycle \in Nat
  /\ expired \in BOOLEAN
  /\ inputFile \in Nat
  /\ artifact \in Nat
  /\ seedId \in Nat \cup {None}
  /\ parent \in Nat
  /\ hist \in Seq(Runs)

Init ==
  /\ pc = "loop"
  /\ ExecInit
  /\ CorpusInit
  /\ StateInit
  /\ fuzz_cycle = 0
  /\ expired = FALSE
  /\ inputFile = 0
  /\ artifact = 0
  /\ seedId = None
  /\ parent = 0
  /\ hist = <<>>
  /\ saved = {}

----------------------------------------------------------------------------
(* Mutated forms, used only to show that the properties can fail.          *)

StopsOnlyByCount(cycle) == TotalCycles # 0 /\ cycle > TotalCycles

----------------------------------------------------------------------------
(* The clock passes start + timeout_sec. *)
Expire ==
  /\ TimeoutEnabled
  /\ ~expired
  /\ expired' = TRUE
  /\ UNCHANGED <<execVars, corpus, stateVars, fuzz_cycle, inputFile, artifact,
                 seedId, parent, hist, saved>>

(* The conditions of termination, tested only here, between two cycles. *)
StopRequested(cycle) ==
  \/ TotalCycles # 0 /\ cycle > TotalCycles
  \/ TimeoutEnabled /\ expired

LoopHead ==
  /\ pc = "loop"
  /\ fuzz_cycle < MaxCycles + (IF expired THEN 1 ELSE 0)
  /\ fuzz_cycle' = fuzz_cycle + 1
  /\ pc' = IF StopRequested(fuzz_cycle + 1) THEN "save" ELSE "input"
  /\ UNCHANGED <<child, writers, pipe, buf, shm, bitmap, feedback, run,
                 corpus, stateVars, expired, inputFile, artifact, seedId,
                 parent, hist, saved>>

inputUnchanged == <<child, writers, pipe, buf, shm, bitmap, feedback, run,
                    stateVars, fuzz_cycle, expired, artifact, hist, saved>>

(* The corpus holds all the initial seeds: mutate one of its programs. *)
MutateSeed(i) ==
  /\ pc = "input"
  /\ GetNextSeed(i)
  /\ seedId' = corpus[i].id
  /\ parent' = i
  /\ inputFile' = fuzz_cycle
  /\ pc' = "build"
  /\ UNCHANGED inputUnchanged

(* Otherwise: generate a new program. *)
NewProgram ==
  /\ pc = "input"
  /\ ~HasInitialSeeds
  /\ seedId' = None
  /\ parent' = 0
  /\ inputFile' = fuzz_cycle
  /\ pc' = "build"
  /\ UNCHANGED <<corpus, inputUnchanged>>

(* What a build that ended with this wait status leaves as the image: a build
   that was cut off leaves the previous one. *)
BuiltImage(wstatus) == IF wstatus = Exited(0) THEN inputFile ELSE artifact

(* execute_command(build_argv): a non-zero exit code ends the process. *)
Build(wstatus) ==
  /\ pc = "build"
  /\ artifact' = BuiltImage(wstatus)
  /\ pc' = IF WExitStatus(wstatus) # 0 THEN "failed" ELSE "execute"
  /\ UNCHANGED <<child, writers, pipe, buf, shm, bitmap, feedback, run,
                 corpus, stateVars, fuzz_cycle, expired, inputFile, seedId,
                 parent, hist, saved>>

(* The build command succeeds, fails, or is ended by a signal. *)
BuildStatus == {Exited(0), Exited(2), Killed(9)}

(* executor.run(); the run's answer is also put on record in hist. *)
Execute ==
  /\ StartRun \/ RunForkFails \/ Child \/ WaitPid \/ DrainOut \/ DrainErr
  /\ UNCHANGED <<corpus, stateVars, loopVars>>

Answer ==
  /\ ReturnFeedback
  /\ hist' = Append(hist, [cov |-> run.cov, surge |-> run.surge,
                           parent |-> parent])
  /\ UNCHANGED <<corpus, stateVars, fuzz_cycle, expired, inputFile, artifact,
                 seedId, parent, saved>>

(* An input is added to the corpus for new coverage or as an initial seed. *)
Keeps(fb, seed) == fb.fresh \/ seed = None

Admit ==
  /\ pc = "admit"
  /\ IF Keeps(feedback, seedId)
     THEN AddNewInput(fuzz_cycle, feedback.energy, feedback.score, seedId)
     ELSE UNCHANGED corpus
  /\ pc' = "record"
  /\ UNCHANGED <<child, writers, pipe, buf, shm, bitmap, feedback, run,
                 stateVars, loopVars>>

Record ==
  /\ pc = "record"
  /\ StateUpdate(feedback, GetCrashLine, seedId, inputFile)
  /\ pc' = "loop"
  /\ UNCHANGED <<child, writers, pipe, buf, shm, bitmap, feedback, run,
                 corpus, loopVars>>

(* Saving a crashing input fails (the disk is full, say): nobody catches it. *)
RecordThrows ==
  /\ pc = "record"
  /\ StateUpdateThrows(GetCrashLine)
  /\ pc' = "failed"
  /\ UNCHANGED <<child, writers, pipe, buf, shm, bitmap, feedback, run,
                 corpus, loopVars>>

(* save_config, corpus.save, state.save. *)
SaveResults ==
  /\ pc = "save"
  /\ saved' = CorpusSave(corpus)
  /\ pc' = "done"
  /\ UNCHANGED <<child, writers, pipe, buf, shm, bitmap, feedback, run,
                 corpus, stateVars, fuzz_cycle, expired, inputFile, artifact,
                 seedId, parent, hist>>

Stopped == pc \in {"done", "failed"}

Terminating == Stopped /\ UNCHANGED vars

FuzzOne ==
  \/ \E i \in DOMAIN corpus : MutateSeed(i)
  \/ NewProgram
  \/ \E wstatus \in BuildStatus : Build(wstatus)
  \/ Execute
  \/ Answer
  \/ Admit
  \/ Record
  \/ RecordThrows

Next == Expire \/ LoopHead \/ FuzzOne \/ SaveResults \/ Terminating

Spec == Init /\ [][Next]_vars
----------------------------------------------------------------------------
(* PROPERTIES                                                              *)

SeenByAll == UNION {hist[d].cov : d \in DOMAIN hist}
ScoredByAll == UNION {hist[d].surge : d \in DOMAIN hist}

(* The accumulated bitmaps are exactly what the simulators of all answered
   runs set in the shared memory, no byte lost and none invented: nothing is
   zeroed too late, merged too early or merged twice over another run
   (Monitor::reset, Monitor::update, and the waitpid between them). *)
CoverageIsUnionOfRuns ==
  /\ bitmap.cov = SeenByAll
  /\ bitmap.surge = ScoredByAll

(* While a simulator process exists the fuzzer process does nothing but wait
   for it: it neither zeroes nor reads the shared memory, nor starts another
   simulator (Executor::run up to waitpid). *)
ChildOnlyWhileWaiting == child.st # "none" => pc = "wait"

(* The score reported for a run and stored with its seed is the run's own
   maximum, and the best score is the maximum over all runs, this one
   included (Surge::score and best_score, asked after Monitor::update). *)
ScoresAreExact ==
  pc \in {"admit", "record"} =>
    /\ feedback.score = MaxIndex(hist[Len(hist)].surge)
    /\ feedback.best = MaxIndex(ScoredByAll)
    /\ feedback.count = Cardinality(ScoredByAll)

(* A failed run is booked under the first assertion line that ITS simulator
   printed: no output of an earlier run, no chunk lost in a pipe, nothing for
   a run that succeeded (Executor::run, Feedback::get_crash_line). *)
CrashLineIsExact ==
  pc \in {"admit", "record"} =>
    /\ GetCrashLine = None <=> child.status = Exited(0)
    /\ GetCrashLine \in Line =>
         \E i \in DOMAIN run.out :
           /\ run.out[i] = GetCrashLine
           /\ \A j \in 1 .. (i - 1) : run.out[j] = NoLine
    /\ GetCrashLine = NoLine => \A i \in DOMAIN run.out : run.out[i] = NoLine

(* The lineage in the corpus can be followed although all the initial seeds
   share id 0: pid 0 means a mutant of some initial seed, and any other pid p
   is the seed at index p, the one that was really mutated. *)
LineageIsExact ==
  \A i \in DOMAIN corpus :
    LET mutated == hist[corpus[i].cycle].parent
    IN  IF corpus[i].cycle <= InitialSeedCount
        THEN mutated = 0 /\ corpus[i].id = 0
        ELSE /\ corpus[i].id = i - 1
             /\ mutated < i
             /\ IF corpus[i].pid = 0 THEN mutated \in 1 .. InitialSeedCount
                ELSE mutated = corpus[i].pid + 1

(* Each seed's used_count is the number of inputs mutated from it, the one in
   flight included (Seed::used is called through a reference into the
   corpus). *)
UsedCountsAreExact ==
  \A i \in DOMAIN corpus :
    corpus[i].used =
      Cardinality({c \in DOMAIN hist : hist[c].parent = i})
        + IF parent = i /\ Len(hist) < fuzz_cycle
             /\ pc \notin {"loop", "input", "save", "done"} THEN 1 ELSE 0

(* The books agree: as many crashes as the counts per line add up to and as
   files were saved, each file holds the input of the cycle it is named after,
   and between two cycles there are as many as runs answered.  An exception out
   of the copy of a crashing input leaves that one crash counted without a
   file, and never goes by unnoticed. *)
LedgerIsConsistent ==
  /\ stats.total_crashes = FoldFunction(+, 0, stats.crash_lines)
  /\ stats.total_crashes - Cardinality(crashes) \in 0 .. (IF pc = "failed" THEN 1 ELSE 0)
  /\ \A f \in crashes : f.content = f.cycle /\ f.cycle <= stats.current_cycle
  /\ pc = "loop" => stats.current_cycle = fuzz_cycle /\ Len(hist) = fuzz_cycle

(* At the end every seed is in a file of its own (Seed::save opens its file
   with truncation, so two seeds of one name would leave one). *)
EverySeedSaved == pc = "done" => Cardinality(saved) = Len(corpus)

(* No step forgets: covered bytes stay covered, a seed stays in its place with
   its program, and the reported best score never falls. *)
NothingForgotten ==
  [][/\ bitmap.cov \subseteq bitmap'.cov
     /\ bitmap.surge \subseteq bitmap'.surge
     /\ Len(corpus) <= Len(corpus')
     /\ \A i \in DOMAIN corpus :
          /\ corpus'[i].cycle = corpus[i].cycle
          /\ corpus'[i].used \in corpus[i].used .. (corpus[i].used + 1)
     /\ stats.best <= stats'.best]_vars

(* The campaign of processes, pipes and shared memory implements the abstract
   one: a run is observed when its feedback is returned, its input settled
   when the corpus has been dealt with. *)
Abstract == INSTANCE Campaign WITH
  seen    <- bitmap.cov,
  scores  <- bitmap.surge,
  kept    <- [i \in DOMAIN corpus |-> corpus[i].cycle],
  runs    <- Len(hist),
  verdict <- IF pc # "admit" THEN "settled"
             ELSE IF feedback.fresh \/ seedId = None THEN "keep" ELSE "drop"

ImplementsCampaign == Abstract!Spec

----------------------------------------------------------------------------
(* FAIRNESS.  The fuzzer process is scheduled; a forked child gets to exec; a
   simulation that is not stuck in a write comes to its end (the targets
   bound its cycles); time passes. *)
ParentStep ==
  \/ LoopHead
  \/ \E i \in DOMAIN corpus : MutateSeed(i)
  \/ NewProgram
  \/ \E wstatus \in BuildStatus : Build(wstatus)
  \/ (StartRun \/ RunForkFails \/ WaitPid \/ DrainOut \/ DrainErr)
       /\ UNCHANGED <<corpus, stateVars, loopVars>>
  \/ Answer
  \/ Admit
  \/ Record
  \/ RecordThrows
  \/ SaveResults

ChildStarts ==
  (ChildExec \/ ChildExecFails) /\ UNCHANGED <<corpus, stateVars, loopVars>>

ChildEnds ==
  /\ \E status \in EndStatus : ChildExit(status)
  /\ UNCHANGED <<corpus, stateVars, loopVars>>

FairSpec ==
  /\ Spec
  /\ WF_vars(ParentStep)
  /\ WF_vars(ChildStarts)
  /\ WF_vars(ChildEnds)
  /\ WF_vars(Expire)

(* When the time is up the process comes to its end, saving or failing
   (Makefile, TIMEOUT_SEC). *)
StopsAfterTimeout == expired ~> Stopped

(* Every cycle that begins is booked, or the process has stopped with an
   error: no cycle is silently abandoned. *)
EveryCycleBooked ==
  \A c \in 1 .. MaxCycles :
    (fuzz_cycle = c /\ pc = "input") ~> (stats.current_cycle = c \/ pc = "failed")

(* A score answered for a cycle was achieved on its own program, never on the
   image an earlier cycle left (README.md:73, the score "achieved" for each
   fuzzing cycle). *)
NeverScoresOldImage ==
  pc \in {"admit", "record"} /\ run.clocks > 0 => artifact \notin 1 .. (fuzz_cycle - 1)
=============================================================================
