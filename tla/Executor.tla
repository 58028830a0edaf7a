------------------------------ MODULE Executor ------------------------------
(***************************************************************************)
(* Executor<SurgeFuzz>::run (fuzzer/src/executor.cpp): one execution of    *)
(* the RTL simulator as a child process.  The parent zeroes the shared     *)
(* memory, forks, waits for the child to END, and only then drains the two *)
(* pipes and computes the feedback; the child writes the shared memory and *)
(* both pipes while it runs.                                               *)
(*                                                                         *)
(* stdout is a sequence of chunks.  A chunk is the line number of the      *)
(* failed assertion whose text it carries, or NoLine.  Of stderr only the  *)
(* number of chunks matters.                                               *)
(***************************************************************************)
EXTENDS Monitor, Common, Sequences

CONSTANTS
  Line,          \* line numbers of assertions of the design
  PipeCapacity,  \* chunks a pipe holds before a write blocks
  MaxOut,        \* bound: chunks a simulation writes to stdout
  MaxErr,        \* bound: chunks a simulation writes to stderr
  MaxClocks      \* bound: clock cycles one simulation is observed for

ASSUME LineAssumption == Line \subseteq Nat \ {0}
ASSUME LinesAreFinite == IsFiniteSet(Line)
ASSUME PipeAssumption == PipeCapacity \in Nat \ {0}
ASSUME OutputAssumption == MaxOut \in Nat /\ MaxErr \in Nat /\ MaxClocks \in Nat

VARIABLES
  pc,        \* where the fuzzer process is
  child,     \* the simulator process: [st, status]
  writers,   \* processes that hold the write ends of the pipes
  pipe,      \* what is in the pipes: [out : Seq of chunks, err : count]
  buf,       \* stdout_buffer and stderr_buffer
  shm,       \* the two shared memory segments
  bitmap,    \* the bitmaps accumulated by the fuzzer process
  feedback,  \* the last Feedback
  run        \* history: all the current simulation covered, scored, printed

execVars == <<pc, child, writers, pipe, buf, shm, bitmap, feedback, run>>

Chunk == Line \cup {NoLine}
Streams == [out : Seq(Chunk), err : Nat]
NoOutput == [out |-> <<>>, err |-> 0]
NoRun == [cov |-> {}, surge |-> {}, out |-> <<>>, err |-> 0, clocks |-> 0]

ChildStates == {"none", "forked", "running", "blocked", "zombie"}
Feedbacks == [success : BOOLEAN, fresh : BOOLEAN, score : Bin, best : Bin,
              count : Nat, energy : Nat]

ExecPhases == {"execute", "wait", "drainOut", "drainErr", "feedback"}

ExecTypeOK ==
  /\ child \in [st : ChildStates, status : Nat]
  /\ writers \subseteq {"parent", "child"}
  /\ pipe \in Streams
  /\ buf \in Streams
  /\ shm \in Bitmaps
  /\ bitmap \in Bitmaps
  /\ feedback \in Feedbacks
  /\ run \in [cov : SUBSET Point, surge : SUBSET Bin, out : Seq(Chunk),
              err : Nat, clocks : Nat]

ExecInit ==
  /\ child = [st |-> "none", status |-> 0]
  /\ writers = {}
  /\ pipe = NoOutput
  /\ buf = NoOutput
  /\ shm = Empty
  /\ bitmap = Empty
  /\ feedback = [success |-> TRUE, fresh |-> FALSE, score |-> 0, best |-> 0,
                 count |-> 0, energy |-> 0]
  /\ run = NoRun

----------------------------------------------------------------------------
(* Mutated forms, used only to show that the properties can fail.          *)

KeepBuffers == buf
ParentKeepsWriteEnd == {"parent", "child"}
LocalBest(b, s) == MaxIndex(s.surge)
WaitPidNoHang ==
  /\ pc = "wait"
  /\ pc' = "drainOut"
  /\ UNCHANGED <<child, writers, pipe, buf, shm, bitmap, feedback, run>>

----------------------------------------------------------------------------
(* The parent, up to the fork.                                             *)

ClearedBuffers == NoOutput
WriteEndsAfterFork == {"child"}

(* monitor.reset, Pipe::setup, the buffers cleared, fork; the parent then
   closes its copies of the write ends before it waits. *)
StartRun ==
  /\ pc = "execute"
  /\ shm' = MonitorReset(shm)
  /\ pipe' = NoOutput
  /\ buf' = ClearedBuffers
  /\ writers' = WriteEndsAfterFork
  /\ child' = [st |-> "forked", status |-> 0]
  /\ run' = NoRun
  /\ pc' = "wait"
  /\ UNCHANGED <<bitmap, feedback>>

(* fork() fails: std::exit. *)
RunForkFails ==
  /\ pc = "execute"
  /\ shm' = MonitorReset(shm)
  /\ pipe' = NoOutput
  /\ buf' = ClearedBuffers
  /\ run' = NoRun
  /\ pc' = "failed"
  /\ UNCHANGED <<child, writers, bitmap, feedback>>

----------------------------------------------------------------------------
(* The child: the simulator, linked with the coverage driver.              *)

childUnchanged == <<pc, buf, bitmap, feedback>>

ChildExec ==
  /\ child.st = "forked"
  /\ child' = [child EXCEPT !.st = "running"]
  /\ UNCHANGED <<childUnchanged, writers, pipe, shm, run>>

(* execvp() fails: perror writes to the stderr pipe, std::exit(EXIT_FAILURE). *)
ChildExecFails ==
  /\ child.st = "forked"
  /\ child' = [st |-> "zombie", status |-> Exited(1)]
  /\ writers' = writers \ {"child"}
  /\ pipe' = [pipe EXCEPT !.err = @ + 1]
  /\ run' = [run EXCEPT !.err = @ + 1]
  /\ UNCHANGED <<childUnchanged, shm>>

(* One clock of the design: the driver sets one surge bin, then one coverage
   byte (driver/include/fuzz_driver.hpp). *)
Clock(p, n) ==
  /\ child.st = "running"
  /\ run.clocks < MaxClocks
  /\ shm' = [cov |-> shm.cov \cup {p}, surge |-> shm.surge \cup {n}]
  /\ run' = [run EXCEPT !.cov = @ \cup {p}, !.surge = @ \cup {n},
                        !.clocks = @ + 1]
  /\ UNCHANGED <<childUnchanged, child, writers, pipe>>

(* The simulator writes a chunk; on a full pipe the write blocks, and nothing
   but a reader of the pipe could wake it. *)
PrintOut(c) ==
  /\ child.st = "running"
  /\ Len(run.out) < MaxOut
  /\ IF Len(pipe.out) < PipeCapacity
     THEN /\ pipe' = [pipe EXCEPT !.out = Append(@, c)]
          /\ run' = [run EXCEPT !.out = Append(@, c)]
          /\ UNCHANGED child
     ELSE /\ child' = [child EXCEPT !.st = "blocked"]
          /\ UNCHANGED <<pipe, run>>
  /\ UNCHANGED <<childUnchanged, writers, shm>>

PrintErr ==
  /\ child.st = "running"
  /\ run.err < MaxErr
  /\ IF pipe.err < PipeCapacity
     THEN /\ pipe' = [pipe EXCEPT !.err = @ + 1]
          /\ run' = [run EXCEPT !.err = @ + 1]
          /\ UNCHANGED child
     ELSE /\ child' = [child EXCEPT !.st = "blocked"]
          /\ UNCHANGED <<pipe, run>>
  /\ UNCHANGED <<childUnchanged, writers, shm>>

(* The simulation ends: normally, or on a failed assertion (abort, signal 6). *)
EndStatus == {Exited(0), Killed(6)}

ChildExit(status) ==
  /\ child.st = "running"
  /\ child' = [st |-> "zombie", status |-> status]
  /\ writers' = writers \ {"child"}
  /\ UNCHANGED <<childUnchanged, pipe, shm, run>>

Child ==
  \/ ChildExec
  \/ ChildExecFails
  \/ \E p \in Point, n \in Bin : Clock(p, n)
  \/ \E c \in Chunk : PrintOut(c)
  \/ PrintErr
  \/ \E status \in EndStatus : ChildExit(status)

----------------------------------------------------------------------------
(* The parent, after the fork.                                             *)

(* waitpid(pid, &put_status, 0) returns once the child has ended. *)
WaitPid ==
  /\ pc = "wait"
  /\ child.st = "zombie"
  /\ child' = [child EXCEPT !.st = "none"]
  /\ pc' = "drainOut"
  /\ UNCHANGED <<writers, pipe, buf, shm, bitmap, feedback, run>>

(* read_chunk on stdout: a chunk, or 0 bytes at end of file, which a pipe
   reports once it is empty and nobody holds its write end. *)
DrainOut ==
  /\ pc = "drainOut"
  /\ \/ /\ pipe.out # <<>>
        /\ buf' = [buf EXCEPT !.out = Append(@, Head(pipe.out))]
        /\ pipe' = [pipe EXCEPT !.out = Tail(@)]
        /\ UNCHANGED pc
     \/ /\ pipe.out = <<>> /\ writers = {}
        /\ pc' = "drainErr"
        /\ UNCHANGED <<buf, pipe>>
  /\ UNCHANGED <<child, writers, shm, bitmap, feedback, run>>

DrainErr ==
  /\ pc = "drainErr"
  /\ \/ /\ pipe.err > 0
        /\ buf' = [buf EXCEPT !.err = @ + 1]
        /\ pipe' = [pipe EXCEPT !.err = @ - 1]
        /\ UNCHANGED pc
     \/ /\ pipe.err = 0 /\ writers = {}
        /\ pc' = "feedback"
        /\ UNCHANGED <<buf, pipe>>
  /\ UNCHANGED <<child, writers, shm, bitmap, feedback, run>>

(* Feedback::get_crash_line: the first match of the assertion pattern in
   stdout, 0 when there is none. *)
FirstAssertion(out) ==
  IF \E i \in DOMAIN out : out[i] # NoLine
  THEN out[CHOOSE i \in DOMAIN out :
             /\ out[i] # NoLine
             /\ \A j \in DOMAIN out : j < i => out[j] = NoLine]
  ELSE NoLine

CrashLine(success, out) == IF success THEN None ELSE FirstAssertion(out)

(* A Feedback refers to the executor's buffers: whoever asks it for the crash
   line reads what they hold then. *)
GetCrashLine == CrashLine(feedback.success, buf.out)

(* best_score, asked after Monitor::update. *)
BestScore(b, s) == MaxIndex(MonitorUpdate(b, s).surge)

(* new_coverage is asked BEFORE the bitmap is updated, the rest after it. *)
MakeFeedback(b, s) ==
  [success |-> child.status = 0,
   fresh   |-> NewCoverage(b, s),
   score   |-> MaxIndex(s.surge),
   best    |-> BestScore(b, s),
   count   |-> Cardinality(MonitorUpdate(b, s).surge),
   energy  |-> Energy(MaxIndex(s.surge))]

(* Mutated form: the update comes first. *)
UpdateBeforeTest ==
  /\ pc = "feedback"
  /\ feedback' = MakeFeedback(MonitorUpdate(bitmap, shm), shm)
  /\ bitmap' = MonitorUpdate(bitmap, shm)
  /\ pc' = "admit"
  /\ UNCHANGED <<child, writers, pipe, buf, shm, run>>

ReturnFeedback ==
  /\ pc = "feedback"
  /\ feedback' = MakeFeedback(bitmap, shm)
  /\ bitmap' = MonitorUpdate(bitmap, shm)
  /\ pc' = "admit"
  /\ UNCHANGED <<child, writers, pipe, buf, shm, run>>
=============================================================================
