------------------------------ MODULE Sessions ------------------------------
(***************************************************************************)
(* Fuzzer processes and the simulators they start, on one machine and in   *)
(* one fuzz_dir: several campaigns one after the other or side by side,    *)
(* each ended by its loop, by an error or by a signal.  The parts of a     *)
(* cycle that FuzzLoop and Executor model in detail are single steps here; *)
(* what is added is the life of the shared memory segments, the other      *)
(* coverage methods, and the files that outlive a process.                 *)
(***************************************************************************)
EXTENDS CoverageMethods, Sequences

CONSTANTS
  Process,      \* fuzzer processes, in no order
  None,         \* no state latched, no segment, no crash file
  MaxSegments,  \* shared memory segments the system provides
  MaxRuns,      \* bound: cycles of all campaigns together
  MaxClocks     \* bound: clocks of a simulation

ASSUME SessionAssumption ==
  /\ IsFiniteSet(Process) /\ None \notin Wires \cup Nat
  /\ MaxSegments \in Nat /\ MaxRuns \in Nat /\ MaxClocks \in Nat

VARIABLES
  method,    \* the coverage method of the fuzzer and of the simulators
  fuzz_dir,  \* does the output directory exist?
  phase,     \* where each process is
  segments,  \* the segments of the system: [id, owner, name]
  memory,    \* the coverage bitmap in each segment
  env,       \* environment of each process: names of variables -> ids
  bitmap,    \* bitmap of each process
  run,       \* cycles each process has begun
  sims,      \* simulators: [owner, cov, init, trace]
  crashes    \* files under crashes/: [name, by]

vars == <<method, fuzz_dir, phase, segments, memory, env, bitmap, run, sims, crashes>>

Names == {"FUZZ_BITMAP", "FUZZ_SURGE_SCORE_BITMAP"}
Ids == 1 .. MaxSegments

Phases == {"unborn", "coverage", "surge", "idle", "running",
           "returned", "exited", "killed"}
Alive == {"coverage", "surge", "idle", "running"}

Init ==
  /\ method \in Methods
  /\ fuzz_dir \in BOOLEAN
  /\ phase = [p \in Process |-> "unborn"]
  /\ segments = {}
  /\ memory = [i \in Ids |-> {}]
  /\ env = [p \in Process |-> [n \in Names |-> None]]
  /\ bitmap = [p \in Process |-> {}]
  /\ run = [p \in Process |-> 0]
  /\ sims = {}
  /\ crashes = {}

Runs == MapThenSumSet(LAMBDA p : run[p], Process)
Child(p) == {s \in sims : s.owner = p}

----------------------------------------------------------------------------
(* Mutated forms, used only to show that the properties can fail.          *)

KeyedSegment(n) == CHOOSE i \in Ids : (i = 1) <=> (n = "FUZZ_BITMAP")
FailedSegment(n) == -1
OnlyDetached(p) == segments
LatchedNever(s, wire) == IF s.init = None THEN [r \in Rows |-> {}] ELSE s.init
OwnFilesOnly(name, p) == \E f \in crashes : f.name = name /\ f.by = p

----------------------------------------------------------------------------
(* THE SEGMENTS: shm.hpp and shm2d.hpp, in the constructor of the executor. *)

(* shmget with IPC_PRIVATE: a segment of its own. *)
FreshSegment(n) ==
  CHOOSE i \in Ids : \A g \in segments : g.id # i

HasRoom == Cardinality(segments) < MaxSegments

(* setup_shm: allocate, attach, and tell the simulators the id. *)
SetupShm(p, n) ==
  /\ HasRoom
  /\ segments' = segments \cup {[id |-> FreshSegment(n), owner |-> p, name |-> n]}
  /\ memory' = [memory EXCEPT ![FreshSegment(n)] = {}]
  /\ env' = [env EXCEPT ![p][n] = FreshSegment(n)]

(* exit() and abort() run no destructor of the fuzzer: main holds it. *)
Exit(p) == phase' = [phase EXCEPT ![p] = "exited"]

(* shmget fails, or shmat does and the new segment is removed at once. *)
SetupFails(p) ==
  /\ Exit(p)
  /\ UNCHANGED <<method, fuzz_dir, segments, memory, env, bitmap, run, sims, crashes>>

(* The coverage method's segment; Blackbox has none. *)
SetupCoverage(p) ==
  /\ phase[p] = "unborn"
  /\ phase' = [phase EXCEPT ![p] = "coverage"]
  /\ IF method = "blackbox" THEN UNCHANGED <<segments, memory, env>>
     ELSE SetupShm(p, "FUZZ_BITMAP")
  /\ UNCHANGED <<method, fuzz_dir, bitmap, run, sims, crashes>>

SetupCoverageFails(p) ==
  /\ phase[p] = "unborn"
  /\ method # "blackbox"
  /\ SetupFails(p)

(* The segment of the surge scores. *)
SetupSurge(p) ==
  /\ phase[p] = "coverage"
  /\ phase' = [phase EXCEPT ![p] = "surge"]
  /\ SetupShm(p, "FUZZ_SURGE_SCORE_BITMAP")
  /\ UNCHANGED <<method, fuzz_dir, bitmap, run, sims, crashes>>

SetupSurgeFails(p) ==
  /\ phase[p] = "coverage"
  /\ SetupFails(p)

(* The files of State are opened before the constructor of Fuzzer creates the
   directory they are in; the directories of the inputs may exist already. *)
OpenFiles(p) ==
  /\ phase[p] = "surge"
  /\ IF fuzz_dir THEN phase' = [phase EXCEPT ![p] = "idle"] ELSE Exit(p)
  /\ UNCHANGED <<method, fuzz_dir, segments, memory, env, bitmap, run, sims, crashes>>

(* cleanup_shm of both segments. *)
Released(p) == {g \in segments : g.owner # p}

(* main returns. *)
Return(p) ==
  /\ phase[p] = "idle"
  /\ phase' = [phase EXCEPT ![p] = "returned"]
  /\ segments' = Released(p)
  /\ UNCHANGED <<method, fuzz_dir, memory, env, bitmap, run, sims, crashes>>

(* A signal ends the process; a simulator it started goes on.  A SIGSEGV is
   what DirectFuzz::reset may end in, which writes past its last row. *)
Kill(p) ==
  /\ phase[p] \in Alive
  /\ phase' = [phase EXCEPT ![p] = "killed"]
  /\ UNCHANGED <<method, fuzz_dir, segments, memory, env, bitmap, run, sims, crashes>>

----------------------------------------------------------------------------
(* A CYCLE                                                                 *)

(* The build fails: std::exit. *)
BuildFails(p) ==
  /\ phase[p] = "idle"
  /\ Runs < MaxRuns
  /\ Exit(p)
  /\ UNCHANGED <<method, fuzz_dir, segments, memory, env, bitmap, run, sims, crashes>>

(* The segment is zeroed and a simulator started, which finds the segment by
   the environment it inherits. *)
StartSimulator(p) ==
  /\ phase[p] = "idle"
  /\ Runs < MaxRuns
  /\ phase' = [phase EXCEPT ![p] = "running"]
  /\ run' = [run EXCEPT ![p] = run[p] + 1]
  /\ memory' = IF method = "blackbox" THEN memory
               ELSE [memory EXCEPT ![env[p]["FUZZ_BITMAP"]] = {}]
  /\ sims' = sims \cup {[owner |-> p, cov |-> env[p]["FUZZ_BITMAP"],
                         init |-> None, trace |-> <<>>]}
  /\ UNCHANGED <<method, fuzz_dir, segments, env, bitmap, crashes>>

(* is_first: the state of the first clock stays latched. *)
Latched(s, wire) == IF s.init = None THEN wire ELSE s.init

(* FuzzDriver::call_per_one_cycle. *)
Clock(s, wire) ==
  /\ Len(s.trace) < MaxClocks
  /\ sims' = (sims \ {s}) \cup
               {[s EXCEPT !.init = Latched(s, wire), !.trace = Append(s.trace, wire)]}
  /\ memory' = IF method = "blackbox" THEN memory
               ELSE [memory EXCEPT ![s.cov] = memory[s.cov] \cup
                                               Marked(method, Latched(s, wire), wire)]
  /\ UNCHANGED <<method, fuzz_dir, phase, segments, env, bitmap, run, crashes>>

(* An orphan ends. *)
OrphanEnds(s) ==
  /\ phase[s.owner] = "killed"
  /\ sims' = sims \ {s}
  /\ UNCHANGED <<method, fuzz_dir, phase, segments, memory, env, bitmap, run, crashes>>

Local(p) == IF method = "blackbox" THEN {} ELSE memory[env[p]["FUZZ_BITMAP"]]

(* The simulator has ended, and its coverage is added to the bitmap. *)
Answer(p) ==
  /\ phase[p] = "running"
  /\ sims' = sims \ Child(p)
  /\ bitmap' = [bitmap EXCEPT ![p] = Applied(method, bitmap[p], Local(p))]

(* The name of a crash file: the cycle, and the time and seed of this run. *)
CrashName(p, elapsed_ms) == <<run[p], elapsed_ms>>

(* std::filesystem::copy refuses a name that is there, whoever wrote it; what
   it writes is the only file of its name. *)
Taken(name, p) == \E f \in crashes : f.name = name
Saved(name, p) == {f \in crashes : f.name # name} \cup {[name |-> name, by |-> p]}

Passes(p) ==
  /\ Answer(p)
  /\ phase' = [phase EXCEPT ![p] = "idle"]
  /\ UNCHANGED <<method, fuzz_dir, segments, memory, env, run, crashes>>

(* A crash is saved; nobody catches what copy throws. *)
Crashes(p, elapsed_ms) ==
  LET name == CrashName(p, elapsed_ms)
  IN  /\ Answer(p)
      /\ \/ Taken(name, p) /\ Exit(p) /\ UNCHANGED crashes
         \/ /\ ~Taken(name, p)
            /\ phase' = [phase EXCEPT ![p] = "idle"]
            /\ crashes' = Saved(name, p)
      /\ UNCHANGED <<method, fuzz_dir, segments, memory, env, run>>

Elapsed == {0, 1}

Next ==
  \/ \E p \in Process :
       \/ SetupCoverage(p) \/ SetupCoverageFails(p)
       \/ SetupSurge(p) \/ SetupSurgeFails(p)
       \/ OpenFiles(p) \/ BuildFails(p) \/ StartSimulator(p)
       \/ Passes(p) \/ \E t \in Elapsed : Crashes(p, t)
       \/ Return(p) \/ Kill(p)
  \/ \E s \in sims : OrphanEnds(s) \/ \E wire \in Wires : Clock(s, wire)

Spec == Init /\ [][Next]_vars

----------------------------------------------------------------------------
(* PROPERTIES                                                              *)

SessionTypeOK ==
  /\ phase \in [Process -> Phases]
  /\ segments \subseteq [id : Ids, owner : Process, name : Names]
  /\ env \in [Process -> [Names -> Ids \cup {None}]]
  /\ run \in [Process -> Nat]
  /\ \A s \in sims : Len(s.trace) <= MaxClocks

(* What a simulation covers, from all its clocks: the bits that differed from
   the first clock in some clock, or the states it went through. *)
CoveredBy(trace) ==
  CASE method \in {"rfuzz", "directfuzz"} ->
         {pt \in Rows \X Wirebits : \E i \in DOMAIN trace :
            ~(pt[2] \in trace[i][pt[1]] <=> pt[2] \in trace[1][pt[1]])}
    [] method = "difuzzrtl" ->
         UNION {{<<r, trace[i][r]>> : r \in Rows} : i \in DOMAIN trace}
    [] method = "blackbox" -> {}

(* The marks in the segment are those of the one simulator the fuzzer waits
   for, measured from its own first clock: nothing is left of an earlier run,
   and nothing comes from the simulators of another campaign or from an orphan
   of a killed one. *)
MarksAreOfThisRun ==
  \A p \in Process : phase[p] = "running" =>
    \E s \in sims : Child(p) = {s} /\ Local(p) = CoveredBy(s.trace)

(* A fuzzer's bitmap grows by what its own simulator covered, and only when
   new_coverage says so. *)
BitmapGrowsByOwnRun ==
  [][\A p \in Process :
       phase[p] = "running" /\ phase'[p] \in {"idle", "exited"} =>
         \A s \in Child(p) :
           /\ bitmap'[p] = bitmap[p] \cup CoveredBy(s.trace)
           /\ NewCoverage(method, bitmap[p], Local(p)) <=> bitmap'[p] # bitmap[p]]_vars

(* No segment outlives a campaign that returned: what is left belongs to a
   process that is alive, or that left by exit(), abort() or a signal.  And
   as long as a process is alive, the segments its simulators are told of
   are there and its own. *)
OnlyExitsLeak ==
  /\ \A g \in segments : phase[g.owner] \in Alive \cup {"exited", "killed"}
  /\ \A p \in Process : phase[p] \in Alive => \A n \in Names :
       env[p][n] # None => [id |-> env[p][n], owner |-> p, name |-> n] \in segments

(* No crashing input that was saved is replaced or lost, by a later cycle or
   by another campaign in the same directory. *)
CrashFilesSurvive == [][crashes \subseteq crashes']_vars

(* DirectFuzz: where it is defined, the energy lies within its bounds; it is
   largest exactly when only selects of the target instance are covered, and
   smallest when only the farthest are.  It is undefined only once a row
   without a distance is covered, or when no instance is away from the target. *)
EnergyFollowsDistance ==
  method = "directfuzz" => \A p \in Process :
    LET e == Energy(method, bitmap[p])
        rows == {pt[1] : pt \in bitmap[p]}
        spread == \E r \in DOMAIN Dist : Dist[r] > 0
    IN  /\ e # Undefined => e \in MinEnergy .. MaxEnergy
        /\ e = Undefined => ~spread \/ ~(rows \subseteq DOMAIN Dist)
        /\ rows # {} /\ rows \subseteq DOMAIN Dist /\ spread =>
             /\ e = MaxEnergy <=> \A r \in rows : Dist[r] = 0
             /\ (\A r \in rows, q \in DOMAIN Dist : Dist[q] <= Dist[r]) => e = MinEnergy
=============================================================================
