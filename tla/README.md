# Specifications of SurgeFuzz

SurgeFuzz is a coverage-directed fuzzer for RISC-V cores. A Verilog design is
instrumented by Yosys passes, built with Verilator together with a small C++
driver, and run once per *fuzz cycle* as a child process of the fuzzer on a
generated RISC-V program. Driver and fuzzer share two bitmaps in System V shared
memory: which coverage points the run met, and which *surge scores* it reached.
A run that covers something new puts its program into the corpus, from which
later programs are mutated.

This directory holds TLA+ modules of that system, the TLC configurations that
model-check them, and proofs that TLAPS checks. Paths below are relative to
`src/`.

## 1. The system: components, state, interactions

| component | state | operations | talks to |
|---|---|---|---|
| fuzzing loop (`fuzzer/src/fuzzer.cpp`) | `fuzz_cycle`, `start`, the input file, the built image | `fuzz_loop`, `fuzz_one` | calls every other part of the fuzzer process |
| executor (`fuzzer/src/executor.cpp`, `feedback.cpp`) | two pipes, output buffers, monitor | `run`, `read_chunk`; `get_crash_line` | forks the simulator, waits for it, reads its output |
| monitor (`fuzzer/include/monitor.hpp`, `coverage/surgefuzz.hpp`, `surge/surge.hpp`) | accumulated bitmaps, shared segments | `reset`, `new_coverage`, `update`, scores, `energy` | shared memory with the simulator |
| corpus (`fuzzer/src/corpus.cpp`) | vector of seeds | `get_next_seed`, `used`, `add_new_input`, `save` | a reference into it is held by `fuzz_one` |
| statistics (`fuzzer/src/state.cpp`) | counters, best score, count per crash line, `crashes/` | `update`, `save_input`, `save` | reads the feedback, copies the input file |
| surge recorder, driver (`driver/include/surge/surge.hpp`, `fuzz_driver.hpp`, `method/surgefuzz.hpp`) | ring buffer, counters, current score | `update`, `update_bitmap`, once per clock | writes both segments |
| program generation and mutation (`fuzzer/src/program.cpp`) | labelled blocks of instructions | generate; swap, insert, remove, replace, mutate opcode or operands, insert an access sequence | used by the fuzzing loop; what it writes must assemble, or the campaign ends |
| RFuzz, DifuzzRTL, DirectFuzz, blackbox (`fuzzer/include/coverage`, `driver/include/method`) | their own bitmaps, distances | the same interface | alternatives to SurgeFuzz in the same templates |
| shared memory (`fuzzer/include/shm`, `driver/include/util`) | segment ids, environment variables | create, attach, detach, remove | fuzzer process to driver by environment |
| instrumentation passes (`pass/method`) | a netlist | find registers, distances, add wires | run before the build |
| profiling and selection (`script/profile`) | traces, candidate registers | mutual information, selection, `instrument` | decides the coverage wire |
| preparation (`script/prepare`) | text files | measure wires, write array and environment file | sizes of the segments and distances, for driver and fuzzer |
| command line (`fuzzer/src/fuzz_main.cpp`) | `Config` | parse, assert | constructs the fuzzer |
| targets, containers (`target`, `*/container`) | none at run time | build scripts | - |

What is hard in it:

- **Two processes, no lock.** The segments are zeroed by the fuzzer, written by
  the simulator and read back by the fuzzer. Only fork and `waitpid` order these.
- **Order inside a handler.** The test for new coverage must come before the
  bitmap is updated, the best score after it; the recorder before the coverage
  byte of the same clock.
- **State that outlives a run.** Buffers, segments, the built image, and the
  references a `Feedback` keeps into the executor's buffers.
- **Blocking.** The executor waits for the simulator to end before it reads a
  byte of its output; the time limit is tested between cycles only.
- **Failure half way.** A build that fails or is killed, a fork or exec that
  fails, a copy that throws: which files and counters are left?
- **Arithmetic.** An unsigned counter decremented by the content of a ring slot;
  a bitmap index that masks a score; shifts and sizes kept in different files.
- **Encoded identity.** All initial seeds share id 0, which is also an index and
  a dummy parent id.
- **State that outlives a process.** Segments are removed by destructors only,
  which `exit`, `abort` and signals skip; simulators survive a killed fuzzer;
  crash files of an earlier campaign meet those of a later one.
- **Graphs with loops.** The passes search netlists with register and
  combinational loops, slices of slices and wires shared by several cells, with
  sets of visited signals and hand-made queues.

What makes each part correct:

- *fuzzing loop*: a program is kept exactly for new coverage or as an initial
  seed; each cycle begun is booked; the campaign stops when its limits say so.
- *executor, monitor*: accumulated coverage is the union of the runs' coverage;
  scores are those of the right runs; a crash is booked under the line that run
  printed; output of one run never reaches the next.
- *corpus*: nothing is lost, lineage can be followed, use counts are exact, each
  seed is saved in a file of its own.
- *statistics*: totals, counts per line and saved files agree.
- *recorder, driver*: a score is that of the sliding window, streak or value; the
  running counter never drifts or wraps; each clock marks its own byte.
- *programs*: however long it is mutated, a program assembles, no block runs
  empty, an access follows the load of its address.
- *other coverage methods*: what a fuzzer counts is what its own simulator
  covered in this run, measured from its own first clock; the energy of
  DirectFuzz follows the distances and stays within its bounds.
- *segments, files*: a campaign that returns leaves no segment; nobody's crash
  file is overwritten.
- *passes*: the depths and distances reported are the shortest, the registers
  found decide the target or a multiplexer, and none is missed but where a
  stated limit cuts the search; every one of them reaches a lane of a wire.
  *Selection*: it takes the nearest, fills its width and ends.

`PROJECT.json` lists every component with its status and every hazard at its
line, with the properties that would catch it.

## 2. Modules and how they correspond to the code

    Campaign   <--refines--  FuzzLoop  = Executor(Monitor, Common) + Corpus + State
    SurgeWindow <--refines-- SurgeRecorder  <--  SurgeFuzzDriver
    Program
    Sessions  = several fuzzers, segments, simulators + CoverageMethods
    CoverageMethods  <--implemented by--  BitmapLayout
    Instrument = DependentSearch | ControlSearch | InstanceDistance | (muxes)
                 + SignalSelection,   all over a Netlist

- **Common** - an empty `optional`, wait statuses, `WEXITSTATUS`.
- **Monitor** - pure operators on pairs of bitmaps. A byte bitmap is the set of
  its non-zero indices: the driver only stores 1 and the fuzzer only tests for
  zero. `Surge::get_max_value` is `MaxIndex`, `reset`, `new_coverage`, `apply`
  (in `Monitor::update`) and `energy` have an operator each.
- **Executor** - `Executor::run` cut where another process can act: `StartRun`
  (reset, pipes, buffers, fork, closing of the write ends), `WaitPid`,
  `DrainOut`/`DrainErr` (one `read_chunk` each), `ReturnFeedback`. Beside it the
  simulator: exec or its failure, a clock that sets one byte in each segment, a
  write that may block, the end with success or abort. Output is a sequence of
  chunks, each the line of an assertion or no such line. `run` records what the
  current simulation did, to state properties with; no action depends on it but
  for the bounds.
- **Corpus** - the vector of seeds. A program is identified by the cycle that
  generated it. `get_next_seed` may return any seed (without the power schedule
  a uniform choice; with it every weight is at least 1e-6).
- **State** - counters and the files under `crashes/`.
- **FuzzLoop** - `fuzz_loop`/`fuzz_one` by phases (`pc`), composing the above.
  `hist` (one record per answered run) and `parent` are history variables.
  `failed` stands for `std::exit` or an uncaught exception, `done` for a campaign
  that has saved its results.
- **Campaign** - what a campaign promises without processes: observe a run, then
  settle its input. `FuzzLoop!Abstract` is the refinement mapping.
- **SurgeRecorder** - `SurgeRecorder::update` for FREQ, CONSEC and COUNT with
  its asserts; counters are words of `WordSize` values. `top` is history.
- **SurgeWindow** - the meaning of the three scores without ring or counter.
  `SurgeRecorder!Meaning` maps the ring, read backwards from `trace_count`, to
  the window.
- **SurgeFuzzDriver** - `call_per_one_cycle`: recorder, then coverage byte, with
  the width `instrument.py` gives the wire and the size `prepare` gives the
  segment. `met` is history.
- **Program** - `program.cpp`. A program is a function from labels to sequences
  of instructions. One `Program::mutate` is `StartRound` (which block, one
  operation or a mix, how many), an `Operate` for each operation, perhaps a
  second round, and `EndMutation`. Each operation on a block is an operator that
  gives the set of blocks it can leave behind (`SwapInst` ...
  `InsertMemoryAccessSequence`). An opcode is a position in the list of its
  type, a register or immediate its number; what an operand may be depends on
  type and position as in `random_operand`. The corpus lets a later mutation
  start from an earlier program, which is a program this module has passed
  through. `applied` is history.
- **CoverageMethods** - RFuzz, DirectFuzz, DifuzzRTL and Blackbox on both sides
  of the segment, as operators on sets of points: what a clock marks (`Marked`,
  in the driver's `update`), `NewCoverage`, `Applied` and `Energy` (the fuzzer's
  methods). The energy is computed exactly where the code uses `double`.
- **Sessions** - the machine around the campaigns: fuzzer processes that begin,
  allocate their two segments or fail to (`SetupShm`, `SetupFails`), open their
  files, run cycles of one of the methods above, and end by returning (`Return`,
  the destructors), by `exit` or `abort` (`Exit`) or by a signal (`Kill`, which
  leaves an orphan). A cycle, which `Executor` and `FuzzLoop` cut into its steps,
  is `StartSimulator`, clocks, and `Passes` or `Crashes`; a crash copies a file
  under the name of cycle and time, which another campaign may have used.
  `trace` in a simulator is history.
- **Netlist** - a flattened netlist as the passes see it: cells with an output
  chunk and input ports, the cells a signal is connected to, the instance and
  module of a signal by its name, and how data flow through a port
  (`get_cell_dataflow_level`).
- **DependentSearch**, **ControlSearch**, **InstanceDistance** - the queues of
  `search_dependents`, `is_control_register` and `calc_distance`, one action per
  round of their loops. The ports a signal is connected to are a set of
  `<<cell, port>>`; the order the code reads them in, that of the `std::set` of
  cells, is `ControlSearch!Before`, and the first that ends the search `FirstOf`.
- **SignalSelection** - `select_coverage_sigs` and `..._using_mi`, one action
  per round, and the concatenation `instrument.py` writes. A signal carries the
  number in its name (`dependent_<idx>`, given by `DependentSearch!DependentIdx`
  in the order in which Yosys reads a pool, from the signal inserted last to the
  first), for `calc_nmi` compares names: `Compared` are the candidates whose name
  does not contain that of the signal selected last, `NameContains` says when it
  does, on the digits of the numbers. The others sit a round out; a round drops some of
  those compared and selects the nearest of the rest, or nothing. Which of them
  tell too much is left open.
- **Instrument** - one build: the analysis of its pass, the wires it adds, and
  for SurgeFuzz the selection after it.
- **BitmapLayout** - where a point of `CoverageMethods` is in memory. `Prepare`
  measures the wires as `script/prepare/method` does and writes the sizes; with
  them the driver's `update` computes the word and bit, or the byte, of a mark
  (`ToggledBits`, `StateBytes`), and the fuzzer which cells it clears and reads
  (`ResetCells`, `View`). The value of a wire is a number, cut to the width of
  the array that takes it. `points` and `covered`, the same run in the terms of
  `CoverageMethods`, are history.
- **MCFuzzLoop**, **MCSurgeFuzzDriver**, **MCProgram**, **MCSessions**,
  **MCInstrument** - instances for TLC.
- **FuzzLoopProofs**, **SurgeFuzzDriverProofs**, **ProgramProofs**,
  **InstanceDistanceProofs**, **InstrumentProofs**, **SessionsProofs**,
  **BitmapLayoutProofs** - theorems and proofs; **DataLemmas** - facts about
  numbers, finite sets, sums and repeated application that they share.

Operators under the heading "Mutated forms" are plausible bugs of the operator
they are named with. Nothing uses them; `PROJECT.json` says which property each
of them breaks when it replaces the real operator.

## 3. Runs

| run | instance | shows |
|---|---|---|
| `fuzz_safety` | 3 cycles, 2 initial seeds, 2 coverage points, 2 scores, a pipe of 1 chunk and simulators that print up to 2 | coverage, scores, corpus, lineage, use counts, crash books, saved files; refinement of `Campaign` |
| `fuzz_live` | 2 cycles ended by the timeout, output fits in the pipes, fairness | no deadlock; the process stops after the timeout; each cycle is booked |
| `fuzz_pipe` | as `fuzz_live`, but stdout may exceed the pipe | violation: see finding 1 |
| `fuzz_stale` | 2 cycles, one seed | violation: see finding 2 |
| `surge_driver` | ring of 3, 3 bins, words of 6 values, 1-bit coverage wire, signals 0..5 | recorder and driver, refinement of `SurgeWindow` |
| `surge_alias` | the same | violation: see finding 3 |
| `cov_index` | the same | violation: see finding 4 |
| `program_shape` | 2 blocks of 1 instruction, at most 4 in all, 4 types of instruction, 1 or 2 operations a round | mutants assemble, blocks stay non-empty, access sequences go in whole |
| `sessions` | 2 campaigns with 2 cycles in all, 4 segments, 3 rows of 1 bit, 2 clocks | coverage of the other methods, isolation of campaigns, leaks, crash files, energy |
| `instrument` | some 2000 netlists of 3 to 5 cells, depth up to 5, registers of up to 2 bits taken, wires of 4 lanes | searches, distances, selection and wires; every build ends |
| `closer_wire` | the same | violation: see finding 5 |
| `bitmap_layout` | bytes of 1 bit, words of 2 bytes, up to 2 instances and the target, wires of up to 4 bits in all (3 for states) | sizes of the scripts and indices of driver and fuzzer fit together |

*Why the bounds are enough.* Cycles interact through the bitmaps, the buffers,
the image and the corpus, so a defect of their hand-over shows between two
consecutive runs; three cycles give two initial seeds (the smallest number for
which the shared id 0 and file names matter) and one mutant. Two points and two
scores tell old from new coverage and a smaller from a larger score. One chunk
of pipe and two of output give a run whose output fits and one that blocks. Ring
and score bitmap have the same length as in the code (256 and 256); the word is
twice the ring, so the ring turns and `trace_count` wraps at a multiple of the
ring's length, as 2^32 is of 256. The bounds are the constants `MaxCycles`,
`MaxOut`, `MaxErr`, `MaxClocks` and, in the driver, the set `Signals`; CONSEC
stops before `WordSize - 1` clocks in a row, as no simulation runs for 2^32.
A program of one instruction is the smallest a removal can go wrong on, four
instructions let an access sequence go in before another instruction, two
blocks tell labels apart. The sampled types are those that differ in what can
go wrong (a branch target, an address and its access, no operands); of the
sampled values 5 fits every kind of operand but a label, and 3000 none
(`SampledTypes`, `Samples`, `MaxSize`; `Fits` keeps a round from starting that
could outgrow `MaxSize`). With 5 as the only register the run shows where an access goes in but not that it
goes through the register of its load; a second register makes the run too large,
so that this rests on the theorem (`AccessesFollowTheirLoads`).
Two campaigns are what it takes to share a machine or a directory, and two
cycles in all give one after the other, in one campaign or in two, or both at
once. Four segments are enough for both, and as leaked segments are never freed
also few enough to run out. Two clocks tell a toggle from the state latched
first. The rows are one at the target, one away from it and one without a
distance. The netlists combine, for each of three to five wires, drivers that
differ in what the passes tell apart: registers with and without an enable,
multiplexers selected by a slice, operations bit by bit or across bits, loops,
concatenations, memory reads, unnamed wires and other modules, in two or three
orders of the cells; a register of three bits is wider than one taken whole
(two), and the limits of depth and bits cut some searches and not others. A build
finds up to three registers, whose numbers are written in base two (`Radix`, ten
in the code): `1` is then contained in `10` as in the code `1` is in `10` to `19`.
Indices go wrong where a wire ends, at a word, at a power of two of words, or at
the next row: four bits in words of two give wires of half a word to two words,
two instances and the target give a last, a first and a middle row with the
target in any of them, and states of three bits are split over up to three
wires of equal or other width than the target's. Runs follow each other without
end. In the code words have 32 bits.
The theorems of section 5 hold for all values of these constants.

*Deadlock.* It is checked in `fuzz_live`. `fuzz_safety` and `fuzz_pipe` contain
the simulator that blocks on a full pipe, after which the system really stands
still. In the driver runs a failed `assert` ends the simulator. In `sessions`
all campaigns may have ended, and a build of `instrument` stops when it is done.

*Fairness.* `FairSpec` assumes that the fuzzer process is scheduled, that a
forked child gets to exec, that a simulation which is not stuck in a write ends,
and that time passes. The third is justified by the options of the targets,
which bound the simulated cycles (`target/boom/Makefile.inc:21`
`--max-cycles=15000`, `target/naxriscv/Makefile.inc:14`
`--timeout=20000`; `rsd` is run through a make target of its own repository,
which has such a limit too); the fuzzer itself imposes no limit on a run. Clocks and
prints of a simulation need no fairness. `Instrument` assumes that passes and
scripts, sequential programs, run until they return (weak fairness of the steps
of a pass, of the rounds of the selection and of its end). `EveryBuildEnds` is
then about their loops: over a cyclic netlist, the search of a control register
stops at visited signals and the relaxation of distances at distances that no
longer fall. The search of SurgeFuzz is left out of the fairness; that it cannot go
round for ever is proved instead (every round leaves less to search, theorem
`EveryRoundShrinks`). One loop has no exit: the selection by mutual information
goes round for ever once it has nothing to compare and the wire is not full
(`selector.py:62`), because no candidate is left, or because the names of all that
are left contain the one selected last. Fairness cannot help there, and the
property names this as the only other outcome (`NothingCompared`).

### Findings

1. `fuzz_pipe` - `Makefile:44` promises termination when a limit is met, but
   `Executor::run` calls `waitpid` before it reads the pipes (`executor.cpp:78`):
   a simulator that prints more than a pipe holds and the fuzzer wait for each
   other.
2. `fuzz_stale` - `execute_command` (`common.cpp:89`) returns `WEXITSTATUS`
   without `WIFEXITED`, 0 for a build ended by a signal. In the trace the first
   cycle builds, runs and scores its image; the build of the second is killed,
   the first image runs again, and its score is answered and displayed
   (`README.md:73`) as the second cycle's.
3. `surge_alias` - the recorder keeps `score & 0xff` of a score its own assert
   admits to be 256 (FREQ) or unbounded (CONSEC, COUNT): the score displayed for
   the cycle is not the achieved one (`README.md:73`).
4. `cov_index` - the coverage index is the whole wire shifted by four plus the
   score, but the bitmap has `1 << COV_BIT` bytes for a wire of `COV_BIT` bits.
5. `closer_wire` - `Makefile:18` says that `closer` selects by proximity;
   `select_coverage_sigs` (`selector.py:49`) does not count a signal it selects in
   part, goes on to farther ones, and these push the nearer ones off the wire.

Four more disagreements have no run of their own. `config.hpp:28` calls
`max_operation_count` the maximum of operations in a mutation, while
`Program::mutate` (`program.cpp:559`) mutates one or two blocks, each with up to
that many: twice as many is what `Program!TypeOK` says and `ProgramTypeCorrect`
proves. `driver/test/test_directfuzz.cpp:45` sets the byte size of the bitmap to
that of all instances, where the preparation writes that of one
(`directfuzz.py:57`), with which driver and fuzzer agree (`DirectFuzzEnv`). And
the list of distances has no entry for `coverage_target`, which has a row, so
that the rows behind it are weighted with the distance of another instance
(`OwnDistanceBeforeTarget`). The fourth is the selection by mutual information,
`Makefile:19`: "proximity selection with added pruning". `calc_nmi`
(`selector.py:15`) leaves out each signal whose name *contains* the name of the
one selected last, so that after `dependent_1` none of `dependent_10` to
`dependent_19` takes part in the round: a farther signal is selected although they
were not pruned, or, if nothing else is left, the loop does not end.
`MiNearerFirst` excepts exactly these signals, and `EveryBuildEnds` the round that
has nothing to compare. Without its exception `instrument` refutes the first
with a build that selects `dependent_1`, then
`dependent_0` at depth 2, and leaves `dependent_2` (`10` in base two) at depth 1.

## 4. Properties of the passing runs

`CoverageIsUnionOfRuns`, `ChildOnlyWhileWaiting` and `ScoresAreExact` relate the
fuzzer's memory to all that the simulators ever did. `CrashLineIsExact` relates
the book entry to what the child printed, through pipe, buffers and the late
parsing. `LineageIsExact`, `UsedCountsAreExact` and `EverySeedSaved` are about
the corpus over the whole campaign; `LedgerIsConsistent` ties counters to files at
any time, and says that a copy that throws (`state.cpp:125`) leaves one crash
without its file and never goes by unnoticed;
`NothingForgotten` is an action property; `ImplementsCampaign` the refinement,
which says that an input is kept exactly for new coverage or as an initial seed.
`FreqCountsHistory`, `BestIsExactBelowBins`, `CoverageIsOfOneClock` and
`ImplementsMeaning` do the same for the driver; that no assertion of its recorder
fails but on a signal wider than a bit (`AbortOnlyOnWideSignal`) follows from the
first of them, and is proved only.
`ProgramAssembles` and `NoBlockRunsEmpty` say what any number of mutations
preserves, `AccessFollowsItsLoad` what one of them adds.

`MarksAreOfThisRun` and `BitmapGrowsByOwnRun` compare segment and bitmap with a
definition over the whole run (`CoveredBy`), whatever other campaigns and orphans
do meanwhile; `OnlyExitsLeak` is the exact extent of what the destructors miss,
`CrashFilesSurvive` an action property of the shared directory, and
`EnergyFollowsDistance` says when the energy of DirectFuzz is extreme and when
it is undefined. `DepthIsShortest`, `SearchIsSound`, `SearchIsComplete` and
`ControlFound` compare what the searches found with the layers, cones and clouds
of a netlist defined without queue or visited set; `DistancesSettled` is the
optimality condition of shortest paths; `EveryTargetCovered` and
`MiSelectionFitsWire` follow the signals to the lanes of the wires, and
`MiNearerFirst` says in which order the rounds of the selection by mutual
information take what they do not prune.

`ImplementsPoints` ties three programs that share nothing but three numbers: the
fuzzer finds exactly the points of this run, each in the row of its wire, takes
over exactly those and judges them as `CoverageMethods` does, so that `Sessions`
may speak of points. `LayoutTypeOK` says besides the types that no mark leaves
the segment, and how far a reset goes: with DirectFuzz `WordBytes - 1` rows too
far. `EnvironmentFitsWires` says that the coverage rate stays within 100 percent,
but for one-bit wires with DirectFuzz, which the script does not count, and that
distances belong to their rows in front of `coverage_target` but not behind it.
Each property is stated and explained in its module.

## 5. What is proved

From the assumptions on constants only: at least one bin, one pipe chunk and one
initial seed (`config.hpp:10` makes one the default), and a limit on cycles or
time (asserted by `fuzz_main.cpp:70`); finitely many lines of assertions; for the
driver, a ring shorter than the word and whose length divides it; for programs,
at least one block, one instruction in a block and one operation
(`config.hpp:11`); energy bounds in their order (`MinEnergy < MaxEnergy`,
`directfuzz.hpp`); for the passes, netlists as Yosys builds them
(`Netlist!WellFormed`: no chunk is empty, a multiplexer has a select of one bit,
no bit is driven by two registers), finitely many instances, and a target
narrower than the wire; numbers written in a base of at least two; for the
layout, bytes with bits and
words with bytes, and a target whose name is none of an instance's.

*FuzzLoopProofs.* `CoverageIsUnionOfRuns` is not inductive: at `ReturnFeedback`
it needs the segments to hold exactly this run's marks. That is
`SegmentsAreOfThisRun` (from the fork to the feedback the segments equal the
record of the run), which in turn needs that no child writes them outside
`wait`, i.e. `ChildOnlyWhileWaiting`. `ScoresAreExact` follows at
`ReturnFeedback` from these and must survive until the feedback is used; that
the best score never falls needs `BestIsReached`. Together with `TypeOK` they
are `FuzzInv`, proved inductive action by action (`InvInit`, `InvStep`):

- `TypeCorrect`, `CoverageIsExact`, `OneAtATime`, `ScoresAlwaysExact`,
  and from the invariant the action property `NothingIsForgotten`;
- `CampaignIsImplemented`: every step of `FuzzLoop` is a step of `Campaign` or a
  stutter under the mapping. It strengthens `FuzzInv` to `RefInv` by
  `CyclesFollowRuns` (the cycle's number is the number of runs answered) and
  `ChoiceFollowsCorpus` (`seed_id` is empty exactly while the corpus lacks
  initial seeds), so that the code's test of `seed_id` is the promised one.

The second part of the module is about the books of the same loop, each
invariant on top of `FuzzInv` or `RefInv`:

- `CrashLineAlwaysExact`. What a run printed is what the fuzzer has read followed
  by what is left in the pipe, in this order (`OutputIsOfThisRun`), and a run is
  a success only by exit code 0 (`SuccessIsOfThisRun`). The buffers then hold the
  whole output when the line is parsed, after both streams are drained.
- `LineageAlwaysExact`, `UsedCountsAlwaysExact`. `CorpusInv` adds that cycles
  grow along the corpus (`CyclesIncrease`), that the first `InitialSeedCount`
  seeds are those with id 0 (`InitialSeedsFirst`), that the seed chosen is the
  one under way (`ParentIsChosen`) and stays in the corpus (`ParentsAreKept`).
  The use count is a cardinality of runs plus the one under way.
- `EverySeedAlwaysSaved`. The files saved are those of the corpus
  (`SavedIsCorpus`), and the cycle in a name tells seeds with the same id apart.
- `LedgerAlwaysConsistent`. `BookedCycles`, `CrashesBooked` (as many files as
  crashes, or one less in a campaign that has failed) and `LinesAddUp`; the
  sum over the lines is a fold of `Functions`, whose equation is `SumEquation` of
  DataLemmas.

The last part says what the liveness properties rest on, as far as it can be
said without fairness. `NoStepTurnsBack` is an action property: a step begins a
cycle, which an expired timeout or a reached `--fuzz_total_cycle` forbids, or
lets the time pass, or passes to a later phase (`Ahead`), or stays in the phase
and lowers a number: what the simulator may still do (`SimulatorLeft`) or what
is left in the pipe that is drained. A cycle, and the campaign once its time is
up, therefore has finitely many steps, for any sizes and any interleaving with
the simulator. `EndInv` adds to `FuzzInv` that a simulator keeps to its bounds
(`RunIsBounded`), and that time is up only where there is a timeout
(`OnlyTimeoutExpires`), without which the loop would not stop at it.

TLC checked all of these invariants on the instance of `fuzz_safety` before they
were proved.

*SurgeFuzzDriverProofs.* `DriverInv` adds `BinsFollowTop` (below the number of
bins no bin exceeds the largest score, and that one is set) to type correctness,
`FreqCountsHistory` and `CoverageIsOfOneClock`. The heart is `SlideCounts`: the
cardinality of the set of ones changes by the difference of the slot's new and
old value, hence the modular subtraction never wraps. Theorems
`DriverTypeCorrect`, `FreqIsExact`, `BestIsExact`, `CoverageIsExact`,
`OnlyWideSignalsAbort`, and `RecorderImplementsMeaning`, the refinement of
`SurgeWindow`: the slot of the clock k steps back is the same whether
`trace_count` has wrapped or not, since the ring divides the word, so a clock
puts its signal in front of the window and the others move back.

*ProgramProofs.* That a block does not run empty and that its instructions fit
their types must hold together, for the operations draw an index of the block
and replace parts of the instruction found there: `ProgramInv` says that every
block is a non-empty sequence of good instructions. `OperationsKeep` shows it of
each operation by a lemma of its own, on `InsertAtProperties` and
`RemoveAtProperties` (what `std::vector::insert` and `erase` do). Theorems
`ProgramTypeCorrect`, `EveryMutantAssembles`, `NoDrawFromNothing`, for all
sizes, configurations and sampled values. `AccessesFollowTheirLoads` is the
action property: only the insertion of a sequence lengthens a block by two, and
what it inserted at the position drawn is still there.

*InstanceDistanceProofs.* The loop of `calc_distance` alone (`DistanceSpec`), on
every graph of instances and with every target. `DistanceInv` says of the
relaxation under way that each instance reached has a neighbour that is nearer
by at least one (`Supported`), and that no edge can bring anything nearer but
out of what waits in the queue or is being relaxed (`Relaxed`). Both together
become equalities when the queue is empty. Theorems `DistanceTypeCorrect`,
`DistancesAreSettled`. What settled distances are, `DistancesAreShortest` says
without the loop: by induction along a way from the target no way is shorter than
the distance of its end (`NoWayIsShorter`), and by induction on the distance there
is a way as short (`SomeWayIsAsShort`).

*InstrumentProofs.* A whole build (`Instrument!Spec`), on every well-formed
netlist and with all limits.

- `SearchAlwaysSound`: whatever waits in the queue of the SurgeFuzz pass decides
  the target as many cells later as its depth says (`Sound`, `SearchInv`). The
  step needs what tracing through one port does to every bit of a slice
  (`TracedDecides`), where slices are cut by position in a concatenation.
- `SearchAlwaysComplete`, `DepthAlwaysShortest`: what the search misses and how far
  it says things are. A slice is visited for good, and the whole of a port's chunk
  counts as visited for each of its slices, so that both depend on the netlist:
  `DrivenWhole` says that no wire is read whole and driven in pieces. It holds in
  204 of the 256 netlists of the run and cannot be dropped: with
  `t = alu(w, x)`, `x = alu(z0, z0)`, `z = alu(w, w)` and each bit of `w` driven by a
  register of its own, `w` is met whole, where no cell drives all of it, and its
  slice `w0` is then skipped, so that neither register is found. The invariant
  (`BreadthInv`) has a witness: a depth `D` for everything visited, such that what
  waits is in the order of its depth and spans two layers at most (`InOrder`,
  `NoFurther`), and everything else visited has been followed through every chunk
  it leads to, into something visited at most one cell further (`Settled`, `MetAt`);
  before the first round nothing has been followed (`AtTarget`). By induction on
  the layer everything the rules reach is then inside something met as early
  (`LayersCovered`), since a slice of what was met has no driver the whole has not
  (`Regular`, which is what `DrivenWhole` gives, `SlicesAreRegular`, `LeadsWithin`).
  What was too wide to be taken is what `Hidden` excuses. That some bit of it
  is as far from the target as reported needs no condition (`OfLayers`).
- `EveryRoundShrinks`: each round of that search takes exactly one away from the
  slices of the netlist never met and the signals waiting (`ToDo`). There are
  finitely many (`AllSlicesFinite`), nothing is queued twice (`Advanced`), and so
  the search ends although wires form loops, with or without the depth limit.
- `MiSelectionAlwaysFits`: the bits counted are those of the wire written
  (`CountedOnWire`), one selected part after the other (`ConcatenationByParts`,
  `WireGrows`).
- `MiAlwaysNearerFirst`: the order in which it selects. The property is inductive
  with three facts (`OrderInv`): there is nothing to select from before the
  selection, only rows of the pass in it, and a round takes the nearest of what it
  compares (`RoundKeepsOrder`), so that what it leaves nearer was not compared.
- `EveryTargetAlwaysCovered`: each multiplexer select, or each bit of each
  control register, is once among the signals laid side by side (`OnceInAll`,
  `SetToSeqOnce`) and so on one lane, and the wires are not changed afterwards
  (`CoverInv`). The registers of one module do not overlap, which is where the
  netlist must be well formed.
- `ControlAlwaysFound`: the search of the DifuzzRTL pass against its reference.
  `Searching` says that a signal met is still queued or all its ports have been
  followed; when the queue is empty the signals met are closed under one more
  cell (`ClosedBehind`), and the reference `Reached` is the least such set
  (`ReachedFacts`, by `GrowthStops`: a set that grows in every round stops after
  as many rounds as there are cells). `FoundInv` carries the decided registers.

*SessionsProofs.* What one campaign reads must not depend on the others.
`SessionInv` joins the types, `Ownership` (no two segments share an id; what an
environment names is a segment of that process; a simulator belongs to a
process that waits for it or was killed, and writes to a segment that process
owns; one simulator each) and `Marks` (a simulator of a running process has
marked exactly what its trace covers). The id of a new segment is free because
there are finitely many segments and infinitely many ids (`FreshIsFresh`);
one clock more covers what its wires differ in (`CoveredByOneMore`), which is
where latching the first clock matters. Theorems `SessionTypeCorrect`,
`MarksAreOwn`, `OnlyExitsLeakSegments`, `CrashFilesAreKept` and
`BitmapGrowsByOwnSimulator`, for any number of processes, rows, wires, clocks
and segments. `EnergyAlwaysFollowsDistance` is about the weighted sum of
DirectFuzz: it is extreme exactly when every summand is.

*BitmapLayoutProofs.* Sizes by one program, indices by two, for every size of byte
and word, any number of wires and any widths. `EnvironmentFits` says what the
sizes of the three methods have in common (`Fits`): whole columns, rows as the
wires, bits for the widest. A cell is then read in the row, column and bit it was
marked for (`CellOf`, division with remainder), the bits of a wire are those below
its width (`NoBitAbove`), and the number of a state is determined by them
(`BitsDetermine`, by `BitOfHalf`). `MarksArePoints` joins this for one clock.
`LayoutInv` carries it over clocks and runs: the segment read back is `points`,
the bitmap `covered`, both within the widths of the wires (`Reachable`), which a
reset preserves only since it reaches every cell of the segment (`ResetFact`).
Theorems `LayoutAlwaysTyped`, `PointsAlwaysImplemented` and
`EnvironmentAlwaysFits`, the last by counting what is within the widths
(`BelowIsSum`) and because the only increasing list of as many numbers from 1 is
those numbers (`InOrder`).

*DataLemmas.* The library's induction theorems take an operator as a parameter,
which no prover here can instantiate. Induction is therefore done on sets: a set
of numbers without a least missing one is all of `Nat` (`AllNumbers`, by
`WFMin`), a set of subsets closed under adding a picked element has them all
(`AllSubsets`). What folds, `FlattenSeq` and the recursive functions of the
model compute is shown to be a table with one entry per round (`IsIteration`,
`IsSum`, `IsConcatenation`), which has to exist because a longer one can be made
of a shorter one.

*What the proofs changed in the models.* `DependentSearch!Traced` chose with CASE
between overlapping conditions, which leaves open which of them counts; it is now
stated in the order of the code. `ControlSearch` selected ports with `SelectSeq`, which
is built in and opaque to the provers; it has sets and an order instead. For the
same reason `BitmapLayout` has its powers of two as a function (`Pow2`) and the
list of distances as the one in increasing order. The runs have the same states
as before.

*Model-checked only.* Every invariant and action property of the runs that hold
is a theorem, `SearchIsComplete` and `DepthIsShortest` under the condition on the
netlist above; without it they are checked on the netlists of `instrument`, all
of which they hold on. What remains with TLC are the three liveness properties,
for good: fairness and ENABLED are outside the prover's reach.
`StopsAfterTimeout` and `EveryCycleBooked` lack, after `NoStepTurnsBack`, only that
some step is always possible and taken, which a simulator blocked on a full pipe
refutes (`fuzz_pipe`). `EveryBuildEnds` is about the other passes and the
selection; for the search of the SurgeFuzz pass `EveryRoundShrinks` says as much.

## 6. What is not modelled

- Text: the CSV, JSON and config files, the progress line, tar archives, percentages.
- System calls that fail (`pipe`, `dup2`, `waitpid`, `read`) end the process
  exactly as a failing `fork` does and are represented by it.
- The probabilities of the power schedule, only that each seed may be chosen.
- Time, other than that the limit passes.
- Of the coverage methods: rounding of the `double` energy and of the coverage
  rate (`CoverageWithinMax` compares the numbers it divides).
  `DirectFuzz::reset` writes past its last row: how far is in `BitmapLayout`,
  that it may end the process is part of `Kill`, other consequences of the write
  are not modelled.
- What Verilator makes of the array: an element of one or two words is no array
  of words in C++, so that with DirectFuzz a driver only compiles for wider
  ones. `BitmapLayout` has all widths.
- Of the passes: the graph files, the annotation pass (one attribute on a named
  wire), the assertion on a signal without driver, and all orders of the cells
  but those of the netlists given: the sets of the passes are ordered by
  address. Of the selection: the order pandas gives rows of equal distance
  (either is allowed) and the entropy estimates.
- `shm_manager.hpp`, which nothing includes.
- For good: container files, build scripts, patches of third-party cores, the
  entropy estimates of `script/profile/entropy.py` (numerics),
  the regular expressions with which `script/prepare` finds wires and marks
  signals public; `sv2v.py` and `verilator_public.py`, which consist of them.

## 7. Plan

1. `EveryBuildEnds` for all netlists, as far as it is a measure: what each round
   of `ControlSearch` and `InstanceDistance` leaves to do.
2. A condition weaker than `DrivenWhole`: a wire may be read whole and driven in
   pieces where no slice of it is reached later than the whole.
