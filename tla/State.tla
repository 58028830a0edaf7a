-------------------------------- MODULE State --------------------------------
(***************************************************************************)
(* The campaign statistics and the directory of crashing inputs            *)
(* (fuzzer/src/state.cpp).  A saved input is [cycle, seed, content]: the   *)
(* name it is saved under and the program it holds.                        *)
(***************************************************************************)
EXTENDS Common

CONSTANT CrashLines  \* what get_crash_line can return: assertion lines and 0

VARIABLES
  stats,   \* the counters of class State
  crashes  \* the files under crashes/

stateVars == <<stats, crashes>>

StateTypeOK ==
  /\ stats \in [current_cycle : Nat, total_crashes : Nat,
                crash_lines : [CrashLines -> Nat], best : Nat, count : Nat]
  /\ crashes \subseteq [cycle : Nat, seed : Nat \cup {None}, content : Nat]

StateInit ==
  /\ stats = [current_cycle |-> 0, total_crashes |-> 0,
              crash_lines |-> [l \in CrashLines |-> 0], best |-> 0,
              count |-> 0]
  /\ crashes = {}

----------------------------------------------------------------------------
(* Mutated forms, used only to show that the properties can fail.          *)

CountUniqueOnly(lines, l) == [lines EXCEPT ![l] = 1]

----------------------------------------------------------------------------
CountCrash(lines, l) == [lines EXCEPT ![l] = @ + 1]

SavedInput(cycle, seed, content) ==
  [cycle |-> cycle, seed |-> seed, content |-> content]

(* The counters State::update raises before it saves the input; crash is what
   feedback.get_crash_line() answers. *)
Counted(crash) ==
  [stats EXCEPT
     !.current_cycle = @ + 1,
     !.total_crashes = @ + (IF crash = None THEN 0 ELSE 1),
     !.crash_lines   = IF crash = None THEN @ ELSE CountCrash(@, crash)]

(* State::update; timeout and differential_bug are always false. *)
StateUpdate(fb, crash, seedId, input) ==
  /\ stats' = [Counted(crash) EXCEPT !.best = fb.best, !.count = fb.count]
  /\ crashes' =
       IF crash = None THEN crashes
       ELSE crashes \cup
              {SavedInput(stats.current_cycle + 1, seedId, input)}

(* std::filesystem::copy throws in save_input: the counters are raised, the
   rest of State::update does not happen. *)
StateUpdateThrows(crash) ==
  /\ crash # None
  /\ stats' = Counted(crash)
  /\ UNCHANGED crashes
=============================================================================
