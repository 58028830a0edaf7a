------------------------------- MODULE Common -------------------------------
(***************************************************************************)
(* Values shared by the modules of the fuzzer process.                     *)
(***************************************************************************)
EXTENDS Integers

(* An empty std::optional: no seed, no crash. *)
None == -1

(* The line get_crash_line answers for a failure without an assertion text. *)
NoLine == 0

(* What waitpid stores for a process that exited or was ended by a signal. *)
Exited(code) == 256 * code
Killed(signal) == signal

(* WEXITSTATUS: bits 8 to 15 of the wait status. *)
WExitStatus(wstatus) == (wstatus \div 256) % 256
=============================================================================
