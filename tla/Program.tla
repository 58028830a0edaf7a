------------------------------ MODULE Program ------------------------------
(***************************************************************************)
(* Programs and their mutation (fuzzer/src/program.cpp).  A program is a   *)
(* vector of blocks; block b carries the label label_<b> all its life, so  *)
(* a program is a function from labels to sequences of instructions.       *)
(*                                                                         *)
(* One Program::mutate goes through one or two rounds; a round picks a     *)
(* block, a mode and a number of operations, and applies them.  A mutant   *)
(* that is dropped leaves the campaign with a program seen before, so the  *)
(* next mutation may always start from the present one.                    *)
(***************************************************************************)
EXTENDS Integers, Sequences, SequencesExt

CONSTANTS
  BlockCount,         \* Config::initial_seed_block_count
  InstPerBlock,       \* Config::initial_seed_instructions_per_block
  MaxOperationCount,  \* Config::max_operation_count
  EnableRV64A, EnableRV64IM, EnableMemorySequence,
  Variants,      \* an opcode is the how-manyth of its type's list
  SampledTypes,  \* bound: instruction types drawn
  Samples,       \* bound: values drawn for registers and immediates
  MaxSize        \* bound: instructions in a program

ASSUME ConfigAssumption ==
  /\ BlockCount \in Nat \ {0}
  /\ InstPerBlock \in Nat \ {0}
  /\ MaxOperationCount \in Nat \ {0}
  /\ EnableRV64A \in BOOLEAN /\ EnableRV64IM \in BOOLEAN
  /\ EnableMemorySequence \in BOOLEAN
ASSUME SamplesAssumption == Samples \subseteq Int
ASSUME MaxSizeAssumption == MaxSize \in Nat

VARIABLES
  program,  \* the blocks, by label
  block,    \* the block being mutated (0 between rounds)
  mode,     \* "between" rounds, one operation all the time, or "mixed"
  left,     \* operations still to apply in this round
  round,    \* rounds begun in this mutation
  applied   \* history: operations applied in this mutation

vars == <<program, block, mode, left, round, applied>>

Label == 0 .. (BlockCount - 1)

----------------------------------------------------------------------------
(* Instructions.                                                           *)

(* The list Instruction's constructor draws a type from. *)
InstTypeList ==
  {"IntRegImm", "IntRegImmShift", "IntRegReg", "Branch", "Memory",
   "PseudoArg0", "PseudoLi", "PseudoLoadAddress"}
    \cup (IF EnableRV64IM THEN {"IntRegImmShiftW"} ELSE {})
    \cup (IF EnableRV64A THEN {"AtomicArg2", "AtomicArg3"} ELSE {})

InstType == {"IntRegImm", "IntRegImmShift", "IntRegImmShiftW", "IntRegReg",
             "Branch", "Memory", "PseudoArg0", "PseudoLi",
             "PseudoLoadAddress", "AtomicArg2", "AtomicArg3"}

(* How many operands of which kind an instruction of a type has. *)
OperandKinds(type) ==
  CASE type = "IntRegImm"         -> <<"register", "register", "imm12">>
    [] type = "IntRegImmShift"    -> <<"register", "register", "shamt">>
    [] type = "IntRegImmShiftW"   -> <<"register", "register", "uimm5">>
    [] type = "IntRegReg"         -> <<"register", "register", "register">>
    [] type = "Branch"            -> <<"register", "register", "label">>
    [] type = "Memory"            -> <<"register", "register", "uimm11">>
    [] type = "PseudoArg0"        -> <<>>
    [] type = "PseudoLi"          -> <<"register", "uimm5">>
    [] type = "PseudoLoadAddress" -> <<"register", "uimm11">>
    [] type = "AtomicArg2"        -> <<"register", "register">>
    [] type = "AtomicArg3"        -> <<"register", "register", "register">>

(* RandomNumberGenerator: [a, b); undefined when that is empty. *)
Rnd(a, b) == a .. (b - 1)

(* random_register draws again on x1 (return address) and x2 (stack). *)
RandomRegister == Rnd(0, 32) \ {1, 2}

RandomLabel == Rnd(0, BlockCount)

RandomOperand(kind) ==
  CASE kind = "register" -> RandomRegister \cap Samples
    [] kind = "label"    -> RandomLabel
    [] kind = "imm12"    -> Rnd(-2048, 2048) \cap Samples
    [] kind = "shamt"    -> Rnd(0, IF EnableRV64IM THEN 64 ELSE 32) \cap Samples
    [] kind = "uimm5"    -> Rnd(0, 32) \cap Samples
    [] kind = "uimm11"   -> Rnd(0, 2048) \cap Samples

(* random_operand(type, index) *)
OperandAt(type, k) == RandomOperand(OperandKinds(type)[k])

(* random_operands: one draw for each position. *)
RandomOperands(type) ==
  {operands \in [DOMAIN OperandKinds(type) -> Samples \cup Label] :
     \A k \in DOMAIN OperandKinds(type) : operands[k] \in OperandAt(type, k)}

(* random_opcode: a member of the list of the type. *)
RandomOpcode(type) == {<<type, v>> : v \in Variants}

Inst(type, opcode, operands) ==
  [type |-> type, opcode |-> opcode, operands |-> operands]

RandomInst ==
  UNION {{Inst(t, c, o) : c \in RandomOpcode(t), o \in RandomOperands(t)} :
           t \in InstTypeList \cap SampledTypes}

Instructions == [type : InstType, opcode : InstType \X Variants,
                 operands : Seq(Int)]

----------------------------------------------------------------------------
Operations ==
  {"swap_inst", "mutate_opcode", "mutate_operands", "mutate_operand",
   "mutate_inst", "insert_inst", "remove_inst"}
    \cup (IF EnableMemorySequence THEN {"insert_memory_access_sequence"}
          ELSE {})

Modes == Operations \cup {"mixed", "between"}

(* Types; a mutation applies at most twice max_operation_count operations:
   config.hpp calls that the maximum of a mutation, and Program::mutate counts
   it for each of its rounds. *)
TypeOK ==
  /\ program \in [Label -> Seq(Instructions)]
  /\ block \in Label
  /\ mode \in Modes
  /\ left \in 0 .. MaxOperationCount
  /\ round \in 0 .. 2
  /\ applied \in Nat /\ applied + left <= round * MaxOperationCount

(* Program::Program(block_num, inst_num, rnd) *)
Init ==
  /\ program \in [Label -> [1 .. InstPerBlock -> RandomInst]]
  /\ block = 0
  /\ mode = "between"
  /\ left = 0
  /\ round = 0
  /\ applied = 0

----------------------------------------------------------------------------
(* Mutated forms, used only to show that the properties can fail.          *)

RemoveAny(insts) == {RemoveAt(insts, i) : i \in DOMAIN insts}
RoundAfterSecond(r) == r <= 2
DrawnAsFirst(insts) ==
  UNION {{[insts EXCEPT ![i].operands[k] = v] :
            k \in DOMAIN insts[i].operands, v \in OperandAt(insts[i].type, 1)} :
           i \in {j \in DOMAIN insts : insts[j].operands # <<>>}}
AccessFirst(insts, i, la, access) ==
  InsertAt(InsertAt(insts, i, la), i, access)

----------------------------------------------------------------------------
(* The operations on a block: what the block can become.                   *)

(* swap_inst: i and j may be the same. *)
SwapInst(insts) ==
  {[insts EXCEPT ![i] = insts[j], ![j] = insts[i]] :
     i \in DOMAIN insts, j \in DOMAIN insts}

MutateOpcode(insts) ==
  UNION {{[insts EXCEPT ![i].opcode = c] : c \in RandomOpcode(insts[i].type)} :
           i \in DOMAIN insts}

MutateOperands(insts) ==
  UNION {{[insts EXCEPT ![i].operands = o] :
            o \in RandomOperands(insts[i].type)} : i \in DOMAIN insts}

(* One operand, of the kind its type has at its position; an instruction
   without operands is left as it is. *)
MutateOperand(insts) ==
  UNION {IF insts[i].operands = <<>> THEN {insts}
         ELSE UNION {{[insts EXCEPT ![i].operands[k] = v] :
                        v \in OperandAt(insts[i].type, k)} :
                       k \in DOMAIN insts[i].operands} :
           i \in DOMAIN insts}

MutateInst(insts) ==
  {[insts EXCEPT ![i] = inst] : i \in DOMAIN insts, inst \in RandomInst}

(* Before the element at i: never behind the last instruction. *)
InsertInst(insts) ==
  {InsertAt(insts, i, inst) : i \in DOMAIN insts, inst \in RandomInst}

(* The last instruction of a block is not removed. *)
RemoveInst(insts) ==
  IF Len(insts) > 1 THEN {RemoveAt(insts, i) : i \in DOMAIN insts} ELSE {insts}

AccessAfterLoad(insts, i, la, access) ==
  InsertAt(InsertAt(insts, i, la), i + 1, access)

Access(opcode, data, base) == Inst("Memory", opcode, <<data, base, 0>>)

(* A load of an address and an access through its register, together. *)
InsertMemoryAccessSequence(insts) ==
  UNION {{AccessAfterLoad(insts, i,
            Inst("PseudoLoadAddress", c, o), Access(d, r, o[1])) :
            c \in RandomOpcode("PseudoLoadAddress"),
            o \in RandomOperands("PseudoLoadAddress"),
            d \in RandomOpcode("Memory"), r \in RandomOperand("register")} :
           i \in DOMAIN insts}

Results(op, insts) ==
  CASE op = "swap_inst"       -> SwapInst(insts)
    [] op = "mutate_opcode"   -> MutateOpcode(insts)
    [] op = "mutate_operands" -> MutateOperands(insts)
    [] op = "mutate_operand"  -> MutateOperand(insts)
    [] op = "mutate_inst"     -> MutateInst(insts)
    [] op = "insert_inst"     -> InsertInst(insts)
    [] op = "remove_inst"     -> RemoveInst(insts)
    [] op = "insert_memory_access_sequence" -> InsertMemoryAccessSequence(insts)

----------------------------------------------------------------------------
(* Program::mutate and Block::mutate.                                      *)

(* Bound: how much count operations of one mode add, and whether it fits. *)
Growth(op) == CASE op = "insert_inst" -> 1
                [] op = "insert_memory_access_sequence" -> 2
                [] OTHER -> 0

Size == FoldFunction(LAMBDA insts, n : n + Len(insts), 0, program)

Fits(op, count) == Size + count * Growth(op) <= MaxSize

(* `i < 1 + rnd(2)` draws anew each time: true for 0, perhaps for 1, and
   false for 2. *)
MayContinue(r) == r < 2

StartRound(b, m, count) ==
  /\ mode = "between"
  /\ MayContinue(round)
  /\ Fits(m, count)
  /\ block' = b
  /\ mode' = m
  /\ left' = count
  /\ round' = round + 1
  /\ UNCHANGED <<program, applied>>

(* The mutant is complete: it is written to a file, built and run. *)
EndMutation ==
  /\ mode = "between"
  /\ round > 0
  /\ round' = 0
  /\ applied' = 0
  /\ UNCHANGED <<program, block, mode, left>>

Operate(op) ==
  /\ mode \in {op, "mixed"}
  /\ Fits(op, 1)
  /\ \E insts \in Results(op, program[block]) :
       program' = [program EXCEPT ![block] = insts]
  /\ left' = left - 1
  /\ mode' = IF left = 1 THEN "between" ELSE mode
  /\ block' = IF left = 1 THEN 0 ELSE block
  /\ applied' = applied + 1
  /\ UNCHANGED round

Next ==
  \/ \E b \in Label, m \in Operations \cup {"mixed"},
        count \in 1 .. MaxOperationCount : StartRound(b, m, count)
  \/ \E op \in Operations : Operate(op)
  \/ EndMutation

Spec == Init /\ [][Next]_vars
----------------------------------------------------------------------------
(* PROPERTIES                                                              *)

(* What the assembler accepts as an operand of a kind and the harness
   tolerates: a label some block carries, a shift below the register width,
   never the return address or the stack pointer. *)
Legal(kind, v) ==
  CASE kind = "register" -> v \in (0 .. 31) \ {1, 2}
    [] kind = "label"    -> v \in DOMAIN program
    [] kind = "imm12"    -> v \in -2048 .. 2047
    [] kind = "shamt"    -> v \in 0 .. 63 /\ (v < 32 \/ EnableRV64IM)
    [] kind = "uimm5"    -> v \in 0 .. 31
    [] kind = "uimm11"   -> v \in 0 .. 2047

WellFormed(inst) ==
  /\ inst.type \in InstTypeList
  /\ inst.opcode \in RandomOpcode(inst.type)
  /\ Len(inst.operands) = Len(OperandKinds(inst.type))
  /\ \A k \in DOMAIN inst.operands :
       Legal(OperandKinds(inst.type)[k], inst.operands[k])

(* However long it is mutated, every instruction of a program can be
   assembled: its opcode and each of its operands fit its type, and each
   branch goes to a block that exists.  A program that cannot be assembled
   ends the whole campaign (fuzz_one: "Failed to build a generated code"). *)
ProgramAssembles ==
  \A b \in DOMAIN program : \A i \in DOMAIN program[b] :
    WellFormed(program[b][i])

(* Every operation begins by drawing an index below the block's size, which
   is undefined for an empty block: no sequence of removals may empty one. *)
NoBlockRunsEmpty == \A b \in DOMAIN program : Len(program[b]) > 0

(* A memory access sequence goes in whole: the access right behind the load
   of the register it goes through, with the other instructions in their
   order (Block::insert_memory_access_sequence). *)
AccessFollowsItsLoad ==
  [][\A b \in Label :
       Len(program'[b]) = Len(program[b]) + 2 =>
         \E i \in DOMAIN program[b] :
           LET la == program'[b][i] access == program'[b][i + 1]
           IN  /\ la.type = "PseudoLoadAddress" /\ access.type = "Memory"
               /\ access.operands[2] = la.operands[1]
               /\ RemoveAt(RemoveAt(program'[b], i), i) = program[b]]_vars
=============================================================================
