--------------------------- MODULE ProgramProofs ---------------------------
(***************************************************************************)
(* Theorems about Program: for every configuration, any number of          *)
(* mutations leaves a program that assembles, and no block runs empty.     *)
(***************************************************************************)
EXTENDS Program, SequenceTheorems, TLAPS

(* What the operand of an instruction must be, told without the program: the
   labels of the blocks are those of the configuration. *)
Good(kind, v) ==
  CASE kind = "register" -> v \in (0 .. 31) \ {1, 2}
    [] kind = "label"    -> v \in Label
    [] kind = "imm12"    -> v \in -2048 .. 2047
    [] kind = "shamt"    -> v \in 0 .. 63 /\ (v < 32 \/ EnableRV64IM)
    [] kind = "uimm5"    -> v \in 0 .. 31
    [] kind = "uimm11"   -> v \in 0 .. 2047

GoodOperands(type) ==
  {operands \in Seq(Int) :
     /\ Len(operands) = Len(OperandKinds(type))
     /\ \A k \in 1 .. Len(operands) : Good(OperandKinds(type)[k], operands[k])}

GoodInsts ==
  {inst \in Instructions :
     /\ inst.type \in InstTypeList
     /\ inst.opcode \in RandomOpcode(inst.type)
     /\ inst.operands \in GoodOperands(inst.type)}

(* The inductive invariant: blocks are never empty and all their instructions
   are good ones. *)
GoodBlocks == {insts \in Seq(GoodInsts) : Len(insts) > 0}

ProgramInv ==
  /\ program \in [Label -> GoodBlocks]
  /\ block \in Label
  /\ mode \in Modes
  /\ left \in 0 .. MaxOperationCount
  /\ mode = "between" <=> left = 0
  /\ round \in 0 .. 2
  /\ applied \in Nat
  /\ applied + left <= round * MaxOperationCount

Kind == {"register", "label", "imm12", "shamt", "uimm5", "uimm11"}

----------------------------------------------------------------------------
(* Instructions.                                                           *)

(* Block 0 exists. *)
LEMMA LabelZero == 0 \in Label /\ Label \subseteq Int
  BY ConfigAssumption DEF Label

(* Each type of the configured list is an instruction type. *)
LEMMA ListedTypes == InstTypeList \subseteq InstType
  BY DEF InstTypeList, InstType

(* The kinds of operands of a type form a sequence of at most three. *)
LEMMA KindsOfType ==
  ASSUME NEW type \in InstType
  PROVE  /\ OperandKinds(type) \in Seq(Kind)
         /\ Len(OperandKinds(type)) \in 0 .. 3
         /\ DOMAIN OperandKinds(type) = 1 .. Len(OperandKinds(type))
         /\ \A k \in 1 .. Len(OperandKinds(type)) : OperandKinds(type)[k] \in Kind
<1>1. OperandKinds(type) \in Seq(Kind)
  <2>1. /\ \A a, b, c \in Kind : <<a, b, c>> \in Seq(Kind)
        /\ \A a, b \in Kind : <<a, b>> \in Seq(Kind)
        /\ << >> \in Seq(Kind)
    OBVIOUS
  <2>2. /\ "register" \in Kind /\ "label" \in Kind /\ "imm12" \in Kind
        /\ "shamt" \in Kind /\ "uimm5" \in Kind /\ "uimm11" \in Kind
    BY DEF Kind
  <2>3. \/ \E a, b, c \in Kind : OperandKinds(type) = <<a, b, c>>
        \/ \E a, b \in Kind : OperandKinds(type) = <<a, b>>
        \/ OperandKinds(type) = << >>
    BY <2>2, SMTT(30) DEF OperandKinds, InstType
  <2> QED
    BY <2>1, <2>3
<1>2. Len(OperandKinds(type)) \in 0 .. 3
  BY DEF OperandKinds, InstType
<1> QED
  BY <1>1, <1>2

(* A drawn operand is a good one (Instruction::random_operand). *)
LEMMA DrawnOperandIsGood ==
  ASSUME NEW kind \in Kind, NEW v \in RandomOperand(kind)
  PROVE  Good(kind, v) /\ v \in Int
<1>1. CASE kind = "register"
  BY <1>1 DEF RandomOperand, Good, RandomRegister, Rnd
<1>2. CASE kind = "label"
  BY <1>2, LabelZero DEF RandomOperand, Good, RandomLabel, Rnd, Label
<1>3. CASE kind = "imm12"
  <2>1. RandomOperand(kind) = Rnd(-2048, 2048) \cap Samples
    BY <1>3 DEF RandomOperand
  <2>2. v \in -2048 .. 2047
    BY <2>1 DEF Rnd
  <2>3. Good(kind, v) <=> (v \in -2048 .. 2047)
    BY <1>3 DEF Good
  <2> QED
    BY <2>2, <2>3
<1>4. CASE kind = "shamt"
  BY <1>4, ConfigAssumption DEF RandomOperand, Good, Rnd
<1>5. CASE kind = "uimm5"
  BY <1>5 DEF RandomOperand, Good, Rnd
<1>6. CASE kind = "uimm11"
  BY <1>6 DEF RandomOperand, Good, Rnd
<1> QED
  BY <1>1, <1>2, <1>3, <1>4, <1>5, <1>6 DEF Kind

(* Drawn operands are good ones (Instruction::random_operands). *)
LEMMA DrawnOperandsAreGood ==
  ASSUME NEW type \in InstType, NEW o \in RandomOperands(type)
  PROVE  o \in GoodOperands(type)
<1> DEFINE n == Len(OperandKinds(type))
<1>1. /\ n \in Nat /\ DOMAIN OperandKinds(type) = 1 .. n
      /\ \A k \in 1 .. n : OperandKinds(type)[k] \in Kind
  BY KindsOfType
<1>2. /\ o \in [1 .. n -> Samples \cup Label]
      /\ \A k \in 1 .. n : o[k] \in RandomOperand(OperandKinds(type)[k])
  BY <1>1 DEF RandomOperands, OperandAt
<1>3. o \in [1 .. n -> Int]
  BY <1>2, LabelZero, SamplesAssumption
<1>4. o \in Seq(Int) /\ Len(o) = n
  BY <1>1, <1>3
<1>5. \A k \in 1 .. n : Good(OperandKinds(type)[k], o[k])
  BY <1>1, <1>2, DrawnOperandIsGood
<1> QED
  BY <1>4, <1>5 DEF GoodOperands

(* An instruction put together from good parts is a good one. *)
LEMMA GoodParts ==
  ASSUME NEW type \in InstTypeList, NEW c \in RandomOpcode(type),
         NEW o \in GoodOperands(type)
  PROVE  Inst(type, c, o) \in GoodInsts
<1>1. type \in InstType
  BY ListedTypes
<1>2. c \in InstType \X Variants
  BY <1>1 DEF RandomOpcode
<1>3. o \in Seq(Int)
  BY DEF GoodOperands
<1> QED
  BY <1>1, <1>2, <1>3 DEF Inst, GoodInsts, Instructions

(* A drawn instruction is a good one (Instruction::Instruction). *)
LEMMA DrawnInstIsGood == RandomInst \subseteq GoodInsts
<1> SUFFICES ASSUME NEW t \in InstTypeList, NEW c \in RandomOpcode(t),
                    NEW o \in RandomOperands(t)
             PROVE  Inst(t, c, o) \in GoodInsts
  BY DEF RandomInst
<1>1. o \in GoodOperands(t)
  BY ListedTypes, DrawnOperandsAreGood
<1> QED
  BY <1>1, GoodParts

----------------------------------------------------------------------------
(* Sequences.                                                              *)

(* Inserting an element (std::vector::insert). *)
LEMMA InsertAtProperties ==
  ASSUME NEW S, NEW s \in Seq(S), NEW i \in 1 .. (Len(s) + 1), NEW e \in S
  PROVE  /\ InsertAt(s, i, e) \in Seq(S)
         /\ Len(InsertAt(s, i, e)) = Len(s) + 1
         /\ \A j \in 1 .. (Len(s) + 1) :
              InsertAt(s, i, e)[j] = IF j < i THEN s[j]
                                     ELSE IF j = i THEN e ELSE s[j - 1]
<1>0. Len(s) \in Nat /\ i \in Int
  OBVIOUS
<1>1. /\ SubSeq(s, 1, i - 1) \in Seq(S) /\ Len(SubSeq(s, 1, i - 1)) = i - 1
      /\ \A j \in 1 .. (i - 1) : SubSeq(s, 1, i - 1)[j] = s[j]
  OBVIOUS
<1>2. /\ SubSeq(s, i, Len(s)) \in Seq(S)
      /\ Len(SubSeq(s, i, Len(s))) = Len(s) - i + 1
      /\ \A j \in 1 .. (Len(s) - i + 1) : SubSeq(s, i, Len(s))[j] = s[i + j - 1]
  OBVIOUS
<1> DEFINE front == SubSeq(s, 1, i - 1)
           back == SubSeq(s, i, Len(s))
<1> HIDE DEF front, back
<1>3. /\ front \o <<e>> \in Seq(S) /\ Len(front \o <<e>>) = i
      /\ \A j \in 1 .. i : (front \o <<e>>)[j] = IF j < i THEN s[j] ELSE e
  BY <1>1 DEF front
<1>4. /\ back \in Seq(S) /\ Len(back) = Len(s) - i + 1
      /\ \A j \in 1 .. (Len(s) - i + 1) : back[j] = s[i + j - 1]
  BY <1>2 DEF back
<1> DEFINE pre == front \o <<e>>
<1> HIDE DEF pre
<1>5. /\ pre \in Seq(S) /\ Len(pre) = i /\ Len(pre) \in Nat
      /\ \A j \in 1 .. i : pre[j] = IF j < i THEN s[j] ELSE e
  BY <1>3 DEF pre
<1>6. pre \o back \in Seq(S) /\ Len(pre \o back) = Len(s) + 1
  BY <1>4, <1>5
<1>7. ASSUME NEW j \in 1 .. (Len(s) + 1)
      PROVE  (pre \o back)[j] = IF j < i THEN s[j]
                                 ELSE IF j = i THEN e ELSE s[j - 1]
  <2>0. j <= i \/ j > i
    BY <1>0
  <2>1. CASE j <= i
    BY <1>4, <1>5, <2>1
  <2>2. CASE j > i
    <3>1. (pre \o back)[j] = back[j - i]
      BY <1>4, <1>5, <2>2
    <3> QED
      BY <1>4, <2>2, <3>1
  <2> QED
    BY <2>0, <2>1, <2>2
<1>8. InsertAt(s, i, e) = pre \o back
  BY DEF InsertAt, pre, front, back
<1> QED
  BY <1>6, <1>7, <1>8

(* Removing an element (std::vector::erase). *)
LEMMA RemoveAtProperties ==
  ASSUME NEW S, NEW s \in Seq(S), NEW i \in 1 .. Len(s)
  PROVE  /\ RemoveAt(s, i) \in Seq(S)
         /\ Len(RemoveAt(s, i)) = Len(s) - 1
         /\ \A j \in 1 .. (Len(s) - 1) :
              RemoveAt(s, i)[j] = IF j < i THEN s[j] ELSE s[j + 1]
<1>0. Len(s) \in Nat /\ i \in Int
  OBVIOUS
<1>1. /\ SubSeq(s, 1, i - 1) \in Seq(S) /\ Len(SubSeq(s, 1, i - 1)) = i - 1
      /\ \A j \in 1 .. (i - 1) : SubSeq(s, 1, i - 1)[j] = s[j]
  OBVIOUS
<1>2. /\ SubSeq(s, i + 1, Len(s)) \in Seq(S)
      /\ Len(SubSeq(s, i + 1, Len(s))) = Len(s) - i
      /\ \A j \in 1 .. (Len(s) - i) : SubSeq(s, i + 1, Len(s))[j] = s[i + j]
  OBVIOUS
<1> DEFINE front == SubSeq(s, 1, i - 1)
           back == SubSeq(s, i + 1, Len(s))
<1>3. RemoveAt(s, i) = front \o back
  BY DEF RemoveAt
<1> HIDE DEF front, back
<1>4. /\ front \in Seq(S) /\ Len(front) = i - 1
      /\ \A j \in 1 .. (i - 1) : front[j] = s[j]
  BY <1>1 DEF front
<1>5. /\ back \in Seq(S) /\ Len(back) = Len(s) - i
      /\ \A j \in 1 .. (Len(s) - i) : back[j] = s[i + j]
  BY <1>2 DEF back
<1>6. front \o back \in Seq(S) /\ Len(front \o back) = Len(s) - 1
  BY <1>4, <1>5
<1>7. ASSUME NEW j \in 1 .. (Len(s) - 1)
      PROVE  (front \o back)[j] = IF j < i THEN s[j] ELSE s[j + 1]
  <2>0. j < i \/ j >= i
    BY <1>0
  <2>1. CASE j < i
    BY <1>4, <1>5, <2>1
  <2>2. CASE j >= i
    <3>1. (front \o back)[j] = back[j - (i - 1)]
      BY <1>4, <1>5, <2>2
    <3> QED
      BY <1>5, <2>2, <3>1
  <2> QED
    BY <2>0, <2>1, <2>2
<1> QED
  BY <1>3, <1>6, <1>7

(* Two elements inserted one behind the other are found there, and taking them
   out again leaves what there was (insert_memory_access_sequence). *)
LEMMA InsertedPair ==
  ASSUME NEW S, NEW s \in Seq(S), NEW i \in 1 .. Len(s), NEW la \in S, NEW access \in S
  PROVE  LET pair == AccessAfterLoad(s, i, la, access)
         IN  /\ pair[i] = la /\ pair[i + 1] = access
             /\ RemoveAt(RemoveAt(pair, i), i) = s
<1> DEFINE one == InsertAt(s, i, la)
           two == InsertAt(one, i + 1, access)
           back == RemoveAt(two, i)
           all == RemoveAt(back, i)
<1>0. /\ Len(s) \in Nat /\ i \in Int /\ 1 <= i /\ i <= Len(s)
      /\ i \in 1 .. (Len(s) + 1)
  OBVIOUS
<1>1. /\ one \in Seq(S) /\ Len(one) = Len(s) + 1
      /\ \A j \in 1 .. (Len(s) + 1) :
           one[j] = IF j < i THEN s[j] ELSE IF j = i THEN la ELSE s[j - 1]
  <2> SUFFICES ASSUME NEW j \in 1 .. (Len(s) + 1)
               PROVE  /\ one \in Seq(S) /\ Len(one) = Len(s) + 1
                      /\ one[j] = IF j < i THEN s[j]
                                  ELSE IF j = i THEN la ELSE s[j - 1]
    BY <1>0
  <2>1. one \in Seq(S) /\ Len(one) = Len(s) + 1
    BY <1>0, InsertAtProperties
  <2>2. one[j] = IF j < i THEN s[j] ELSE IF j = i THEN la ELSE s[j - 1]
    BY <1>0, InsertAtProperties
  <2> QED
    BY <2>1, <2>2
<1> HIDE DEF one
<1>2. /\ two \in Seq(S) /\ Len(two) = Len(s) + 2
      /\ \A j \in 1 .. (Len(s) + 2) :
           two[j] = IF j < i + 1 THEN one[j]
                    ELSE IF j = i + 1 THEN access ELSE one[j - 1]
  <2> SUFFICES ASSUME NEW j \in 1 .. (Len(s) + 2)
               PROVE  /\ two \in Seq(S) /\ Len(two) = Len(s) + 2
                      /\ two[j] = IF j < i + 1 THEN one[j]
                                  ELSE IF j = i + 1 THEN access ELSE one[j - 1]
    BY <1>0
  <2> DEFINE k == i + 1
  <2>1. k \in 1 .. (Len(one) + 1) /\ Len(one) + 1 = Len(s) + 2
    BY <1>0, <1>1
  <2> HIDE DEF k
  <2>2. InsertAt(one, k, access) \in Seq(S) /\ Len(InsertAt(one, k, access)) = Len(s) + 2
    BY <1>1, <2>1, InsertAtProperties
  <2>3. InsertAt(one, k, access)[j] =
          IF j < k THEN one[j] ELSE IF j = k THEN access ELSE one[j - 1]
    <3>1. j \in 1 .. (Len(one) + 1) /\ one \in Seq(S)
      BY <1>1, <2>1
    <3>2. k \in 1 .. (Len(one) + 1)
      BY <2>1
    <3> HIDE DEF two, back, all
    <3>3. \A l \in 1 .. (Len(one) + 1) :
            InsertAt(one, k, access)[l] =
              IF l < k THEN one[l] ELSE IF l = k THEN access ELSE one[l - 1]
      BY <3>1, <3>2, InsertAtProperties
    <3> QED
      BY <3>1, <3>3
  <2> QED
    BY <2>2, <2>3 DEF k
<1> HIDE DEF two
<1>3. /\ back \in Seq(S) /\ Len(back) = Len(s) + 1
      /\ \A j \in 1 .. (Len(s) + 1) : back[j] = IF j < i THEN two[j] ELSE two[j + 1]
  <2>1. i \in 1 .. Len(two) /\ Len(two) - 1 = Len(s) + 1
    BY <1>0, <1>2
  <2> QED
    BY <1>2, <2>1, RemoveAtProperties
<1> HIDE DEF back
<1>4. /\ all \in Seq(S) /\ Len(all) = Len(s)
      /\ \A j \in 1 .. Len(s) : all[j] = IF j < i THEN back[j] ELSE back[j + 1]
  <2>1. i \in 1 .. Len(back) /\ Len(back) - 1 = Len(s)
    BY <1>0, <1>3
  <2> QED
    BY <1>3, <2>1, RemoveAtProperties
<1> HIDE DEF all
<1>5. two[i] = la /\ two[i + 1] = access
  BY <1>0, <1>1, <1>2
<1>6. ASSUME NEW j \in 1 .. Len(s) PROVE all[j] = s[j]
  <2>1. CASE j < i
    BY <1>0, <1>1, <1>2, <1>3, <1>4, <2>1
  <2>2. CASE ~(j < i)
    <3>1. all[j] = back[j + 1] /\ back[j + 1] = two[j + 2]
      BY <1>0, <1>3, <1>4, <2>2
    <3>2. two[j + 2] = one[j + 1]
      BY <1>0, <1>2, <2>2
    <3>3. one[j + 1] = s[j]
      BY <1>0, <1>1, <2>2
    <3> QED
      BY <3>1, <3>2, <3>3
  <2> QED
    BY <2>1, <2>2
<1>7. all = s
  BY <1>0, <1>4, <1>6, SeqEqual
<1> QED
  BY <1>5, <1>7 DEF AccessAfterLoad, one, two, back, all

----------------------------------------------------------------------------
(* The operations on a block.                                              *)

(* Replacing an instruction by a good one keeps the block good. *)
LEMMA ReplacedInBlock ==
  ASSUME NEW insts \in GoodBlocks, NEW i \in DOMAIN insts, NEW inst \in GoodInsts
  PROVE  [insts EXCEPT ![i] = inst] \in GoodBlocks
  BY DEF GoodBlocks

(* What is known of an instruction of a good block. *)
LEMMA InstOfBlock ==
  ASSUME NEW insts \in GoodBlocks, NEW i \in DOMAIN insts
  PROVE  /\ insts[i] \in GoodInsts
         /\ insts[i].type \in InstTypeList /\ insts[i].type \in InstType
         /\ insts[i].opcode \in RandomOpcode(insts[i].type)
         /\ insts[i].operands \in GoodOperands(insts[i].type)
         /\ insts[i] = Inst(insts[i].type, insts[i].opcode, insts[i].operands)
<1>1. insts[i] \in GoodInsts
  BY DEF GoodBlocks
<1> QED
  BY <1>1, ListedTypes DEF GoodInsts, Instructions, Inst

(* Each operation on a good block gives good blocks: a swap, *)
LEMMA SwapKeeps ==
  ASSUME NEW insts \in GoodBlocks, NEW r \in SwapInst(insts)
  PROVE  r \in GoodBlocks
<1>1. PICK i \in DOMAIN insts, j \in DOMAIN insts :
        r = [insts EXCEPT ![i] = insts[j], ![j] = insts[i]]
  BY DEF SwapInst
<1>2. insts[i] \in GoodInsts /\ insts[j] \in GoodInsts
  BY InstOfBlock
<1> QED
  BY <1>1, <1>2 DEF GoodBlocks

(* another opcode of the same type, *)
LEMMA MutateOpcodeKeeps ==
  ASSUME NEW insts \in GoodBlocks, NEW r \in MutateOpcode(insts)
  PROVE  r \in GoodBlocks
<1>0. PICK i \in DOMAIN insts :
        r \in {[insts EXCEPT ![i].opcode = c] : c \in RandomOpcode(insts[i].type)}
  BY Zenon DEF MutateOpcode
<1>1. PICK c \in RandomOpcode(insts[i].type) :
        r = [insts EXCEPT ![i].opcode = c]
  BY <1>0, Zenon
<1>2. r = [insts EXCEPT ![i] = Inst(insts[i].type, c, insts[i].operands)]
  <2>1. [insts[i] EXCEPT !.opcode = c] = Inst(insts[i].type, c, insts[i].operands)
    BY InstOfBlock DEF Inst, GoodInsts, Instructions
  <2> QED
    BY <1>1, <2>1
<1>3. Inst(insts[i].type, c, insts[i].operands) \in GoodInsts
  BY InstOfBlock, GoodParts
<1> QED
  BY <1>2, <1>3, ReplacedInBlock

(* other operands, *)
LEMMA MutateOperandsKeeps ==
  ASSUME NEW insts \in GoodBlocks, NEW r \in MutateOperands(insts)
  PROVE  r \in GoodBlocks
<1>0. PICK i \in DOMAIN insts :
        r \in {[insts EXCEPT ![i].operands = o] :
                 o \in RandomOperands(insts[i].type)}
  BY Zenon DEF MutateOperands
<1>1. PICK o \in RandomOperands(insts[i].type) :
        r = [insts EXCEPT ![i].operands = o]
  BY <1>0, Zenon
<1>2. r = [insts EXCEPT ![i] = Inst(insts[i].type, insts[i].opcode, o)]
  <2>1. [insts[i] EXCEPT !.operands = o] = Inst(insts[i].type, insts[i].opcode, o)
    BY InstOfBlock DEF Inst, GoodInsts, Instructions
  <2> QED
    BY <1>1, <2>1
<1>3. Inst(insts[i].type, insts[i].opcode, o) \in GoodInsts
  BY InstOfBlock, DrawnOperandsAreGood, GoodParts
<1> QED
  BY <1>2, <1>3, ReplacedInBlock

(* one other operand, *)
LEMMA MutateOperandKeeps ==
  ASSUME NEW insts \in GoodBlocks, NEW r \in MutateOperand(insts)
  PROVE  r \in GoodBlocks
<1>1. CASE r = insts
  BY <1>1
<1>2. CASE r # insts
  <2> DEFINE ByOperand(i, k) == {[insts EXCEPT ![i].operands[k] = v] :
                                    v \in OperandAt(insts[i].type, k)}
             ByInst(i) == UNION {ByOperand(i, k) : k \in DOMAIN insts[i].operands}
  <2>a. PICK i \in DOMAIN insts :
          r \in IF insts[i].operands = <<>> THEN {insts} ELSE ByInst(i)
    BY Zenon DEF MutateOperand
  <2>b. r \in ByInst(i)
    BY <1>2, <2>a
  <2>c. PICK k \in DOMAIN insts[i].operands : r \in ByOperand(i, k)
    BY <2>b, Zenon
  <2>1. PICK v \in OperandAt(insts[i].type, k) :
          r = [insts EXCEPT ![i].operands[k] = v]
    BY <2>c, Zenon
  <2> DEFINE type == insts[i].type
             old == insts[i].operands
             new == [old EXCEPT ![k] = v]
  <2>2. /\ type \in InstType /\ type \in InstTypeList
        /\ old \in Seq(Int) /\ Len(old) = Len(OperandKinds(type))
        /\ \A n \in 1 .. Len(old) : Good(OperandKinds(type)[n], old[n])
    BY InstOfBlock DEF GoodOperands
  <2>3. Good(OperandKinds(type)[k], v) /\ v \in Int
    BY <2>1, <2>2, KindsOfType, DrawnOperandIsGood DEF OperandAt
  <2>4. new \in GoodOperands(type)
    BY <2>2, <2>3 DEF GoodOperands
  <2>5. r = [insts EXCEPT ![i] = Inst(type, insts[i].opcode, new)]
    <3>1. [insts[i] EXCEPT !.operands = new] = Inst(type, insts[i].opcode, new)
      <4> HIDE DEF new
      <4> QED
        BY InstOfBlock DEF Inst, GoodInsts, Instructions
    <3>2. r = [insts EXCEPT ![i] = [insts[i] EXCEPT !.operands = new]]
      BY <2>1
    <3> QED
      BY <3>1, <3>2
  <2>6. Inst(type, insts[i].opcode, new) \in GoodInsts
    BY <2>2, <2>4, InstOfBlock, GoodParts
  <2> QED
    BY <2>5, <2>6, ReplacedInBlock
<1> QED
  BY <1>1, <1>2

(* a mutation of one instruction or another, *)
LEMMA MutateInstKeeps ==
  ASSUME NEW insts \in GoodBlocks, NEW r \in MutateInst(insts)
  PROVE  r \in GoodBlocks
  BY DrawnInstIsGood, ReplacedInBlock DEF MutateInst

(* an insertion, *)
LEMMA InsertKeeps ==
  ASSUME NEW insts \in GoodBlocks, NEW i \in 1 .. (Len(insts) + 1),
         NEW inst \in GoodInsts
  PROVE  InsertAt(insts, i, inst) \in GoodBlocks
<1>1. insts \in Seq(GoodInsts) /\ Len(insts) \in Nat
  BY DEF GoodBlocks
<1> QED
  BY <1>1, InsertAtProperties DEF GoodBlocks

(* a removal, which leaves the last instruction. *)
LEMMA RemoveKeeps ==
  ASSUME NEW insts \in GoodBlocks, NEW r \in RemoveInst(insts)
  PROVE  r \in GoodBlocks
<1>1. insts \in Seq(GoodInsts) /\ Len(insts) \in Nat
  BY DEF GoodBlocks
<1>2. CASE Len(insts) > 1
  <2>1. PICK i \in DOMAIN insts : r = RemoveAt(insts, i)
    BY <1>2 DEF RemoveInst
  <2>2. r \in Seq(GoodInsts) /\ Len(r) = Len(insts) - 1
    BY <1>1, <2>1, RemoveAtProperties
  <2> QED
    BY <1>1, <1>2, <2>2 DEF GoodBlocks
<1>3. CASE ~(Len(insts) > 1)
  BY <1>3 DEF RemoveInst
<1> QED
  BY <1>2, <1>3

(* The pair that goes in: an address is loaded and accessed through the
   register it was loaded into. *)
LEMMA SequenceKeeps ==
  ASSUME NEW insts \in GoodBlocks, NEW r \in InsertMemoryAccessSequence(insts)
  PROVE  r \in GoodBlocks
<1>1. PICK i \in DOMAIN insts, c \in RandomOpcode("PseudoLoadAddress"),
           o \in RandomOperands("PseudoLoadAddress"),
           d \in RandomOpcode("Memory"), reg \in RandomOperand("register") :
        r = AccessAfterLoad(insts, i, Inst("PseudoLoadAddress", c, o),
                            Inst("Memory", d, <<reg, o[1], 0>>))
  BY DEF InsertMemoryAccessSequence, Access
<1> DEFINE la == Inst("PseudoLoadAddress", c, o)
           access == Inst("Memory", d, <<reg, o[1], 0>>)
<1>2. /\ "PseudoLoadAddress" \in InstType /\ "PseudoLoadAddress" \in InstTypeList
      /\ "Memory" \in InstTypeList
      /\ OperandKinds("PseudoLoadAddress") = <<"register", "uimm11">>
      /\ OperandKinds("Memory") = <<"register", "register", "uimm11">>
  BY DEF InstType, InstTypeList, OperandKinds
<1>3. o \in GoodOperands("PseudoLoadAddress")
  BY <1>2, DrawnOperandsAreGood
<1>4. la \in GoodInsts
  BY <1>2, <1>3, GoodParts
<1>5. Good("register", reg) /\ reg \in Int
  BY DrawnOperandIsGood DEF Kind
<1>6. Good("register", o[1]) /\ o[1] \in Int
  BY <1>2, <1>3 DEF GoodOperands
<1>7. Good("uimm11", 0)
  BY DEF Good
<1>8. <<reg, o[1], 0>> \in GoodOperands("Memory")
  BY <1>2, <1>5, <1>6, <1>7 DEF GoodOperands
<1>9. access \in GoodInsts
  BY <1>2, <1>8, GoodParts
<1>10. insts \in Seq(GoodInsts) /\ i \in 1 .. Len(insts)
  BY DEF GoodBlocks
<1>11. /\ InsertAt(insts, i, la) \in GoodBlocks
       /\ Len(InsertAt(insts, i, la)) = Len(insts) + 1
  <2> HIDE DEF la
  <2>1. Len(insts) \in Nat /\ i \in 1 .. (Len(insts) + 1)
    BY <1>10
  <2> QED
    BY <1>4, <1>10, <2>1, InsertKeeps, InsertAtProperties
<1>12. InsertAt(InsertAt(insts, i, la), i + 1, access) \in GoodBlocks
  BY <1>9, <1>10, <1>11, InsertKeeps
<1> QED
  BY <1>1, <1>12 DEF AccessAfterLoad

(* Every operation turns a good block into a good one (Block::mutate). *)
LEMMA OperationsKeep ==
  ASSUME NEW insts \in GoodBlocks, NEW op \in Operations,
         NEW r \in Results(op, insts)
  PROVE  r \in GoodBlocks
<1>1. CASE op = "swap_inst"
  BY <1>1, SwapKeeps DEF Results
<1>2. CASE op = "mutate_opcode"
  BY <1>2, MutateOpcodeKeeps DEF Results
<1>3. CASE op = "mutate_operands"
  BY <1>3, MutateOperandsKeeps DEF Results
<1>4. CASE op = "mutate_operand"
  BY <1>4, MutateOperandKeeps DEF Results
<1>5. CASE op = "mutate_inst"
  BY <1>5, MutateInstKeeps DEF Results
<1>6. CASE op = "insert_inst"
  <2>1. PICK i \in DOMAIN insts, inst \in RandomInst : r = InsertAt(insts, i, inst)
    BY <1>6 DEF Results, InsertInst
  <2>2. i \in 1 .. (Len(insts) + 1)
    BY DEF GoodBlocks
  <2> QED
    BY <2>1, <2>2, DrawnInstIsGood, InsertKeeps
<1>7. CASE op = "remove_inst"
  BY <1>7, RemoveKeeps DEF Results
<1>8. CASE op = "insert_memory_access_sequence"
  BY <1>8, SequenceKeeps DEF Results
<1> QED
  BY <1>1, <1>2, <1>3, <1>4, <1>5, <1>6, <1>7, <1>8 DEF Operations

(* No other operation adds two instructions (Block::mutate). *)
LEMMA OnlySequencesAddTwo ==
  ASSUME NEW insts \in GoodBlocks, NEW op \in Operations,
         NEW r \in Results(op, insts), Len(r) = Len(insts) + 2
  PROVE  op = "insert_memory_access_sequence"
<1>1. insts \in Seq(GoodInsts) /\ Len(insts) \in Nat /\ DOMAIN insts = 1 .. Len(insts)
  BY DEF GoodBlocks
<1>2. \A i \in DOMAIN insts : \A v : Len([insts EXCEPT ![i] = v]) = Len(insts)
  BY <1>1
<1>3. Len(insts) # Len(insts) + 2
  <2>1. \A n \in Nat : n # n + 2
    OBVIOUS
  <2> QED
    BY <1>1, <2>1
<1>4. CASE op = "swap_inst"
  <2>1. PICK i \in DOMAIN insts, j \in DOMAIN insts :
          r = [insts EXCEPT ![i] = insts[j], ![j] = insts[i]]
    BY <1>4 DEF Results, SwapInst
  <2>2. Len(r) = Len(insts)
    BY <1>1, <2>1
  <2> QED
    BY <1>3, <2>2
<1>5. CASE op = "mutate_opcode"
  <2>1. \E i \in DOMAIN insts : \E v : r = [insts EXCEPT ![i] = v]
    BY <1>5 DEF Results, MutateOpcode
  <2> QED
    BY <1>2, <1>3, <2>1
<1>6. CASE op = "mutate_operands"
  <2>1. \E i \in DOMAIN insts : \E v : r = [insts EXCEPT ![i] = v]
    BY <1>6 DEF Results, MutateOperands
  <2> QED
    BY <1>2, <1>3, <2>1
<1>7. CASE op = "mutate_operand"
  <2>1. r = insts \/ \E i \in DOMAIN insts : \E v : r = [insts EXCEPT ![i] = v]
    BY <1>7 DEF Results, MutateOperand
  <2> QED
    BY <1>2, <1>3, <2>1
<1>8. CASE op = "mutate_inst"
  <2>1. \E i \in DOMAIN insts : \E v : r = [insts EXCEPT ![i] = v]
    BY <1>8 DEF Results, MutateInst
  <2> QED
    BY <1>2, <1>3, <2>1
<1>9. CASE op = "insert_inst"
  <2>1. PICK i \in DOMAIN insts, inst \in RandomInst : r = InsertAt(insts, i, inst)
    BY <1>9 DEF Results, InsertInst
  <2>2. i \in 1 .. (Len(insts) + 1) /\ inst \in GoodInsts
    BY <1>1, DrawnInstIsGood
  <2>3. Len(r) = Len(insts) + 1
    BY <1>1, <2>1, <2>2, InsertAtProperties
  <2> QED
    BY <1>1, <2>3
<1>10. CASE op = "remove_inst"
  <2>1. r = insts \/ \E i \in DOMAIN insts : r = RemoveAt(insts, i)
    BY <1>10 DEF Results, RemoveInst
  <2>2. \A i \in DOMAIN insts : Len(RemoveAt(insts, i)) = Len(insts) - 1
    BY <1>1, RemoveAtProperties
  <2>3. Len(r) = Len(insts) \/ Len(r) = Len(insts) - 1
    BY <2>1, <2>2
  <2>4. \A n \in Nat : n - 1 # n + 2
    OBVIOUS
  <2> QED
    BY <1>1, <1>3, <2>3, <2>4
<1> QED
  BY <1>4, <1>5, <1>6, <1>7, <1>8, <1>9, <1>10 DEF Operations

(* What a memory access sequence leaves in the block: its two instructions one
   behind the other, the second one with the register of the first, and the
   others as they were. *)
LEMMA SequenceGoesInWhole ==
  ASSUME NEW insts \in GoodBlocks, NEW r \in InsertMemoryAccessSequence(insts)
  PROVE  \E i \in DOMAIN insts :
           /\ r[i].type = "PseudoLoadAddress" /\ r[i + 1].type = "Memory"
           /\ r[i + 1].operands[2] = r[i].operands[1]
           /\ RemoveAt(RemoveAt(r, i), i) = insts
<1>1. PICK i \in DOMAIN insts, c \in RandomOpcode("PseudoLoadAddress"),
           o \in RandomOperands("PseudoLoadAddress"),
           d \in RandomOpcode("Memory"), reg \in RandomOperand("register") :
        r = AccessAfterLoad(insts, i, Inst("PseudoLoadAddress", c, o),
                            Inst("Memory", d, <<reg, o[1], 0>>))
  BY DEF InsertMemoryAccessSequence, Access
<1> DEFINE la == Inst("PseudoLoadAddress", c, o)
           access == Inst("Memory", d, <<reg, o[1], 0>>)
           S == GoodInsts \cup {la, access}
<1>2. insts \in Seq(S) /\ i \in 1 .. Len(insts) /\ la \in S /\ access \in S
  BY DEF GoodBlocks
<1>3. /\ la.type = "PseudoLoadAddress" /\ la.operands[1] = o[1]
      /\ access.type = "Memory" /\ access.operands[2] = o[1]
  BY DEF Inst
<1>4. r = AccessAfterLoad(insts, i, la, access)
  BY <1>1
<1> HIDE DEF la, access, S
<1>5. /\ r[i] = la /\ r[i + 1] = access
      /\ RemoveAt(RemoveAt(r, i), i) = insts
  BY <1>2, <1>4, InsertedPair
<1> QED
  BY <1>3, <1>5

----------------------------------------------------------------------------
(* The invariant.                                                          *)

(* The initial programs are good. *)
LEMMA InvInit == Init => ProgramInv
<1> SUFFICES ASSUME Init PROVE ProgramInv
  OBVIOUS
<1>1. program \in [Label -> GoodBlocks]
  <2>1. InstPerBlock \in Nat \ {0}
    BY ConfigAssumption
  <2>2. [1 .. InstPerBlock -> RandomInst] \subseteq GoodBlocks
    BY <2>1, DrawnInstIsGood DEF GoodBlocks
  <2> QED
    BY <2>2 DEF Init
<1> QED
  BY <1>1, LabelZero, ConfigAssumption DEF Init, ProgramInv, Modes

(* Every step keeps the program good. *)
LEMMA InvStep == ProgramInv /\ [Next]_vars => ProgramInv'
<1> SUFFICES ASSUME ProgramInv, [Next]_vars PROVE ProgramInv'
  OBVIOUS
<1> USE DEF ProgramInv
<1>1. ASSUME NEW b \in Label, NEW m \in Operations \cup {"mixed"},
             NEW count \in 1 .. MaxOperationCount, StartRound(b, m, count)
      PROVE  ProgramInv'
  <2>1. m # "between" /\ m \in Modes
    BY DEF Operations, Modes
  <2>2. round' \in 0 .. 2
    BY <1>1 DEF StartRound, MayContinue
  <2>3. applied' + left' <= round' * MaxOperationCount
    <3>1. left = 0 /\ applied' = applied /\ left' = count
      BY <1>1 DEF StartRound
    <3>2. applied <= round * MaxOperationCount
      BY <3>1
    <3>3. CASE round = 0 /\ round' = 1
      BY <3>1, <3>2, <3>3, ConfigAssumption
    <3>4. CASE round = 1 /\ round' = 2
      BY <3>1, <3>2, <3>4, ConfigAssumption
    <3> QED
      BY <1>1, <3>3, <3>4 DEF StartRound, MayContinue
  <2> QED
    BY <1>1, <2>1, <2>2, <2>3, ConfigAssumption DEF StartRound
<1>2. ASSUME NEW op \in Operations, Operate(op) PROVE ProgramInv'
  <2>1. mode # "between"
    BY <1>2 DEF Operate, Operations
  <2>2. left \in 1 .. MaxOperationCount
    BY <2>1, ConfigAssumption
  <2>3. program' \in [Label -> GoodBlocks]
    <3>1. PICK insts \in Results(op, program[block]) :
            program' = [program EXCEPT ![block] = insts]
      BY <1>2 DEF Operate
    <3>2. insts \in GoodBlocks
      BY OperationsKeep
    <3> QED
      BY <3>1, <3>2
  <2>4. /\ left' \in 0 .. MaxOperationCount
        /\ mode' = "between" <=> left' = 0
        /\ mode' \in Modes
    BY <1>2, <2>1, <2>2, ConfigAssumption DEF Operate, Modes
  <2>5. block' \in Label /\ round' = round /\ applied' \in Nat
    BY <1>2, LabelZero DEF Operate
  <2>6. applied' + left' = applied + left
    BY <1>2, <2>2 DEF Operate
  <2> QED
    BY <2>3, <2>4, <2>5, <2>6
<1>3. CASE EndMutation
  <2>1. /\ left' = 0 /\ applied' = 0 /\ round' = 0
        /\ program' = program /\ block' = block /\ mode' = mode
    BY <1>3 DEF EndMutation
  <2>2. applied' + left' <= round' * MaxOperationCount
    BY <2>1, ConfigAssumption
  <2> QED
    BY <1>3, <2>1, <2>2, ConfigAssumption DEF EndMutation
<1>4. CASE UNCHANGED vars
  BY <1>4 DEF vars
<1> QED
  BY <1>1, <1>2, <1>3, <1>4 DEF Next

(* Every block keeps at least one instruction and good ones only, through any
   number of mutations (Program::mutate). *)
THEOREM ProgramInvariant == Spec => []ProgramInv
  BY InvInit, InvStep, PTL DEF Spec

----------------------------------------------------------------------------
(* The results.                                                            *)

(* The type invariant (class Program). *)
THEOREM ProgramTypeCorrect == Spec => []TypeOK
<1>1. GoodBlocks \subseteq Seq(Instructions)
  BY DEF GoodBlocks, GoodInsts
<1>2. ProgramInv => TypeOK
  BY <1>1 DEF ProgramInv, TypeOK
<1> QED
  BY <1>2, ProgramInvariant, PTL

(* For any configuration and any sequence of mutations every instruction can
   be assembled and every branch has its target (Block::mutate). *)
THEOREM EveryMutantAssembles == Spec => []ProgramAssembles
<1>1. ASSUME ProgramInv, NEW b \in DOMAIN program, NEW i \in DOMAIN program[b]
      PROVE  WellFormed(program[b][i])
  <2> DEFINE inst == program[b][i]
  <2>1. program[b] \in GoodBlocks /\ DOMAIN program = Label
    BY <1>1 DEF ProgramInv
  <2>2. /\ inst.type \in InstTypeList
        /\ inst.opcode \in RandomOpcode(inst.type)
        /\ inst.operands \in GoodOperands(inst.type)
    BY <2>1, InstOfBlock
  <2>3. ASSUME NEW kind \in Kind, NEW v, Good(kind, v) PROVE Legal(kind, v)
    BY <2>1, <2>3 DEF Good, Legal, Kind
  <2>4. \A k \in 1 .. Len(inst.operands) : OperandKinds(inst.type)[k] \in Kind
    BY <2>2, ListedTypes, KindsOfType DEF GoodOperands
  <2> QED
    BY <2>2, <2>3, <2>4 DEF WellFormed, GoodOperands
<1>2. ProgramInv => ProgramAssembles
  BY <1>1 DEF ProgramAssembles
<1> QED
  BY <1>2, ProgramInvariant, PTL

(* No sequence of removals empties a block, so every draw of an index is
   defined (Block::remove_inst and all the operations). *)
THEOREM NoDrawFromNothing == Spec => []NoBlockRunsEmpty
<1>1. ProgramInv => NoBlockRunsEmpty
  BY DEF ProgramInv, NoBlockRunsEmpty, GoodBlocks
<1> QED
  BY <1>1, ProgramInvariant, PTL
(* Whatever the configuration, a block only grows by two instructions at once
   by a load of an address and the access through its register, which stay
   together (Block::insert_memory_access_sequence). *)
THEOREM AccessesFollowTheirLoads == Spec => AccessFollowsItsLoad
<1> DEFINE Whole(b) ==
      Len(program'[b]) = Len(program[b]) + 2 =>
        \E i \in DOMAIN program[b] :
          LET la == program'[b][i] access == program'[b][i + 1]
          IN  /\ la.type = "PseudoLoadAddress" /\ access.type = "Memory"
              /\ access.operands[2] = la.operands[1]
              /\ RemoveAt(RemoveAt(program'[b], i), i) = program[b]
<1>1. ASSUME ProgramInv, Next, NEW b \in Label PROVE Whole(b)
  <2> SUFFICES ASSUME Len(program'[b]) = Len(program[b]) + 2
               PROVE  Whole(b)
    OBVIOUS
  <2>1. program[b] \in GoodBlocks /\ Len(program[b]) \in Nat
    BY <1>1 DEF ProgramInv, GoodBlocks
  <2>2. program'[b] # program[b]
    BY <2>1
  <2>3. PICK op \in Operations : Operate(op)
    BY <1>1, <2>2 DEF Next, StartRound, EndMutation
  <2>4. PICK insts \in Results(op, program[block]) :
          program' = [program EXCEPT ![block] = insts]
    BY <2>3 DEF Operate
  <2>5. b = block /\ program'[b] = insts
    BY <1>1, <2>2, <2>4 DEF ProgramInv
  <2>6. op = "insert_memory_access_sequence"
    BY <2>1, <2>5, OnlySequencesAddTwo
  <2>7. insts \in InsertMemoryAccessSequence(program[b])
    BY <2>4, <2>5, <2>6 DEF Results
  <2> QED
    BY <2>1, <2>5, <2>7, SequenceGoesInWhole
<1>2. ProgramInv /\ [Next]_vars => [\A b \in Label : Whole(b)]_vars
  BY <1>1
<1> QED
  BY <1>2, ProgramInvariant, PTL DEF Spec, AccessFollowsItsLoad

=============================================================================
