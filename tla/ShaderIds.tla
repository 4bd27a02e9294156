------------------------------ MODULE ShaderIds ------------------------------
(***************************************************************************)
(* The shader recompiler (gpu/VulkanBackend.cpp): the ids it gives to what *)
(* it emits, and reg_to_id, the id that stands for each register of the    *)
(* guest program.                                                          *)
(*                                                                         *)
(* An instruction is the recipe of its case of the switch: allocate an id, *)
(* look up a register (which may allocate three), emit the instruction     *)
(* that defines the result, bind the destination.  The words that are      *)
(* emitted are left out: only the ids in them count.  The source repeats   *)
(* case labels; a recipe is that of the first case with its label.         *)
(*                                                                         *)
(* Beside the translation the guest program runs, as far as its registers  *)
(* go and until it first leaves the straight line: an instruction whose    *)
(* predicate holds writes its destination.  The translator decodes the     *)
(* predicate and ignores it, drops some instructions, and keeps predicates *)
(* among the registers: what it then binds is no longer what the guest     *)
(* has, and the register is adrift until it is written again.              *)
(***************************************************************************)
EXTENDS Naturals, Sequences

CONSTANTS
  Reg,              \* the registers that instructions name: 8-bit fields
  Bytes,            \* the low bytes of the instructions
  MaxInstructions   \* bound on the length of a program

ASSUME ShaderAssumption ==
  /\ Reg \subseteq 0 .. 255
  /\ Bytes \subseteq 0 .. 255
  /\ MaxInstructions \in Nat

VARIABLES
  next,        \* next_id
  binding,     \* reg_to_id
  value,       \* guest: what the registers it has written hold
  writes,      \* guest: registers written so far, to tell the values apart
  adrift,      \* guest: the registers reg_to_id does not follow
  lost,        \* guest: it has gone where reg_to_id does not follow
  defined,     \* ids an emitted instruction has as its result
  redefined,   \* those that several have
  insn,        \* the operands of the instruction
  recipe, at,  \* its recipe, and the step that is next
  result,      \* its result id, 0 when there is none pending
  konst,       \* the id of its constant
  pc,          \* instructions decoded
  bound        \* the bound in the header, 0 until it is written

guest == <<value, writes, adrift, lost>>
vars == <<next, binding, guest, defined, redefined, insn, recipe,
          at, result, konst, pc, bound>>

-----------------------------------------------------------------------------
\* The ids allocated before the first instruction, in order.
EntryPoint == 1
LastScalarType == EntryPoint + 7
LastVectorType == LastScalarType + 9
LastMatrixType == LastVectorType + 9
SamplerType == LastMatrixType + 1
LastImageType == SamplerType + 6
LastSampledType == LastImageType + 5
LastStorageType == LastSampledType + 3
LastPushId == LastStorageType + 3
LastInterfaceVariable == LastPushId + 6
LastDescriptor == LastInterfaceVariable + 6
OutputImage == LastDescriptor + 1
FunctionType == OutputImage + 2   \* after a second push constant variable
MainLabel == FunctionType + 1

-----------------------------------------------------------------------------
(* The recipes.  A step of a recipe is one of                              *)
(*   result   allocate the result id         temp   allocate an id and     *)
(*   define   emit the result                       emit its instruction   *)
(*   bind     reg_to_id[dst] = result        hole   allocate an id no      *)
(*   copy     reg_to_id[dst] =                      instruction defines    *)
(*            reg_to_id[src0]                const  temp, kept in konst    *)
(* or the operand to look up: src0, src1, src2, dst, or konst, the id of   *)
(* the constant taken for the number of a register.                        *)

Opcode(byte) == byte % 128

CopyOps == {\h00, \h03}
ConstantOps == {\h01, \h02}

IntegerOps == {\h10, \h12, \h13}
FloatOps == {\h20, \h21, \h22, \h23, \h24, \h25, \h30}
CompareOps == {\h50}
LogicOps == {\h60, \h61, \h62, \h70, \h71, \h72}
AtomicOps == {\h99, \h9B}
VectorFloatOps == {\hB6, \hB7, \hB8, \hBA, \hE0, \hE1, \hE2, \hE4}
VectorIntegerOps == {\hC4, \hC5, \hC6} \cup \hC8 .. \hCB
VectorCompareOps == \hCC .. \hD2
ShuffleVectorOps == {\hF3, \hF4, \hF5, \hF7, \hF8, \hF9}

BinaryOps == UNION {IntegerOps, FloatOps, CompareOps, LogicOps, AtomicOps,
                    VectorFloatOps, VectorIntegerOps, VectorCompareOps,
                    ShuffleVectorOps}

ScalarUnaryOps == {\h33, \h63} \cup \h40 .. \h43
LoadOps == {\h90} \cup \h92 .. \h96
VectorUnaryOps == {\hBC, \hBE, \hBF, \hC0, \hC1, \hE5}
VectorRoundOps == \hD3 .. \hD8
ConvertOps == \hD9 .. \hDE
DuplicateOps == {\hF0}

UnaryOps == UNION {ScalarUnaryOps, LoadOps, VectorUnaryOps, VectorRoundOps,
                   ConvertOps, DuplicateOps}

\* No id, no register: barriers, returns, breaks and what is not known.
WarpOps == {\h45, \h46} \cup \h48 .. \h4F
ControlOps == \h57 .. \h5D

BinaryImmediateOps == {\h11, \h15}
ReciprocalOps == {\h31}
MultiplyAddOps == {\h14, \h26, \hB9, \hC7, \hE3}
ReciprocalRootOps == {\h32, \h34}
JumpOps == {\h47} \cup \h52 .. \h56
IndirectJumpOps == {\h44}
StoreOps == {\h91, \h97}
TernaryOps == {\h9A, \hF6}
ShuffleLaneOps == {\h85, \h86}
PermuteOps == {\h87}
AtomicLogicOps == \h9C .. \hA0
AtomicStepOps == {\hA1, \hA2}
VectorReciprocalOps == {\hBB}
ReciprocalEstimateOps == {\hDF}
VectorRootOps == {\hBD, \hE7}
RecipStepOps == {\hE6}
RootStepOps == {\hE8}
MoveVectorOps == {\hF1, \hF2}
BitClearOps == {\hFA}
PlaceholderOps == \hFB .. \hFF \cup {\hC2, \hC3}

\* emitBinaryOp, and the cases that do the same.
Binary == <<"result", "src0", "src1", "define", "bind">>
\* emitUnaryOp.
Unary == <<"result", "src0", "define", "bind">>
\* The multiply-adds bind mul, which neither of the two instructions defines.
MultiplyAdd == <<"result", "temp", "src0", "src1", "temp", "src2", "bind">>

Recipe(op) ==
  CASE op \in BinaryOps -> Binary
    [] op \in UnaryOps -> Unary
    [] op \in MultiplyAddOps -> MultiplyAdd
    [] op \in CopyOps -> <<"src0", "copy">>
    [] op \in ConstantOps -> <<"result", "define", "bind">>
    [] op \in BinaryImmediateOps ->
         <<"const", "result", "src0", "konst", "define", "bind">>
    [] op \in ReciprocalOps -> <<"const", "result", "konst", "define", "bind">>
    [] op \in ReciprocalRootOps ->
         <<"hole", "temp", "src0", "result", "temp", "temp", "bind">>
    [] op \in JumpOps -> <<"hole">>
    [] op \in IndirectJumpOps -> <<"src0">>
    [] op \in StoreOps -> <<"dst", "src0">>
    [] op \in TernaryOps -> <<"result", "src0", "src1", "src2", "define", "bind">>
    [] op \in ShuffleLaneOps ->
         <<"result", "src1", "temp", "src0", "define", "bind">>
    [] op \in PermuteOps -> <<"result", "temp", "src0", "src1", "src2", "bind">>
    [] op \in AtomicLogicOps -> <<"result", "temp", "src0", "src1", "bind">>
    [] op \in AtomicStepOps -> <<"result", "src0", "temp", "define", "bind">>
    [] op \in VectorReciprocalOps \cup ReciprocalEstimateOps ->
         <<"result", "temp", "src0", "define", "bind">>
    [] op \in VectorRootOps ->
         <<"result", "temp", "temp", "src0", "define", "bind">>
    [] op \in RecipStepOps ->
         <<"result", "temp", "temp", "src0", "src1", "define", "bind">>
    [] op \in RootStepOps ->
         <<"result", "temp", "temp", "temp", "temp", "src0", "src1", "define", "bind">>
    [] op \in MoveVectorOps -> <<"result", "temp", "define", "bind">>
    [] op \in BitClearOps ->
         <<"result", "temp", "src1", "src0", "define", "bind">>
    [] op \in PlaceholderOps -> <<"result", "bind">>
    [] op \in WarpOps \cup ControlOps -> << >>
    [] OTHER -> << >>

-----------------------------------------------------------------------------
Init ==
  /\ next = MainLabel + 1
  /\ binding = << >>
  /\ value = << >> /\ writes = 0 /\ adrift = {} /\ lost = FALSE
  /\ defined = 1 .. MainLabel
  \* OpTypeSampler is emitted three times.
  /\ redefined = {SamplerType}
  /\ insn = [dst |-> 0, src0 |-> 0, src1 |-> 0, src2 |-> 0]
  /\ recipe = << >> /\ at = 1 /\ result = 0 /\ konst = 0
  /\ pc = 0 /\ bound = 0

Idle == at > Len(recipe)

(* The guest.                                                              *)

Move == \h00

\* What writes a general register, by the names the source gives its labels.
WriteOps == UNION {\h00 .. \h02, \h10 .. \h16, \h20 .. \h28, \h30 .. \h34,
                   \h40 .. \h43, \h60 .. \h63, \h70 .. \h72}

\* MOV predicate and SETP write a predicate.
PredicateOps == {\h03, \h50}

\* SSY and NOP.  What is left jumps, calls, returns, stops, or is unknown.
QuietOps == {\h48, \h4A, \h58, \h5A}

StraightOps == UNION {WriteOps, PredicateOps, QuietOps}

Holds(q) == IF q \in DOMAIN value THEN value[q] ELSE <<"initial", q>>

Writes(op, holds) == holds /\ op \in WriteOps

Binds(op) == \E i \in 1 .. Len(Recipe(op)) : Recipe(op)[i] \in {"bind", "copy"}

\* The translator binds what the guest writes.
Follows(op, s, holds) ==
  Writes(op, holds) /\ Binds(op) /\ (op = Move => s \notin adrift)

With(f, q, v) == [x \in DOMAIN f \cup {q} |-> IF x = q THEN v ELSE f[x]]

Execute(op, d, s, holds) ==
  /\ IF Writes(op, holds)
     THEN /\ value' = With(value, d, IF op = Move THEN Holds(s) ELSE <<"written", writes>>)
          /\ writes' = writes + 1
     ELSE UNCHANGED <<value, writes>>
  /\ adrift' = (adrift \ {d})
                 \cup {q \in {d} : /\ ~Follows(op, s, holds)
                                   /\ q \in adrift \/ Binds(op) \/ Writes(op, holds)}
  /\ lost' = (lost \/ (holds /\ op \notin StraightOps))

-----------------------------------------------------------------------------
(* The translator.                                                         *)

\* translateInstruction: src1 has the three bits left of the word; src2 is a
\* shift by more than its width, which may leave anything.  Of the predicate
\* and the condition code nothing is used.
Decode ==
  /\ Idle /\ bound = 0 /\ pc < MaxInstructions
  /\ \E byte \in Bytes, d, s0, s2 \in Reg, holds \in BOOLEAN : \E s1 \in Reg \cap 0 .. 7 :
       /\ insn' = [dst |-> d, src0 |-> s0, src1 |-> s1, src2 |-> s2]
       /\ recipe' = Recipe(Opcode(byte))
       /\ Execute(Opcode(byte), d, s0, holds)
  /\ at' = 1 /\ pc' = pc + 1
  /\ UNCHANGED <<next, binding, defined, redefined, result, konst, bound>>

Step(what) ==
  /\ ~Idle /\ recipe[at] = what
  /\ at' = at + 1 /\ UNCHANGED recipe

\* An instruction is emitted that has these ids as results.
Define(ids) ==
  /\ defined' = defined \cup ids
  /\ redefined' = redefined \cup (defined \cap ids)

AllocateResult ==
  /\ Step("result")
  /\ result' = next /\ next' = next + 1
  /\ UNCHANGED <<binding, guest, defined, redefined, insn, konst, pc, bound>>

AllocateTemp ==
  /\ Step("temp")
  /\ next' = next + 1 /\ Define({next})
  /\ UNCHANGED <<binding, guest, insn, result, konst, pc, bound>>

AllocateHole ==
  /\ Step("hole")
  /\ next' = next + 1
  /\ UNCHANGED <<binding, guest, defined, redefined, insn, result,
                 konst, pc, bound>>

\* getConst, getConstInt, getConstUInt.
EmitConstant ==
  /\ Step("const")
  /\ konst' = next /\ next' = next + 1 /\ Define({next})
  /\ UNCHANGED <<binding, guest, insn, result, pc, bound>>

\* Mutant: Bind that keeps the binding a register already has.
BindOnce(r, id) ==
  binding' = IF r \in DOMAIN binding THEN binding ELSE With(binding, r, id)

\* reg_to_id[r] = id.
Bind(r, id) == binding' = With(binding, r, id)

\* Mutant: getOrCreateVar that takes two ids and defines three.
CreateTwo(r) ==
  /\ r \notin DOMAIN binding
  /\ Bind(r, next)
  /\ Define({next + 1, next + 2})
  /\ next' = next + 2

\* getOrCreateVar of a register not met before: it stands for its own value.
\* A float type and a pointer type are emitted, never the variable.
Create(r) ==
  /\ r \notin DOMAIN binding
  /\ Bind(r, next)
  /\ Define({next + 1, next + 2})
  /\ next' = next + 3

Found(r) ==
  /\ r \in DOMAIN binding
  /\ UNCHANGED <<next, binding, defined, redefined>>

LookUp(what, r) ==
  /\ Step(what)
  /\ Found(r) \/ Create(r)
  /\ UNCHANGED <<guest, insn, result, konst, pc, bound>>

LookUpField == \E f \in {"dst", "src0", "src1", "src2"} : LookUp(f, insn[f])
LookUpConstant == LookUp("konst", konst)

DefineResult ==
  /\ Step("define")
  /\ Define({result})
  /\ UNCHANGED <<next, binding, guest, insn, result, konst, pc, bound>>

BindResult ==
  /\ Step("bind")
  /\ Bind(insn.dst, result)
  /\ result' = 0
  /\ UNCHANGED <<next, guest, defined, redefined, insn, konst, pc, bound>>

CopyBinding ==
  /\ Step("copy")
  /\ Bind(insn.dst, binding[insn.src0])
  /\ UNCHANGED <<next, guest, defined, redefined, insn, result, konst, pc, bound>>

\* The end of compileShader; it has answered false for an empty program.
Finish ==
  /\ Idle /\ pc > 0 /\ bound = 0
  /\ bound' = next + 10
  /\ UNCHANGED <<next, binding, guest, defined, redefined, insn, recipe,
                 at, result, konst, pc>>

Next ==
  \/ Decode \/ AllocateResult \/ AllocateTemp \/ AllocateHole \/ EmitConstant
  \/ LookUpField \/ LookUpConstant \/ DefineResult \/ BindResult \/ CopyBinding
  \/ Finish

Spec == Init /\ [][Next]_vars

-----------------------------------------------------------------------------
\* Ids, registers and counters stay in their ranges.
TypeOK ==
  /\ next \in Nat /\ writes \in Nat /\ pc \in 0 .. MaxInstructions
  /\ DOMAIN binding \subseteq Nat /\ DOMAIN value \subseteq Reg
  /\ adrift \subseteq Reg /\ lost \in BOOLEAN
  /\ \A r \in DOMAIN binding : binding[r] \in Nat
  /\ result \in Nat /\ konst \in Nat /\ bound \in Nat

\* Of all ids only the sampler type is the result of several instructions, and
\* every result is below the bound of the header: the operand lookups in the
\* middle of an instruction take ids after its own result was taken.
OneResultPerId ==
  /\ redefined = {SamplerType}
  /\ \A id \in defined : id < next /\ (bound # 0 => id < bound)

\* After each instruction two registers that are not adrift share an id exactly
\* when they hold the same value in the guest: after moves, overwrites and first
\* uses in any order, also of the registers whose number is the id of a constant
\* (IADD, IMUL and RCP look those up).  Of those adrift it says nothing: last
\* written under a predicate that did not hold, by an instruction the translator
\* drops (1088, 1633), as a predicate (1178, 1618), or moved from one of them;
\* nor of anything after a jump.
RenamingFollowsValues ==
  Idle /\ ~lost =>
    \A r, s \in DOMAIN binding \ adrift : binding[r] = binding[s] <=> Holds(r) = Holds(s)
=============================================================================
