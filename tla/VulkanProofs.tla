---------------------------- MODULE VulkanProofs ----------------------------
(***************************************************************************)
(* Proofs about the Vulkan backend: ShaderIds, for any registers, any      *)
(* opcodes and programs of any length, and VulkanFrames, for any number of *)
(* images, frames and shaders.  The two share no state.                    *)
(***************************************************************************)
EXTENDS ShaderIds, VulkanFrames, SequenceTheorems, TLAPS

-----------------------------------------------------------------------------
(* ShaderIds.  In every recipe the result id is allocated before it is      *)
(* defined and defined before it is bound, each at most once; what is left  *)
(* of a recipe keeps that shape, so a result that is pending is bound to no *)
(* register yet and no instruction defines it yet.  Between the instruction *)
(* the guest has executed and the step that binds its destination the       *)
(* destination is unsettled; all other registers that are not adrift share  *)
(* an id exactly when they hold the same value, all the time.               *)

At(t, what, i) == i \in 1 .. Len(t) /\ t[i] = what
Has(t, what) == \E i \in Nat : At(t, what, i)

\* The result is allocated, defined and bound in that order, and defined and
\* bound once; what copies does so once and binds no result.
Shape(t) ==
  /\ Len(t) \in Nat
  /\ \A i, j \in Nat : At(t, "bind", i) /\ At(t, "bind", j) => i = j
  /\ \A i, j \in Nat : At(t, "define", i) /\ At(t, "define", j) => i = j
  /\ \A i, j \in Nat : At(t, "define", i) /\ At(t, "bind", j) => i < j
  /\ \A i, j \in Nat : At(t, "result", i) /\ At(t, "define", j) => i < j
  /\ \A i, j \in Nat : At(t, "result", i) /\ At(t, "bind", j) => i < j
  /\ \A i, j \in Nat : At(t, "src0", i) /\ At(t, "copy", j) => i < j
  /\ Has(t, "define") \/ Has(t, "bind") => Has(t, "result")
  /\ Has(t, "copy") => Has(t, "src0") /\ ~Has(t, "bind")
  /\ \A i, j \in Nat : At(t, "copy", i) /\ At(t, "copy", j) => i = j

LEMMA RecipeShape == \A op : Shape(Recipe(op))
<1>1. Shape(<< >>) /\ Shape(Binary) /\ Shape(Unary)
  <2>1. Shape(<< >>)
    BY DEF Shape, Has, At
  <2>2. Shape(Binary)
    BY DEF Shape, Has, At, Binary
  <2>3. Shape(Unary)
    BY DEF Shape, Has, At, Unary
  <2> QED
    BY <2>1, <2>2, <2>3
<1>2. Shape(MultiplyAdd)
  BY DEF Shape, Has, At, MultiplyAdd
<1>3. Shape(<<"src0", "copy">>) /\ Shape(<<"hole">>) /\ Shape(<<"src0">>)
  BY DEF Shape, Has, At
<1>4. Shape(<<"dst", "src0">>) /\ Shape(<<"result", "bind">>)
  BY DEF Shape, Has, At
<1>5. Shape(<<"result", "define", "bind">>)
  BY DEF Shape, Has, At
<1>6. Shape(<<"const", "result", "src0", "konst", "define", "bind">>)
  BY DEF Shape, Has, At
<1>7. Shape(<<"const", "result", "konst", "define", "bind">>)
  BY DEF Shape, Has, At
<1>8. Shape(<<"hole", "temp", "src0", "result", "temp", "temp", "bind">>)
  BY DEF Shape, Has, At
<1>9. Shape(<<"result", "src0", "src1", "src2", "define", "bind">>)
  BY DEF Shape, Has, At
<1>10. Shape(<<"result", "src1", "temp", "src0", "define", "bind">>)
  BY DEF Shape, Has, At
<1>11. Shape(<<"result", "temp", "src0", "src1", "src2", "bind">>)
  BY DEF Shape, Has, At
<1>12. Shape(<<"result", "temp", "src0", "src1", "bind">>)
  BY DEF Shape, Has, At
<1>13. Shape(<<"result", "src0", "temp", "define", "bind">>)
  BY DEF Shape, Has, At
<1>14. Shape(<<"result", "temp", "src0", "define", "bind">>)
  BY DEF Shape, Has, At
<1>15. Shape(<<"result", "temp", "temp", "src0", "define", "bind">>)
  BY DEF Shape, Has, At
<1>16. Shape(<<"result", "temp", "temp", "src0", "src1", "define", "bind">>)
  BY DEF Shape, Has, At
<1>17. Shape(<<"result", "temp", "temp", "temp", "temp", "src0", "src1",
               "define", "bind">>)
  BY DEF Shape, Has, At
<1>18. Shape(<<"result", "temp", "define", "bind">>)
  BY DEF Shape, Has, At
<1>19. Shape(<<"result", "temp", "src1", "src0", "define", "bind">>)
  BY DEF Shape, Has, At
<1> QED
  BY ONLY <1>1, <1>2, <1>3, <1>4, <1>5, <1>6, <1>7, <1>8, <1>9, <1>10, <1>11,
          <1>12, <1>13, <1>14, <1>15, <1>16, <1>17, <1>18, <1>19 DEF Recipe

\* What MOV does to reg_to_id is a copy.
LEMMA MoveCopies == Recipe(Move) = <<"src0", "copy">>
<1>1. Move \in CopyOps
  BY DEF Move, CopyOps
<1>2. Move \notin BinaryOps
  BY DEF Move, BinaryOps, IntegerOps, FloatOps, CompareOps, LogicOps, AtomicOps,
         VectorFloatOps, VectorIntegerOps, VectorCompareOps, ShuffleVectorOps
<1>3. Move \notin UnaryOps
  BY DEF Move, UnaryOps, ScalarUnaryOps, LoadOps, VectorUnaryOps, VectorRoundOps,
         ConvertOps, DuplicateOps
<1>4. Move \notin UNION {MultiplyAddOps, ConstantOps, BinaryImmediateOps, ReciprocalOps,
                         ReciprocalRootOps, JumpOps, IndirectJumpOps, StoreOps, TernaryOps}
  BY DEF Move, MultiplyAddOps, ConstantOps, BinaryImmediateOps, ReciprocalOps,
         ReciprocalRootOps, JumpOps, IndirectJumpOps, StoreOps, TernaryOps
<1>5. Move \notin UNION {ShuffleLaneOps, PermuteOps, AtomicLogicOps, AtomicStepOps,
                         VectorReciprocalOps, ReciprocalEstimateOps, VectorRootOps,
                         RecipStepOps, RootStepOps, MoveVectorOps, BitClearOps,
                         PlaceholderOps, WarpOps, ControlOps}
  BY DEF Move, ShuffleLaneOps, PermuteOps, AtomicLogicOps, AtomicStepOps,
         VectorReciprocalOps, ReciprocalEstimateOps, VectorRootOps, RecipStepOps,
         RootStepOps, MoveVectorOps, BitClearOps, PlaceholderOps, WarpOps, ControlOps
<1> QED
  BY <1>1, <1>2, <1>3, <1>4, <1>5, Zenon DEF Recipe

WithoutCopy(t) == Len(t) \in Nat /\ ~Has(t, "copy")

\* Only the copying instructions have a copy in their recipes.
LEMMA CopiesAreOfCopyOps == \A op : op \in CopyOps \/ WithoutCopy(Recipe(op))
<1>1. WithoutCopy(<< >>) /\ WithoutCopy(Binary) /\ WithoutCopy(Unary)
      /\ WithoutCopy(MultiplyAdd) /\ WithoutCopy(<<"hole">>) /\ WithoutCopy(<<"src0">>)
  BY DEF WithoutCopy, Has, At, Binary, Unary, MultiplyAdd
<1>2. WithoutCopy(<<"dst", "src0">>) /\ WithoutCopy(<<"result", "bind">>)
      /\ WithoutCopy(<<"result", "define", "bind">>)
      /\ WithoutCopy(<<"const", "result", "src0", "konst", "define", "bind">>)
      /\ WithoutCopy(<<"const", "result", "konst", "define", "bind">>)
      /\ WithoutCopy(<<"hole", "temp", "src0", "result", "temp", "temp", "bind">>)
  BY DEF WithoutCopy, Has, At
<1>3. WithoutCopy(<<"result", "src0", "src1", "src2", "define", "bind">>)
      /\ WithoutCopy(<<"result", "src1", "temp", "src0", "define", "bind">>)
      /\ WithoutCopy(<<"result", "temp", "src0", "src1", "src2", "bind">>)
      /\ WithoutCopy(<<"result", "temp", "src0", "src1", "bind">>)
      /\ WithoutCopy(<<"result", "src0", "temp", "define", "bind">>)
      /\ WithoutCopy(<<"result", "temp", "src0", "define", "bind">>)
  BY DEF WithoutCopy, Has, At
<1>4. WithoutCopy(<<"result", "temp", "temp", "src0", "define", "bind">>)
      /\ WithoutCopy(<<"result", "temp", "temp", "src0", "src1", "define", "bind">>)
      /\ WithoutCopy(<<"result", "temp", "temp", "temp", "temp", "src0", "src1",
                       "define", "bind">>)
      /\ WithoutCopy(<<"result", "temp", "define", "bind">>)
      /\ WithoutCopy(<<"result", "temp", "src1", "src0", "define", "bind">>)
  BY DEF WithoutCopy, Has, At
<1> QED
  BY ONLY <1>1, <1>2, <1>3, <1>4 DEF Recipe
-----------------------------------------------------------------------------
(* The inductive invariant.                                                *)

Operands == [dst : Nat, src0 : Nat, src1 : Nat, src2 : Nat]

Typed ==
  /\ next \in Nat /\ writes \in Nat /\ pc \in 0 .. MaxInstructions
  /\ DOMAIN binding \subseteq Nat /\ DOMAIN value \subseteq Reg
  /\ adrift \subseteq Reg /\ lost \in BOOLEAN
  /\ result \in Nat /\ konst \in Nat /\ bound \in Nat
  /\ Len(recipe) \in Nat /\ at \in Nat \ {0}
  /\ insn \in Operands

\* Every id is below next, and a pending result is bound to no register.
Numbered ==
  /\ \A r \in DOMAIN binding :
       binding[r] \in Nat /\ 0 < binding[r] /\ binding[r] < next /\ binding[r] # result
  /\ 0 < next /\ result < next
  /\ \A id \in defined : id \in Nat /\ id < next

Ahead(w, i) == i \in Nat /\ i >= at /\ At(recipe, w, i)
WillAllocate == \E j : Ahead("result", j)

\* A definition or a binding that is ahead has its result, or will have it.
Pending ==
  /\ Shape(recipe)
  /\ \A i : Ahead("define", i) => WillAllocate \/ (result # 0 /\ result \notin defined)
  /\ \A i : Ahead("bind", i) => WillAllocate \/ result # 0
  /\ \A i : Ahead("copy", i) => \/ \E j : Ahead("src0", j)
                                \/ insn.src0 \in DOMAIN binding

Closed == bound # 0 => Idle /\ bound = next + 10

BindAhead == \E i : Ahead("bind", i)
CopyAhead == \E i : Ahead("copy", i)

\* The destination, from the guest's write to the step that binds it.
Unsettled == {q \in {insn.dst} : BindAhead \/ (CopyAhead /\ insn.src0 # q)}

Followed == DOMAIN binding \ (adrift \cup Unsettled)

Renamed == \A r, s \in Followed : binding[r] = binding[s] <=> Holds(r) = Holds(s)

\* A register whose first value is anywhere has an id, and one that has none
\* still holds its first value.
Met ==
  /\ \A q \in Followed : \A p : Holds(q) = <<"initial", p>> => p \in DOMAIN binding
  /\ \A q \in DOMAIN value \ (DOMAIN binding \cup adrift \cup Unsettled) :
       Holds(q) = <<"initial", q>>

\* No register holds a value before it is made.
Made == \A r \in DOMAIN value : \A n \in Nat : value[r] = <<"written", n>> => n < writes

\* What the destination will hold when it is bound.
Destination ==
  insn.dst \notin adrift =>
    /\ BindAhead => /\ Holds(insn.dst) = <<"written", writes - 1>>
                    /\ \A q \in Followed : Holds(q) # Holds(insn.dst)
    /\ CopyAhead => Holds(insn.dst) = Holds(insn.src0) /\ insn.src0 \notin adrift

GuestInv == Renamed /\ Met /\ Made /\ Destination

IInv ==
  /\ Typed /\ Numbered /\ Pending /\ Closed
  /\ redefined = {SamplerType} /\ GuestInv

LEMMA InitInv == Init => IInv
<1> SUFFICES ASSUME Init PROVE IInv
  OBVIOUS
<1>1. MainLabel \in Nat /\ MainLabel = 60
  BY DEF MainLabel, FunctionType, OutputImage, LastDescriptor, LastInterfaceVariable,
         LastPushId, LastStorageType, LastSampledType, LastImageType, SamplerType,
         LastMatrixType, LastVectorType, LastScalarType, EntryPoint
<1>2. Typed /\ Numbered /\ Closed
  <2>1. DOMAIN binding = {} /\ DOMAIN value = {}
    BY DEF Init
  <2>2. /\ next = 61 /\ writes = 0 /\ pc = 0 /\ pc \in 0 .. MaxInstructions
        /\ result = 0 /\ konst = 0 /\ bound = 0 /\ lost = FALSE /\ adrift = {}
        /\ recipe = << >> /\ at = 1 /\ insn \in Operands /\ defined = 1 .. 60
    BY <1>1, ShaderAssumption DEF Init, Operands
  <2>3. Typed
    <3>1. Len(recipe) \in Nat /\ at \in Nat \ {0}
      BY <2>2
    <3>2. lost \in BOOLEAN
      BY <2>2
    <3>3. DOMAIN binding \subseteq Nat /\ DOMAIN value \subseteq Reg /\ adrift \subseteq Reg
      BY <2>1, <2>2
    <3> QED
      BY <2>2, <3>1, <3>2, <3>3 DEF Typed
  <2>4. Numbered /\ Closed
    BY <2>1, <2>2 DEF Numbered, Closed
  <2> QED
    BY <2>3, <2>4
<1>3. Shape(<< >>)
  BY DEF Shape, Has, At
<1>4. Pending /\ ~BindAhead /\ ~CopyAhead
  BY <1>3 DEF Init, Pending, BindAhead, CopyAhead, Ahead, At
<1>5. GuestInv
  BY <1>4 DEF Init, GuestInv, Renamed, Met, Made, Destination, Followed
<1> QED
  BY <1>2, <1>4, <1>5 DEF Init, IInv

-----------------------------------------------------------------------------
(* One step of a recipe.                                                   *)

LEMMA Advance ==
  ASSUME Typed, NEW what, Step(what)
  PROVE  /\ recipe' = recipe /\ at' = at + 1 /\ at \in Nat
         /\ Ahead(what, at) /\ at' \in Nat \ {0} /\ ~Idle
         /\ \A w, i : Ahead(w, i)' => Ahead(w, i) /\ i > at
         /\ \A w, i : Ahead(w, i) /\ w # what => Ahead(w, i)'
<1>1. /\ recipe' = recipe /\ at' = at + 1 /\ at \in Nat /\ at' \in Nat \ {0}
      /\ ~Idle /\ recipe[at] = what
  BY DEF Typed, Step
<1>2. Ahead(what, at)
  BY <1>1 DEF Idle, Ahead, At, Typed
<1>3. \A w, i : Ahead(w, i)' => Ahead(w, i) /\ i > at
  BY <1>1 DEF Ahead, At
<1>4. \A w, i : Ahead(w, i) /\ w # what => Ahead(w, i)'
  BY <1>1 DEF Ahead, At
<1> QED
  BY <1>1, <1>2, <1>3, <1>4

\* A step that allocates no result and defines and binds no result leaves what
\* is pending as it is.
LEMMA PendingKept ==
  ASSUME Typed, Pending, NEW what, Step(what), what # "result",
         insn' = insn, result' = result,
         DOMAIN binding \subseteq DOMAIN binding',
         result # 0 /\ result \notin defined => result \notin defined',
         what = "src0" => insn.src0 \in DOMAIN binding'
  PROVE  Pending'
<1>1. WillAllocate => WillAllocate'
  BY Advance DEF WillAllocate
<1>2. \A i : Ahead("define", i)' => WillAllocate' \/ (result' # 0 /\ result' \notin defined')
  BY <1>1, Advance DEF Pending
<1>3. \A i : Ahead("bind", i)' => WillAllocate' \/ result' # 0
  BY <1>1, Advance DEF Pending
<1>4. \A i : Ahead("copy", i)' => \/ \E j : Ahead("src0", j)'
                                  \/ insn'.src0 \in DOMAIN binding'
  <2> SUFFICES ASSUME NEW i, Ahead("copy", i)'
               PROVE  (\E j : Ahead("src0", j)') \/ insn'.src0 \in DOMAIN binding'
    OBVIOUS
  <2>1. (\E j : Ahead("src0", j)) \/ insn.src0 \in DOMAIN binding
    BY Advance DEF Pending
  <2> QED
    BY <2>1, Advance
<1> QED
  BY <1>2, <1>3, <1>4, Advance DEF Pending

\* Steps that leave the registers, and what is ahead of them, as they are.
LEMMA GuestSame ==
  ASSUME GuestInv, UNCHANGED <<binding, value, writes, adrift, insn>>,
         BindAhead' <=> BindAhead, CopyAhead' <=> CopyAhead
  PROVE  GuestInv'
<1>1. Unsettled' = Unsettled
  BY DEF Unsettled
<1>2. Followed' = Followed
  BY <1>1 DEF Followed
<1>3. Renamed' /\ Made'
  BY <1>2 DEF GuestInv, Renamed, Made, Holds
<1>4. Met'
  BY <1>1, <1>2 DEF GuestInv, Met, Holds
<1>5. Destination'
  BY <1>2 DEF GuestInv, Destination, Holds
<1> QED
  BY <1>3, <1>4, <1>5 DEF GuestInv

LEMMA GuestStep ==
  ASSUME GuestInv, Typed, NEW what, Step(what), what \notin {"bind", "copy"},
         UNCHANGED <<binding, value, writes, adrift, insn>>
  PROVE  GuestInv'
<1>1. (BindAhead' <=> BindAhead) /\ (CopyAhead' <=> CopyAhead)
  BY Advance DEF BindAhead, CopyAhead
<1> QED
  BY <1>1, GuestSame

\* One register may change, to an id and a value that are both new or are both
\* those of another register.
LEMMA FollowOne ==
  ASSUME Renamed, NEW d,
         \A q \in Followed' :
           q = d \/ (q \in Followed /\ binding'[q] = binding[q] /\ Holds(q)' = Holds(q)),
         d \in Followed' =>
           \/ \A q \in Followed : binding[q] # binding'[d] /\ Holds(q) # Holds(d)'
           \/ \E q \in Followed : binding[q] = binding'[d] /\ Holds(q) = Holds(d)'
  PROVE  Renamed'
<1> SUFFICES ASSUME NEW p \in Followed', NEW q \in Followed'
             PROVE  binding'[p] = binding'[q] <=> Holds(p)' = Holds(q)'
  BY DEF Renamed
<1>1. CASE p = d /\ q = d
  BY <1>1
<1>2. CASE p # d /\ q # d
  BY <1>2 DEF Renamed
<1>3. CASE p = d /\ q # d
  BY <1>3 DEF Renamed
<1>4. CASE p # d /\ q = d
  BY <1>4 DEF Renamed
<1> QED
  BY <1>1, <1>2, <1>3, <1>4

-----------------------------------------------------------------------------
(* Every action preserves the invariant.                                   *)

LEMMA DecodeGuest ==
  ASSUME IInv, NEW op, NEW d \in Reg, NEW s \in Reg, NEW holds \in BOOLEAN,
         Idle, Execute(op, d, s, holds), recipe' = Recipe(op), at' = 1,
         insn'.dst = d, insn'.src0 = s, UNCHANGED binding
  PROVE  GuestInv'
<1>1. Unsettled = {}
  BY DEF Unsettled, BindAhead, CopyAhead, Idle, Ahead, At, IInv, Typed
<1>2. Shape(Recipe(op)) /\ Len(Recipe(op)) \in Nat
  BY RecipeShape DEF Shape
<1>3. /\ BindAhead' <=> Has(Recipe(op), "bind")
      /\ CopyAhead' <=> Has(Recipe(op), "copy")
  BY <1>2 DEF BindAhead, CopyAhead, Has, Ahead, At
<1>4. Binds(op) <=> BindAhead' \/ CopyAhead'
  BY <1>2, <1>3 DEF Binds, Has, At
<1>5. CopyAhead' => op \in CopyOps /\ ~BindAhead'
  BY <1>2, <1>3, CopiesAreOfCopyOps DEF Shape, WithoutCopy
<1>6. op = Move => CopyAhead' /\ ~BindAhead'
  <2> SUFFICES ASSUME op = Move PROVE CopyAhead' /\ ~BindAhead'
    OBVIOUS
  <2>1. Recipe(op) = <<"src0", "copy">>
    BY MoveCopies
  <2>2. Has(Recipe(op), "copy")
    BY <2>1 DEF Has, At
  <2> QED
    BY <1>3, <1>5, <2>2
<1>7. op \in WriteOps /\ CopyAhead' => op = Move
  BY <1>5 DEF CopyOps, WriteOps, Move
<1>8. writes \in Nat
  BY DEF IInv, Typed
<1>9. /\ \A q : q # d => (q \in adrift' <=> q \in adrift)
      /\ d \notin adrift' => \/ Follows(op, s, holds)
                             \/ d \notin adrift /\ ~Binds(op) /\ ~Writes(op, holds)
  BY DEF Execute
<1>10. /\ DOMAIN value' \subseteq DOMAIN value \cup {d}
       /\ DOMAIN value \subseteq DOMAIN value'
       /\ \A q : q # d => Holds(q)' = Holds(q)
       /\ ~Writes(op, holds) => value' = value
       /\ Writes(op, holds) =>
            /\ Holds(d)' = IF op = Move THEN Holds(s) ELSE <<"written", writes>>
            /\ writes' = writes + 1
       /\ writes' \in {writes, writes + 1}
  BY DEF Execute, With, Holds
<1>11. \A q \in Followed' : q \in Followed /\ Holds(q)' = Holds(q)
  <2> SUFFICES ASSUME NEW q \in Followed' PROVE q \in Followed /\ Holds(q)' = Holds(q)
    OBVIOUS
  <2>1. q \in DOMAIN binding /\ q \notin adrift' /\ q \notin Unsettled'
    BY DEF Followed
  <2>2. CASE q # d
    BY <1>1, <1>9, <1>10, <2>1, <2>2 DEF Followed
  <2>3. CASE q = d /\ Follows(op, s, holds)
    <3>1. ~BindAhead' /\ CopyAhead' /\ s = d /\ op = Move /\ s \notin adrift
      BY <1>4, <1>5, <1>7, <2>1, <2>3 DEF Follows, Writes, Unsettled
    <3> QED
      BY <1>1, <1>10, <2>1, <2>3, <3>1 DEF Followed, Follows
  <2>4. CASE q = d /\ ~Follows(op, s, holds)
    BY <1>1, <1>9, <1>10, <2>1, <2>4 DEF Followed, Holds
  <2> QED
    BY <2>2, <2>3, <2>4
<1>12. Renamed'
  BY <1>11, FollowOne DEF IInv, GuestInv
<1>13. Made'
  <2> SUFFICES ASSUME NEW q \in DOMAIN value', NEW n \in Nat, value'[q] = <<"written", n>>
               PROVE  n < writes'
    BY DEF Made
  <2>1. \A r \in Reg, m \in Nat : Holds(r) = <<"written", m>> => m < writes
    BY DEF IInv, GuestInv, Made, Holds
  <2>2. Holds(q)' = <<"written", n>> /\ q \in Reg
    BY <1>10 DEF Holds, IInv, Typed
  <2>3. CASE Writes(op, holds) /\ q = d /\ op # Move
    BY <1>8, <1>10, <2>2, <2>3
  <2>4. CASE Writes(op, holds) /\ q = d /\ op = Move
    BY <1>8, <1>10, <2>1, <2>2, <2>4
  <2>5. CASE ~Writes(op, holds) \/ q # d
    <3>1. Holds(q)' = Holds(q)
      BY <1>10, <2>5 DEF Holds
    <3> QED
      BY <1>8, <1>10, <2>1, <2>2, <3>1
  <2> QED
    BY <2>3, <2>4, <2>5
<1>14. Met'
  <2>1. \A q \in Followed' : \A p : Holds(q)' = <<"initial", p>> => p \in DOMAIN binding'
    BY <1>11 DEF IInv, GuestInv, Met
  <2>2. ASSUME NEW q \in DOMAIN value' \ (DOMAIN binding' \cup adrift' \cup Unsettled')
        PROVE  Holds(q)' = <<"initial", q>>
    <3>0. q \notin DOMAIN binding \cup adrift \cup Unsettled => Holds(q) = <<"initial", q>>
      BY DEF IInv, GuestInv, Met, Holds
    <3>1. CASE q # d
      BY <1>1, <1>9, <1>10, <3>0, <3>1
    <3>2. CASE q = d /\ Writes(op, holds)
      <4>1. Follows(op, s, holds)
        BY <1>9, <2>2, <3>2
      <4>2. ~BindAhead' /\ CopyAhead' /\ op = Move /\ s \notin adrift /\ s = d
        BY <1>4, <1>7, <2>2, <3>2, <4>1 DEF Follows, Writes, Unsettled
      <4>3. Holds(d)' = Holds(d)
        BY <1>10, <3>2, <4>2
      <4> QED
        BY <1>1, <2>2, <3>0, <3>2, <4>2, <4>3
    <3>3. CASE q = d /\ ~Writes(op, holds)
      <4>1. Holds(d)' = Holds(d)
        BY <1>10, <3>3 DEF Holds
      <4>2. d \in adrift => d \in adrift'
        BY <3>3 DEF Execute, Follows
      <4> QED
        BY <1>1, <2>2, <3>0, <3>3, <4>1, <4>2
    <3> QED
      BY <3>1, <3>2, <3>3
  <2> QED
    BY <2>1, <2>2 DEF Met
<1>15. Destination'
  <2> SUFFICES ASSUME d \notin adrift'
               PROVE  /\ BindAhead' => /\ Holds(d)' = <<"written", writes' - 1>>
                                       /\ \A q \in Followed' : Holds(q)' # Holds(d)'
                      /\ CopyAhead' => Holds(d)' = Holds(s)' /\ s \notin adrift'
    BY DEF Destination
  <2>1. ASSUME BindAhead'
        PROVE  /\ Holds(d)' = <<"written", writes' - 1>>
               /\ \A q \in Followed' : Holds(q)' # Holds(d)'
    <3>1. Follows(op, s, holds) /\ op # Move
      BY <1>4, <1>6, <1>9, <2>1
    <3>2. Holds(d)' = <<"written", writes>> /\ writes' - 1 = writes
      BY <1>8, <1>10, <3>1 DEF Follows
    <3>3. \A q : Holds(q) # <<"written", writes>>
      BY <1>8 DEF IInv, GuestInv, Made, Holds
    <3> QED
      BY <1>11, <3>2, <3>3
  <2>2. ASSUME CopyAhead' PROVE Holds(d)' = Holds(s)' /\ s \notin adrift'
    <3>1. Follows(op, s, holds) /\ op = Move /\ s \notin adrift
      BY <1>4, <1>7, <1>9, <2>2 DEF Follows, Writes
    <3>2. Holds(d)' = Holds(s)
      BY <1>10, <3>1 DEF Follows
    <3> QED
      BY <1>9, <1>10, <3>1, <3>2
  <2> QED
    BY <2>1, <2>2
<1> QED
  BY <1>12, <1>13, <1>14, <1>15 DEF GuestInv

LEMMA DecodeInv == IInv /\ Decode => IInv'
<1> SUFFICES ASSUME IInv, Decode PROVE IInv'
  OBVIOUS
<1>1. PICK byte \in Bytes, d \in Reg, s0 \in Reg, s2 \in Reg, holds \in BOOLEAN :
        \E s1 \in Reg \cap 0 .. 7 :
          /\ insn' = [dst |-> d, src0 |-> s0, src1 |-> s1, src2 |-> s2]
          /\ recipe' = Recipe(Opcode(byte))
          /\ Execute(Opcode(byte), d, s0, holds)
  BY DEF Decode
<1>2. /\ Idle /\ bound = 0 /\ at' = 1 /\ pc' = pc + 1 /\ pc < MaxInstructions
      /\ UNCHANGED <<next, binding, defined, redefined, result, konst, bound>>
  BY DEF Decode
<1>3. /\ insn' \in Operands /\ insn'.dst = d /\ insn'.src0 = s0
      /\ Shape(recipe') /\ Len(recipe') \in Nat
  BY <1>1, ShaderAssumption, RecipeShape DEF Operands, Shape
<1>4. /\ DOMAIN value' \subseteq DOMAIN value \cup {d} /\ adrift' \subseteq adrift \cup {d}
      /\ writes' \in {writes, writes + 1} /\ lost' \in BOOLEAN
  BY <1>1 DEF Execute, With
<1>5. Typed' /\ Numbered' /\ Closed'
  BY <1>2, <1>3, <1>4, ShaderAssumption DEF IInv, Typed, Numbered, Closed
<1>6. \A w : Has(recipe', w) <=> \E i : Ahead(w, i)'
  BY <1>2, <1>3 DEF Has, Ahead, At
<1>7. Pending'
  BY <1>3, <1>6 DEF Pending, Shape, WillAllocate
<1>8. GuestInv'
  BY <1>1, <1>2, <1>3, DecodeGuest
<1> QED
  BY <1>2, <1>5, <1>7, <1>8 DEF IInv

LEMMA AllocateResultInv == IInv /\ AllocateResult => IInv'
<1> SUFFICES ASSUME IInv, AllocateResult PROVE IInv'
  OBVIOUS
<1>1. Step("result") /\ UNCHANGED <<binding, guest, insn>>
  BY DEF AllocateResult
<1>2. Typed' /\ Numbered' /\ Closed'
  BY <1>1, Advance DEF IInv, AllocateResult, Typed, Numbered, Closed, guest
<1>3. result' # 0 /\ result' \notin defined'
  BY DEF IInv, AllocateResult, Numbered, Typed
<1>4. Pending'
  BY <1>1, <1>3, Advance DEF IInv, AllocateResult, Pending
<1>5. GuestInv'
  BY <1>1, GuestStep DEF IInv, guest
<1> QED
  BY <1>2, <1>4, <1>5 DEF IInv, AllocateResult

\* What the three steps that allocate and define an id have in common.
LEMMA AllocateInv ==
  ASSUME IInv, NEW what \in {"temp", "hole", "const"}, Step(what),
         next' = next + 1, konst' = konst \/ konst' = next,
         Define({next}) \/ UNCHANGED <<defined, redefined>>,
         UNCHANGED <<binding, guest, insn, result, pc, bound>>
  PROVE  IInv'
<1>1. Typed' /\ Numbered' /\ Closed'
  BY Advance DEF IInv, Typed, Numbered, Closed, Define, guest
<1>2. redefined' = redefined /\ (result \notin defined => result \notin defined')
  BY DEF IInv, Numbered, Typed, Define
<1>3. Pending'
  BY <1>2, PendingKept DEF IInv
<1>4. GuestInv'
  BY GuestStep DEF IInv, guest
<1> QED
  BY <1>1, <1>2, <1>3, <1>4 DEF IInv

LEMMA LookUpInv ==
  ASSUME IInv, NEW what \in {"dst", "src0", "src1", "src2", "konst"}, NEW r \in Nat,
         LookUp(what, r), what = "src0" => r = insn.src0
  PROVE  IInv'
<1>1. Step(what) /\ UNCHANGED <<guest, insn, result, konst, pc, bound>>
  BY DEF LookUp
<1>2. CASE Found(r)
  <2>1. Typed' /\ Numbered' /\ Closed'
    BY <1>1, <1>2, Advance DEF IInv, Typed, Numbered, Closed, Found, guest
  <2>2. Pending'
    BY <1>1, <1>2, PendingKept DEF IInv, Found
  <2>3. GuestInv'
    BY <1>1, <1>2, GuestStep DEF IInv, Found, guest
  <2> QED
    BY <1>2, <2>1, <2>2, <2>3 DEF IInv, Found
<1>3. CASE Create(r)
  <2>1. /\ Bind(r, next) /\ r \notin DOMAIN binding
        /\ DOMAIN binding' = DOMAIN binding \cup {r} /\ binding'[r] = next
        /\ \A q \in DOMAIN binding : binding'[q] = binding[q]
    BY <1>3 DEF Create, Bind, With
  <2>2. /\ (BindAhead' <=> BindAhead) /\ (CopyAhead' <=> CopyAhead)
        /\ Unsettled' = Unsettled /\ \A q : Holds(q)' = Holds(q)
    <3>1. (BindAhead' <=> BindAhead) /\ (CopyAhead' <=> CopyAhead)
      BY <1>1, Advance DEF BindAhead, CopyAhead, IInv
    <3> QED
      BY <1>1, <3>1 DEF Unsettled, Holds, guest
  <2>3. \A q \in Followed' : q = r \/ (q \in Followed /\ q \in DOMAIN binding)
    BY <1>1, <2>1, <2>2 DEF Followed, guest
  <2>4. r \in Followed' =>
          Holds(r) = <<"initial", r>> /\ \A q \in Followed : Holds(q) # Holds(r)
    <3> SUFFICES ASSUME r \in Followed'
                 PROVE  Holds(r) = <<"initial", r>> /\ \A q \in Followed : Holds(q) # Holds(r)
      OBVIOUS
    <3>1. r \notin DOMAIN binding \cup adrift \cup Unsettled
      BY <1>1, <2>1, <2>2 DEF Followed, guest
    <3>2. Holds(r) = <<"initial", r>>
      BY <3>1 DEF IInv, GuestInv, Met, Holds
    <3> QED
      BY <2>1, <3>2 DEF IInv, GuestInv, Met
  <2>5. \A q \in Followed : binding[q] # next /\ q \in DOMAIN binding
    BY DEF IInv, Typed, Numbered, Followed
  <2>6. Renamed'
    BY <2>1, <2>2, <2>3, <2>4, <2>5, FollowOne DEF IInv, GuestInv
  <2>7. Typed' /\ Numbered' /\ Closed'
    BY <1>1, <1>3, <2>1, Advance DEF IInv, Typed, Numbered, Closed, Create, Define, guest
  <2>8. Met'
    <3>1. \A q \in Followed' : \A p : Holds(q)' = <<"initial", p>> => p \in DOMAIN binding'
      BY <2>1, <2>2, <2>3, <2>4 DEF IInv, GuestInv, Met
    <3> QED
      BY <1>1, <2>1, <2>2, <3>1 DEF IInv, GuestInv, Met, guest
  <2>9. Made'
    BY <1>1 DEF IInv, GuestInv, Made, guest
  <2>10. Destination'
    <3> SUFFICES ASSUME insn.dst \notin adrift
                 PROVE  /\ BindAhead => /\ Holds(insn.dst) = <<"written", writes - 1>>
                                        /\ \A q \in Followed' : Holds(q) # Holds(insn.dst)
                        /\ CopyAhead => Holds(insn.dst) = Holds(insn.src0) /\ insn.src0 \notin adrift
      BY <1>1, <2>2 DEF Destination, guest
    <3>1. <<"initial", r>> # <<"written", writes - 1>>
      OBVIOUS
    <3> QED
      BY <2>3, <2>4, <3>1 DEF IInv, GuestInv, Destination
  <2>11. redefined' = redefined /\ (result \notin defined => result \notin defined')
    BY <1>3 DEF IInv, Numbered, Typed, Create, Define
  <2>12. Pending'
    BY <1>1, <2>1, <2>11, PendingKept DEF IInv
  <2> QED
    BY <2>6, <2>7, <2>8, <2>9, <2>10, <2>11, <2>12 DEF IInv, GuestInv
<1> QED
  BY <1>2, <1>3 DEF LookUp

LEMMA DefineInv == IInv /\ DefineResult => IInv'
<1> SUFFICES ASSUME IInv, DefineResult PROVE IInv'
  OBVIOUS
<1>1. /\ Step("define") /\ Define({result})
      /\ UNCHANGED <<next, binding, guest, insn, result, konst, pc, bound>>
  BY DEF DefineResult
<1>2. ~WillAllocate /\ \A i : ~Ahead("define", i)'
  BY <1>1, Advance DEF IInv, Pending, Shape, WillAllocate, Ahead
<1>3. result # 0 /\ result \notin defined
  BY <1>1, <1>2, Advance DEF IInv, Pending
<1>4. Typed' /\ Numbered' /\ Closed'
  BY <1>1, Advance DEF IInv, Typed, Numbered, Closed, Define, guest
<1>5. Pending'
  BY <1>1, <1>2, <1>3, Advance DEF IInv, Pending
<1>6. redefined' = redefined
  BY <1>1, <1>3 DEF Define
<1>7. GuestInv'
  BY <1>1, GuestStep DEF IInv, guest
<1> QED
  BY <1>4, <1>5, <1>6, <1>7 DEF IInv

\* The result of the instruction becomes the id of its destination.
LEMMA BindGuest ==
  ASSUME IInv, Step("bind"), Bind(insn.dst, result), UNCHANGED <<guest, insn>>,
         \A i : ~Ahead("bind", i)', \A i : ~Ahead("copy", i)
  PROVE  GuestInv'
<1> DEFINE d == insn.dst
<1>1. /\ DOMAIN binding' = DOMAIN binding \cup {d} /\ binding'[d] = result
      /\ \A q \in DOMAIN binding \ {d} : binding'[q] = binding[q]
  BY DEF Bind, With
<1>2. BindAhead /\ ~CopyAhead /\ Unsettled = {d} /\ ~BindAhead' /\ ~CopyAhead' /\ Unsettled' = {}
  BY Advance DEF BindAhead, CopyAhead, Unsettled, IInv
<1>3. UNCHANGED <<value, writes, adrift>> /\ \A q : Holds(q)' = Holds(q)
  BY DEF guest, Holds
<1>4. \A q \in Followed' : q = d \/ (q \in Followed /\ q \in DOMAIN binding \ {d})
  BY <1>1, <1>2, <1>3 DEF Followed
<1>5. d \in Followed' => /\ Holds(d) = <<"written", writes - 1>>
                         /\ \A q \in Followed : Holds(q) # Holds(d)
  BY <1>2, <1>3 DEF Followed, IInv, GuestInv, Destination
<1>6. \A q \in Followed : binding[q] # result
  BY DEF Followed, IInv, Numbered
<1>7. Renamed'
  BY <1>1, <1>3, <1>4, <1>5, <1>6, FollowOne DEF IInv, GuestInv
<1>8. Made'
  BY <1>3 DEF IInv, GuestInv, Made
<1>9. Met'
  <2>1. \A p : <<"initial", p>> # <<"written", writes - 1>>
    OBVIOUS
  <2>2. \A q \in Followed' : \A p : Holds(q)' = <<"initial", p>> => p \in DOMAIN binding'
    BY <1>1, <1>3, <1>4, <1>5, <2>1 DEF IInv, GuestInv, Met
  <2> QED
    BY <1>1, <1>2, <1>3, <2>2 DEF IInv, GuestInv, Met
<1>10. Destination'
  BY <1>2 DEF Destination
<1> QED
  BY <1>7, <1>8, <1>9, <1>10 DEF GuestInv

LEMMA BindInv == IInv /\ BindResult => IInv'
<1> SUFFICES ASSUME IInv, BindResult PROVE IInv'
  OBVIOUS
<1>1. /\ Step("bind") /\ Bind(insn.dst, result) /\ result' = 0
      /\ UNCHANGED <<next, guest, defined, redefined, insn, konst, pc, bound>>
  BY DEF BindResult
<1>2. ~WillAllocate /\ \A i : ~Ahead("define", i)' /\ ~Ahead("bind", i)'
  BY <1>1, Advance DEF IInv, Pending, Shape, WillAllocate, Ahead
<1>3. result # 0
  BY <1>1, <1>2, Advance DEF IInv, Pending
<1>4. DOMAIN binding' = DOMAIN binding \cup {insn.dst} /\ insn.dst \in Nat
  BY <1>1 DEF Bind, With, IInv, Typed, Operands
<1>5. Typed' /\ Closed'
  BY <1>1, <1>4, Advance DEF IInv, Typed, Closed, guest
<1>6. Numbered'
  BY <1>1, <1>3, <1>4 DEF IInv, Typed, Numbered, Bind, With
<1>7. \A i : ~Ahead("copy", i)
  BY <1>1, Advance DEF IInv, Pending, Shape, Ahead, Has
<1>8. Pending'
  BY <1>1, <1>2, <1>7, Advance DEF IInv, Pending
<1>9. GuestInv'
  BY <1>1, <1>2, <1>7, BindGuest
<1> QED
  BY <1>1, <1>5, <1>6, <1>8, <1>9 DEF IInv

\* The destination gets the id of what it was moved from.
LEMMA CopyGuest ==
  ASSUME IInv, Step("copy"), Bind(insn.dst, binding[insn.src0]), UNCHANGED <<guest, insn>>,
         insn.src0 \in DOMAIN binding,
         \A i : ~Ahead("bind", i), \A i : ~Ahead("copy", i)'
  PROVE  GuestInv'
<1> DEFINE d == insn.dst
           s == insn.src0
<1>1. /\ DOMAIN binding' = DOMAIN binding \cup {d} /\ binding'[d] = binding[s]
      /\ \A q \in DOMAIN binding \ {d} : binding'[q] = binding[q]
  BY DEF Bind, With
<1>2. /\ CopyAhead /\ ~BindAhead /\ ~BindAhead' /\ ~CopyAhead' /\ Unsettled' = {}
      /\ Unsettled = {q \in {d} : s # d}
  BY Advance DEF BindAhead, CopyAhead, Unsettled, IInv
<1>3. UNCHANGED <<value, writes, adrift>> /\ \A q : Holds(q)' = Holds(q)
  BY DEF guest, Holds
<1>4. \A q \in Followed' : q = d \/ (q \in Followed /\ q \in DOMAIN binding \ {d})
  BY <1>1, <1>2, <1>3 DEF Followed
<1>5. d \in Followed' => s \in Followed /\ Holds(d) = Holds(s)
  BY <1>2, <1>3 DEF Followed, IInv, GuestInv, Destination
<1>6. Renamed'
  BY <1>1, <1>3, <1>4, <1>5, FollowOne DEF IInv, GuestInv
<1>7. Made'
  BY <1>3 DEF IInv, GuestInv, Made
<1>8. Met'
  <2>1. \A q \in Followed' : \A p : Holds(q)' = <<"initial", p>> => p \in DOMAIN binding'
    BY <1>1, <1>3, <1>4, <1>5 DEF IInv, GuestInv, Met
  <2> QED
    BY <1>1, <1>2, <1>3, <2>1 DEF IInv, GuestInv, Met
<1>9. Destination'
  BY <1>2 DEF Destination
<1> QED
  BY <1>6, <1>7, <1>8, <1>9 DEF GuestInv

LEMMA CopyInv == IInv /\ CopyBinding => IInv'
<1> SUFFICES ASSUME IInv, CopyBinding PROVE IInv'
  OBVIOUS
<1>1. /\ Step("copy") /\ Bind(insn.dst, binding[insn.src0])
      /\ UNCHANGED <<next, guest, defined, redefined, insn, result, konst, pc, bound>>
  BY DEF CopyBinding
<1>2. /\ \A j : ~Ahead("src0", j) /\ ~Ahead("bind", j)
      /\ \A j : ~Ahead("copy", j)'
  BY <1>1, Advance DEF IInv, Pending, Shape, Ahead, Has
<1>3. insn.src0 \in DOMAIN binding
  BY <1>1, <1>2, Advance DEF IInv, Pending
<1>4. DOMAIN binding' = DOMAIN binding \cup {insn.dst} /\ insn.dst \in Nat
  BY <1>1 DEF Bind, With, IInv, Typed, Operands
<1>5. Typed' /\ Closed'
  BY <1>1, <1>4, Advance DEF IInv, Typed, Closed, guest
<1>6. Numbered'
  BY <1>1, <1>3, <1>4 DEF IInv, Typed, Numbered, Bind, With
<1>7. Pending'
  BY <1>1, <1>4, PendingKept DEF IInv
<1>8. GuestInv'
  BY <1>1, <1>2, <1>3, CopyGuest
<1> QED
  BY <1>1, <1>5, <1>6, <1>7, <1>8 DEF IInv

LEMMA FinishInv == IInv /\ Finish => IInv'
<1> SUFFICES ASSUME IInv, Finish PROVE IInv'
  OBVIOUS
<1>1. UNCHANGED <<next, binding, guest, defined, redefined, insn, recipe, at, result, konst, pc>>
      /\ Idle /\ bound' = next + 10
  BY DEF Finish
<1>2. Typed' /\ Numbered' /\ Closed' /\ Pending'
  BY <1>1 DEF IInv, Typed, Numbered, Pending, Closed, Idle, Ahead, At, WillAllocate, guest
<1>3. GuestInv'
  BY <1>1, GuestSame DEF IInv, BindAhead, CopyAhead, Ahead, At, guest
<1> QED
  BY <1>1, <1>2, <1>3 DEF IInv

LEMMA StepInv == IInv /\ [Next]_vars => IInv'
<1> SUFFICES ASSUME IInv, [Next]_vars PROVE IInv'
  OBVIOUS
<1>1. CASE Decode
  BY <1>1, DecodeInv
<1>2. CASE AllocateResult
  BY <1>2, AllocateResultInv
<1>3. CASE AllocateTemp
  BY <1>3, AllocateInv DEF AllocateTemp
<1>4. CASE AllocateHole
  BY <1>4, AllocateInv DEF AllocateHole
<1>5. CASE EmitConstant
  BY <1>5, AllocateInv DEF EmitConstant
<1>6. CASE LookUpField
  <2>1. insn.dst \in Nat /\ insn.src0 \in Nat /\ insn.src1 \in Nat /\ insn.src2 \in Nat
    BY DEF IInv, Typed, Operands
  <2>2. PICK f \in {"dst", "src0", "src1", "src2"} : LookUp(f, insn[f])
    BY <1>6 DEF LookUpField
  <2> QED
    BY <2>1, <2>2, LookUpInv
<1>7. CASE LookUpConstant
  BY <1>7, LookUpInv DEF LookUpConstant, IInv, Typed
<1>8. CASE DefineResult
  BY <1>8, DefineInv
<1>9. CASE BindResult
  BY <1>9, BindInv
<1>10. CASE CopyBinding
  BY <1>10, CopyInv
<1>11. CASE Finish
  BY <1>11, FinishInv
<1>12. CASE UNCHANGED vars
  <2>1. Typed' /\ Numbered' /\ Closed' /\ Pending'
    BY <1>12 DEF vars, guest, IInv, Typed, Numbered, Pending, Closed, Idle, Ahead, At,
                 WillAllocate
  <2>2. GuestInv'
    BY <1>12, GuestSame DEF vars, guest, IInv, BindAhead, CopyAhead, Ahead, At
  <2> QED
    BY <1>12, <2>1, <2>2 DEF vars, IInv
<1> QED
  BY <1>1, <1>2, <1>3, <1>4, <1>5, <1>6, <1>7, <1>8, <1>9, <1>10, <1>11, <1>12
     DEF Next

\* Of all ids only the sampler type is the result of several instructions, and
\* every result is below the bound of the header.
THEOREM ResultsAreUnique == Spec => []OneResultPerId
<1>1. IInv => OneResultPerId
  BY DEF IInv, Closed, Numbered, Typed, OneResultPerId
<1> QED
  BY <1>1, InitInv, StepInv, PTL DEF Spec

\* On the straight line of any program, whatever its predicates come to, two
\* registers that are not adrift share an id exactly when they hold the same
\* value in the guest: a register is unsettled from the guest's write to the
\* step that binds it, and between instructions none is.
THEOREM RenamingIsSound == Spec => []RenamingFollowsValues
<1>1. IInv => RenamingFollowsValues
  <2> SUFFICES ASSUME IInv, Idle PROVE RenamingFollowsValues
    BY DEF RenamingFollowsValues
  <2>1. Unsettled = {}
    BY DEF Unsettled, BindAhead, CopyAhead, Idle, Ahead, At, IInv, Typed
  <2> QED
    BY <2>1 DEF IInv, GuestInv, Renamed, Followed, RenamingFollowsValues
<1> QED
  BY <1>1, InitInv, StepInv, PTL DEF Spec

\* Counters, ids and register numbers keep their types.
THEOREM TypesHold == Spec => []TypeOK
<1>1. IInv => TypeOK
  BY DEF IInv, Typed, Numbered, TypeOK
<1> QED
  BY <1>1, InitInv, StepInv, PTL DEF Spec

-----------------------------------------------------------------------------
(* VulkanFrames: creation.  What is left to do never repeats a step, so     *)
(* that every object is made when the context has none of its kind,         *)
(* whatever failed before.                                                  *)

CreationStep == {"instance", "physical", "device", "swapchain", "pass", "framebuffers",
         "pool", "buffers", "sync"}

Steps(s) == {s[i] : i \in 1 .. Len(s)}

NoRepeats(s) == \A i, j \in 1 .. Len(s) : s[i] = s[j] => i = j

LEMMA TailSteps ==
  ASSUME NEW s \in Seq(CreationStep), NoRepeats(s), s # << >>
  PROVE  /\ Tail(s) \in Seq(CreationStep) /\ NoRepeats(Tail(s))
         /\ Steps(Tail(s)) = Steps(s) \ {Head(s)}
         /\ Head(s) \in Steps(s)
         /\ Steps(Tail(s)) # {} => Tail(s)[Len(Tail(s))] = s[Len(s)]
<1>1. /\ Tail(s) \in Seq(CreationStep) /\ Len(Tail(s)) = Len(s) - 1 /\ Head(s) = s[1]
      /\ \A i \in 1 .. Len(Tail(s)) : Tail(s)[i] = s[i + 1]
      /\ Len(s) \in Nat \ {0}
  BY HeadTailProperties, EmptySeq, LenProperties
<1> DEFINE t == Tail(s)
<1> HIDE DEF t
<1>2. /\ t \in Seq(CreationStep) /\ Len(t) = Len(s) - 1
      /\ \A i \in 1 .. Len(t) : t[i] = s[i + 1]
  BY <1>1 DEF t
<1>3. NoRepeats(t)
  <2> SUFFICES ASSUME NEW i \in 1 .. Len(t), NEW j \in 1 .. Len(t), t[i] = t[j] PROVE i = j
    BY DEF NoRepeats
  <2>1. i + 1 \in 1 .. Len(s) /\ j + 1 \in 1 .. Len(s) /\ s[i + 1] = s[j + 1]
    BY <1>1, <1>2
  <2>2. i + 1 = j + 1
    BY <2>1 DEF NoRepeats
  <2>3. QED
    BY <1>1, <1>2, <2>2
<1>4. ASSUME NEW x \in Steps(t) PROVE x \in Steps(s) /\ x # s[1]
  <2>1. PICK i \in 1 .. Len(t) : x = t[i]
    BY <1>4 DEF Steps
  <2>2. i + 1 \in 1 .. Len(s) /\ 1 \in 1 .. Len(s) /\ i + 1 # 1 /\ x = s[i + 1]
    BY <1>1, <1>2, <2>1
  <2>3. QED
    BY <2>2 DEF Steps, NoRepeats
<1>5. ASSUME NEW x \in Steps(s), x # s[1] PROVE x \in Steps(t)
  <2>1. PICK i \in 1 .. Len(s) : x = s[i]
    BY <1>5 DEF Steps
  <2>2. i # 1
    BY <1>5, <2>1
  <2>3. i - 1 \in 1 .. Len(t) /\ (i - 1) + 1 = i
    BY <1>1, <1>2, <2>2
  <2>4. t[i - 1] = s[i]
    BY <1>2, <2>3
  <2>5. QED
    BY <2>1, <2>3, <2>4 DEF Steps
<1>6. s[1] \in Steps(s)
  BY <1>1 DEF Steps
<1>7. Steps(t) # {} => t[Len(t)] = s[Len(s)]
  <2> SUFFICES ASSUME Steps(t) # {} PROVE t[Len(t)] = s[Len(s)]
    OBVIOUS
  <2>1. PICK i \in 1 .. Len(t) : TRUE
    BY DEF Steps
  <2>2. Len(t) \in 1 .. Len(t) /\ Len(t) + 1 = Len(s)
    BY <1>1, <1>2, <2>1
  <2>3. QED
    BY <1>2, <2>2
<1>8. QED
  BY <1>1, <1>3, <1>4, <1>5, <1>6, <1>7 DEF t

-----------------------------------------------------------------------------
Host == {"none", "creating", "idle", "wait", "record", "dispatch", "submit",
         "drain", "closing", "crashed"}
InFrame == {"wait", "record", "dispatch", "submit"}
Recording == {"record", "dispatch", "submit"}

\* What is still to be made is not there yet: no step repeats one that was
\* done, and the fences and semaphores come last.
TodoInv ==
  /\ todo \in Seq(CreationStep) /\ NoRepeats(todo)
  /\ host # "creating" => todo = << >>
  /\ "swapchain" \in Steps(todo) => handles["swapchain"] = 0 /\ handles["view"] = 0
  /\ "pass" \in Steps(todo) => handles["pass"] = 0 /\ ~ready
  /\ "sync" \in Steps(todo) =>
       /\ ~ready /\ todo[Len(todo)] = "sync"
       /\ "pass" \in Steps(todo) \/ handles["pass"] = 1

\* The handles are exactly the objects; a context that is ready has its pass,
\* one that is not has neither fences nor semaphores.
ContextInv ==
  /\ host \in Host /\ ready \in BOOLEAN
  /\ handles \in [Kind -> Nat] /\ alive = handles
  /\ host = "none" => handles = None /\ ~ready
  /\ host \in InFrame \cup {"drain"} => ready
  /\ ready => handles["pass"] = 1
  /\ ~ready => handles["fence"] = 0 /\ handles["semaphore"] = 0
  /\ TodoInv

\* A command buffer is in the queue once at most, with its fence down; 2 is an
\* upload.
QueueInv(q, up) ==
  /\ q \in Seq(0 .. 2)
  /\ \A i, j \in 1 .. Len(q) : q[i] = q[j] /\ i # j => q[i] = 2
  /\ \A i \in 1 .. Len(q) : q[i] \in Slot => ~up[q[i]]

\* The buffer that is recorded is the one whose fence was waited for and reset.
GpuInv ==
  /\ current \in Slot /\ fence \in [Slot -> BOOLEAN]
  /\ QueueInv(queue, fence)
  /\ ~ready => queue = << >>
  /\ host \in Recording => ~fence[current] /\ \A i \in 1 .. Len(queue) : queue[i] # current

\* The two sides of the history are of the last two frames, in turn.
HistoryInv ==
  /\ history \in [Slot -> [valid : BOOLEAN, frame : Nat]] /\ side \in Slot /\ frame \in Nat
  /\ host \in InFrame => ~history[side].valid /\ history[side].frame + 1 = frame
  /\ history[side].valid => history[side].frame + 1 = frame
  /\ history[1 - side].valid => history[1 - side].frame + 1 = history[side].frame

\* Pipelines for drawing exist only while the context, and with it the pass, does.
PipelinesInv ==
  /\ pipelines \in [Graphics \cup Compute -> {"absent", "null", "made"}]
  /\ \A s \in Graphics : pipelines[s] = "made" => ready

LEMMA EmptySteps ==
  /\ Steps(<< >>) = {} /\ << >> \in Seq(CreationStep) /\ NoRepeats(<< >>)
<1>1. Len(<< >>) = 0 /\ << >> \in Seq(CreationStep)
  BY EmptySeq
<1>2. 1 .. Len(<< >>) = {}
  BY <1>1
<1>3. QED
  BY <1>1, <1>2 DEF Steps, NoRepeats

LEMMA InitContext == FramesInit => ContextInv
<1>1. None \in [Kind -> Nat]
  BY DEF None
<1>2. QED
  BY <1>1, EmptySteps DEF FramesInit, ContextInv, TodoInv, Host, InFrame, None, Kind

(* What the steps that create nothing have in common.                      *)
LEMMA SameContext ==
  ASSUME ContextInv, UNCHANGED <<todo, ready, handles, alive>>, host' \in Host \ {"none"},
         host' # "creating" => todo = << >>,
         host' \in InFrame \cup {"drain"} => ready
  PROVE  ContextInv'
  BY DEF ContextInv, TodoInv, Steps

(* A step of the list is taken and its objects are made, or it is given up. *)
LEMMA GiveUpContext ==
  ASSUME ContextInv, host = "creating", todo' = << >>,
         UNCHANGED <<host, ready, handles, alive>>
  PROVE  ContextInv'
  BY EmptySteps, Zenon DEF ContextInv, TodoInv

LEMMA TakenContext ==
  ASSUME ContextInv, NEW what, Doing(what), todo' = Tail(todo),
         UNCHANGED <<host, ready>>,
         handles' \in [Kind -> Nat], alive' = handles',
         handles'["fence"] = handles["fence"], handles'["semaphore"] = handles["semaphore"],
         IF what = "pass" THEN handles'["pass"] = 1 ELSE handles'["pass"] = handles["pass"],
         what # "swapchain" => /\ handles'["swapchain"] = handles["swapchain"]
                               /\ handles'["view"] = handles["view"]
  PROVE  ContextInv'
<1>1. /\ host = "creating" /\ Head(todo) = what
      /\ Tail(todo) \in Seq(CreationStep) /\ NoRepeats(Tail(todo))
      /\ Steps(Tail(todo)) = Steps(todo) \ {what} /\ what \in Steps(todo)
  BY TailSteps DEF ContextInv, TodoInv, Doing
<1>2. TodoInv'
  BY <1>1 DEF ContextInv, TodoInv
<1>3. QED
  BY <1>1, <1>2 DEF ContextInv, InFrame, TodoInv

LEMMA CreateOneContext ==
  ASSUME ContextInv, NEW what, NEW k \in Kind, CreateOne(what, k),
         <<what, k>> \in {<<"instance", "instance">>, <<"device", "device">>,
                          <<"pass", "pass">>, <<"pool", "pool">>}
  PROVE  ContextInv'
<1>1. CASE GiveUp
  BY <1>1, GiveUpContext DEF CreateOne, GiveUp, Doing, objectVars
<1>2. CASE Created(k, 1) /\ todo' = Tail(todo)
  <2>1. /\ handles \in [Kind -> Nat] /\ alive = handles
        /\ handles' = [handles EXCEPT ![k] = @ + 1] /\ alive' = [alive EXCEPT ![k] = @ + 1]
        /\ Doing(what) /\ UNCHANGED <<host, ready>>
    BY <1>2 DEF ContextInv, Created, CreateOne
  <2>2. handles' \in [Kind -> Nat] /\ alive' = handles'
    BY <2>1
  <2>3. \A x \in Kind : handles'[x] = IF x = k THEN handles[x] + 1 ELSE handles[x]
    BY <2>1
  <2>4. what \in Steps(todo)
    BY <2>1, TailSteps DEF Doing, ContextInv, TodoInv
  <2>5. what = "pass" => handles["pass"] = 0
    BY <2>4 DEF ContextInv, TodoInv
  <2>6. k \in {"instance", "device", "pass", "pool"} /\ (k = "pass" <=> what = "pass")
    OBVIOUS
  <2>7. /\ handles'["fence"] = handles["fence"] /\ handles'["semaphore"] = handles["semaphore"]
        /\ handles'["swapchain"] = handles["swapchain"] /\ handles'["view"] = handles["view"]
        /\ IF what = "pass" THEN handles'["pass"] = 1 ELSE handles'["pass"] = handles["pass"]
    BY <2>3, <2>5, <2>6 DEF Kind
  <2>8. QED
    BY <1>2, <2>1, <2>2, <2>7, TakenContext
<1>3. QED
  BY <1>1, <1>2 DEF CreateOne

LEMMA ChooseContext ==
  ASSUME ContextInv, NEW what, what # "pass", what # "swapchain", Choose(what)
  PROVE  ContextInv'
<1>1. CASE GiveUp
  BY <1>1, GiveUpContext DEF Choose, GiveUp, Doing, objectVars
<1>2. CASE todo' = Tail(todo) /\ UNCHANGED objectVars
  BY <1>2, TakenContext DEF Choose, objectVars, ContextInv
<1>3. QED
  BY <1>1, <1>2 DEF Choose

LEMMA SwapchainContext == ContextInv /\ createSwapchain => ContextInv'
<1> SUFFICES ASSUME ContextInv, createSwapchain PROVE ContextInv'
  OBVIOUS
<1>1. /\ Doing("swapchain") /\ host = "creating"
      /\ UNCHANGED <<host, ready>> /\ handles \in [Kind -> Nat] /\ alive = handles
  BY DEF createSwapchain, Doing, ContextInv
<1>2. "swapchain" \in Steps(todo)
  BY <1>1, TailSteps DEF Doing, ContextInv, TodoInv
<1>3. handles["swapchain"] = 0 /\ handles["view"] = 0
  BY <1>2 DEF ContextInv, TodoInv
<1>4. PICK n \in 0 .. Images :
        /\ \/ /\ handles' = [handles EXCEPT !["swapchain"] = 1, !["view"] = n]
              /\ alive' = [alive EXCEPT !["swapchain"] = @ + 1, !["view"] = @ + n]
           \/ UNCHANGED <<handles, alive>>
        /\ todo' \in {<< >>, Tail(todo)}
  BY DEF createSwapchain, objectVars
<1>5. /\ handles' \in [Kind -> Nat] /\ alive' = handles'
      /\ \A x \in Kind \ {"swapchain", "view"} : handles'[x] = handles[x]
  <2>1. CASE UNCHANGED <<handles, alive>>
    BY <1>1, <2>1
  <2>2. CASE /\ handles' = [handles EXCEPT !["swapchain"] = 1, !["view"] = n]
             /\ alive' = [alive EXCEPT !["swapchain"] = @ + 1, !["view"] = @ + n]
    <3>1. n \in Nat /\ 0 + n = n
      BY FramesAssumption DEF FramesAssumption
    <3>2. handles' = [handles EXCEPT !["swapchain"] = 1, !["view"] = n]
      BY <2>2
    <3>3. alive' = [handles EXCEPT !["swapchain"] = 1, !["view"] = n]
      <4> DEFINE one == [handles EXCEPT !["swapchain"] = 1]
      <4>1. alive["swapchain"] + 1 = 1 /\ one["view"] + n = n
        BY <1>1, <1>3, <3>1 DEF Kind
      <4>2. alive' = [one EXCEPT !["view"] = one["view"] + n]
        BY <1>1, <2>2, <4>1
      <4>3. QED
        BY <4>1, <4>2
    <3>4. QED
      BY <1>1, <3>1, <3>2, <3>3 DEF Kind
  <2>3. QED
    BY <1>4, <2>1, <2>2
<1>6. /\ handles'["fence"] = handles["fence"] /\ handles'["semaphore"] = handles["semaphore"]
      /\ handles'["pass"] = handles["pass"]
  BY <1>5 DEF Kind
<1>7. CASE todo' = Tail(todo)
  BY <1>1, <1>5, <1>6, <1>7, TakenContext
<1>8. CASE todo' = << >>
  <2>1. TodoInv'
    BY <1>8, EmptySteps, Zenon DEF TodoInv
  <2>2. QED
    BY <1>1, <1>5, <1>6, <2>1 DEF ContextInv, InFrame
<1>9. QED
  BY <1>4, <1>7, <1>8
LEMMA FramebuffersContext == ContextInv /\ createFramebuffers => ContextInv'
<1> SUFFICES ASSUME ContextInv, createFramebuffers PROVE ContextInv'
  OBVIOUS
<1>1. /\ Doing("framebuffers") /\ host = "creating"
      /\ UNCHANGED <<host, ready>> /\ handles \in [Kind -> Nat] /\ alive = handles
  BY DEF createFramebuffers, Doing, ContextInv
<1>2. PICK n \in Nat : Created("framebuffer", n) /\ todo' \in {<< >>, Tail(todo)}
  <2>1. handles.view \in Nat
    BY <1>1 DEF Kind
  <2>2. QED
    BY <2>1 DEF createFramebuffers, FramebuffersMade
<1>3. /\ handles' \in [Kind -> Nat] /\ alive' = handles'
      /\ \A x \in Kind \ {"framebuffer"} : handles'[x] = handles[x]
  <2>1. /\ handles' = [handles EXCEPT !["framebuffer"] = handles["framebuffer"] + n]
        /\ alive' = [alive EXCEPT !["framebuffer"] = alive["framebuffer"] + n]
        /\ alive = handles /\ handles["framebuffer"] + n \in Nat
    BY <1>1, <1>2 DEF Created, Kind
  <2>2. QED
    BY <1>1, <2>1
<1>4. /\ handles'["fence"] = handles["fence"] /\ handles'["semaphore"] = handles["semaphore"]
      /\ handles'["swapchain"] = handles["swapchain"] /\ handles'["view"] = handles["view"]
      /\ handles'["pass"] = handles["pass"]
  BY <1>3 DEF Kind
<1>5. CASE todo' = Tail(todo)
  BY <1>1, <1>3, <1>4, <1>5, TakenContext
<1>6. CASE todo' = << >>
  <2>1. TodoInv'
    BY <1>6, EmptySteps, Zenon DEF TodoInv
  <2>2. QED
    BY <1>1, <1>3, <1>4, <2>1 DEF ContextInv, InFrame
<1>7. QED
  BY <1>2, <1>5, <1>6

LEMMA SyncContext == ContextInv /\ createSyncObjects => ContextInv'
<1> SUFFICES ASSUME ContextInv, createSyncObjects PROVE ContextInv'
  OBVIOUS
<1>1. /\ Doing("sync") /\ host = "creating" /\ host' = host /\ ready' = TRUE /\ todo' = << >>
      /\ handles \in [Kind -> Nat] /\ alive = handles
  BY DEF createSyncObjects, Doing, ContextInv
<1>2. /\ Head(todo) = "sync" /\ "sync" \in Steps(todo) /\ NoRepeats(todo)
      /\ todo \in Seq(CreationStep) /\ todo # << >>
  BY <1>1, TailSteps DEF Doing, ContextInv, TodoInv
<1>3. ~ready /\ handles["fence"] = 0 /\ handles["semaphore"] = 0
  BY <1>2, Zenon DEF ContextInv, TodoInv
<1>4. /\ handles' = [handles EXCEPT !["fence"] = 2, !["semaphore"] = 4]
      /\ alive' = [alive EXCEPT !["fence"] = @ + 2, !["semaphore"] = @ + 4]
  BY DEF createSyncObjects
<1>5. alive' = handles'
  <2> DEFINE two == [handles EXCEPT !["fence"] = 2]
  <2>1. alive["fence"] + 2 = 2 /\ two["semaphore"] + 4 = 4
    BY <1>1, <1>3 DEF Kind
  <2>2. alive' = [two EXCEPT !["semaphore"] = two["semaphore"] + 4]
    BY <1>1, <1>4, <2>1
  <2>3. QED
    BY <1>4, <2>1, <2>2
<1>6. handles' \in [Kind -> Nat] /\ handles'["pass"] = handles["pass"]
  BY <1>1, <1>4 DEF Kind
<1>7. TodoInv'
  BY <1>1, EmptySteps, Zenon DEF TodoInv
<1>8. handles["pass"] = 1
  <2> SUFFICES ASSUME "pass" \in Steps(todo) PROVE FALSE
    BY <1>2, Zenon DEF ContextInv, TodoInv
  <2>1. Len(todo) \in Nat \ {0} /\ todo[1] = "sync"
    BY <1>2, HeadTailProperties, EmptySeq, LenProperties
  <2>2. todo[Len(todo)] = "sync"
    BY <1>2, Zenon DEF ContextInv, TodoInv
  <2>3. Len(todo) = 1
    <3>1. 1 \in 1 .. Len(todo) /\ Len(todo) \in 1 .. Len(todo)
      BY <2>1
    <3>2. QED
      BY <1>2, <2>1, <2>2, <3>1, Zenon DEF NoRepeats
  <2>4. QED
    BY <2>1, <2>3 DEF Steps
<1>9. QED
  BY <1>1, <1>5, <1>6, <1>7, <1>8 DEF ContextInv, InFrame

LEMMA ConcatSteps ==
  ASSUME NEW s \in Seq(CreationStep), NEW t \in Seq(CreationStep), NoRepeats(s), NoRepeats(t),
         Steps(s) \cap Steps(t) = {}
  PROVE  /\ s \o t \in Seq(CreationStep) /\ NoRepeats(s \o t)
         /\ Steps(s \o t) = Steps(s) \cup Steps(t)
         /\ Steps(t) # {} => (s \o t)[Len(s \o t)] = t[Len(t)]
<1> DEFINE u == s \o t
<1>1. /\ Len(s) \in Nat /\ Len(t) \in Nat /\ u \in Seq(CreationStep) /\ Len(u) = Len(s) + Len(t)
      /\ \A i \in 1 .. Len(u) : u[i] = IF i <= Len(s) THEN s[i] ELSE t[i - Len(s)]
  BY ConcatProperties, LenProperties
<1> HIDE DEF u
<1>2. \A i \in 1 .. Len(u) : i <= Len(s) => i \in 1 .. Len(s) /\ u[i] = s[i]
  BY <1>1
<1>3. \A i \in 1 .. Len(u) : i > Len(s) => i - Len(s) \in 1 .. Len(t) /\ u[i] = t[i - Len(s)]
  BY <1>1
<1>4. \A i \in 1 .. Len(s), j \in 1 .. Len(t) : s[i] # t[j]
  BY DEF Steps
<1>5. NoRepeats(u)
  <2> SUFFICES ASSUME NEW i \in 1 .. Len(u), NEW j \in 1 .. Len(u), u[i] = u[j] PROVE i = j
    BY DEF NoRepeats
  <2>1. CASE i <= Len(s) /\ j <= Len(s)
    BY <1>2, <2>1 DEF NoRepeats
  <2>2. CASE i > Len(s) /\ j > Len(s)
    <3>1. i - Len(s) = j - Len(s)
      BY <1>3, <2>2 DEF NoRepeats
    <3>2. QED
      BY <1>1, <3>1
  <2>3. CASE i <= Len(s) /\ j > Len(s)
    BY <1>2, <1>3, <1>4, <2>3
  <2>4. CASE i > Len(s) /\ j <= Len(s)
    BY <1>2, <1>3, <1>4, <2>4
  <2>5. QED
    BY <1>1, <2>1, <2>2, <2>3, <2>4
<1>6. ASSUME NEW x \in Steps(u) PROVE x \in Steps(s) \cup Steps(t)
  <2>1. PICK i \in 1 .. Len(u) : x = u[i]
    BY <1>6 DEF Steps
  <2>2. CASE i <= Len(s)
    BY <1>2, <2>1, <2>2 DEF Steps
  <2>3. CASE i > Len(s)
    BY <1>3, <2>1, <2>3 DEF Steps
  <2>4. QED
    BY <1>1, <2>2, <2>3
<1>7. ASSUME NEW x \in Steps(s) PROVE x \in Steps(u)
  <2>1. PICK i \in 1 .. Len(s) : x = s[i]
    BY <1>7 DEF Steps
  <2>2. i \in 1 .. Len(u) /\ u[i] = s[i]
    BY <1>1
  <2>3. QED
    BY <2>1, <2>2 DEF Steps
<1>8. ASSUME NEW x \in Steps(t) PROVE x \in Steps(u) /\ u[Len(u)] = t[Len(t)]
  <2>1. PICK i \in 1 .. Len(t) : x = t[i]
    BY <1>8 DEF Steps
  <2>2. Len(s) + i \in 1 .. Len(u) /\ u[Len(s) + i] = t[i]
    <3>1. Len(s) + i \in 1 .. Len(u) /\ ~(Len(s) + i <= Len(s)) /\ (Len(s) + i) - Len(s) = i
      BY <1>1
    <3>2. QED
      BY <1>1, <3>1
  <2>3. Len(u) \in 1 .. Len(u) /\ Len(u) - Len(s) = Len(t) /\ Len(u) > Len(s)
    BY <1>1, <2>1
  <2>4. QED
    BY <1>3, <2>1, <2>2, <2>3 DEF Steps
<1>9. QED
  BY <1>1, <1>5, <1>6, <1>7, <1>8 DEF u

LEMMA TupleInSeq ==
  ASSUME NEW S, NEW a \in S, NEW b \in S, NEW c \in S, NEW d \in S, NEW e \in S
  PROVE  <<a>> \in Seq(S) /\ <<a, b>> \in Seq(S) /\ <<a, b, c>> \in Seq(S)
         /\ <<a, b, c, d, e>> \in Seq(S)
OBVIOUS

LEMMA NamesAreSteps ==
  /\ "instance" \in CreationStep /\ "physical" \in CreationStep /\ "device" \in CreationStep
  /\ "swapchain" \in CreationStep /\ "pass" \in CreationStep /\ "framebuffers" \in CreationStep
  /\ "pool" \in CreationStep /\ "buffers" \in CreationStep /\ "sync" \in CreationStep
BY DEF CreationStep

(* The lists init goes through, with a swapchain and without.              *)
LEMMA ListSteps ==
  ASSUME NEW s \in {<<"instance", "physical", "device">>, <<"swapchain">>, << >>,
                    <<"pass", "framebuffers", "pool", "buffers", "sync">>}
  PROVE  /\ s \in Seq(CreationStep) /\ NoRepeats(s)
         /\ s = <<"instance", "physical", "device">> =>
              Steps(s) = {"instance", "physical", "device"}
         /\ s = <<"swapchain">> => Steps(s) = {"swapchain"}
         /\ s = <<"pass", "framebuffers", "pool", "buffers", "sync">> =>
              /\ Steps(s) = {"pass", "framebuffers", "pool", "buffers", "sync"}
              /\ s[Len(s)] = "sync"
<1>1. CASE s = <<"instance", "physical", "device">>
  <2>1. /\ Len(s) = 3 /\ s[1] = "instance" /\ s[2] = "physical" /\ s[3] = "device"
    BY <1>1
  <2>2. s \in Seq(CreationStep)
    BY <1>1, TupleInSeq, NamesAreSteps, Zenon
  <2>3. QED
    BY <1>1, <2>1, <2>2 DEF NoRepeats, Steps
<1>2. CASE s = <<"swapchain">>
  <2>1. /\ Len(s) = 1 /\ s \in Seq(CreationStep) /\ s[1] = "swapchain"
    BY <1>2, TupleInSeq, NamesAreSteps
  <2>2. QED
    BY <1>2, <2>1 DEF NoRepeats, Steps
<1>3. CASE s = << >>
  BY <1>3, EmptySteps
<1>4. CASE s = <<"pass", "framebuffers", "pool", "buffers", "sync">>
  <2>1. /\ Len(s) = 5 /\ s[1] = "pass" /\ s[2] = "framebuffers" /\ s[3] = "pool"
        /\ s[4] = "buffers" /\ s[5] = "sync"
    BY <1>4
  <2>2. s \in Seq(CreationStep)
    BY <1>4, TupleInSeq, NamesAreSteps, Zenon
  <2>3. NoRepeats(s)
    BY <2>1 DEF NoRepeats
  <2>4. Steps(s) = {"pass", "framebuffers", "pool", "buffers", "sync"}
    BY <1>4 DEF Steps
  <2>5. QED
    BY <1>4, <2>1, <2>2, <2>3, <2>4
<1>5. QED
  BY <1>1, <1>2, <1>3, <1>4

LEMMA InitVulkanContext == ContextInv /\ InitVulkan => ContextInv'
<1> SUFFICES ASSUME ContextInv, InitVulkan PROVE ContextInv'
  OBVIOUS
<1> DEFINE start == <<"instance", "physical", "device">>
           rest == <<"pass", "framebuffers", "pool", "buffers", "sync">>
<1>1. PICK maybe \in {<<"swapchain">>, << >>} : todo' = start \o maybe \o rest
  BY DEF InitVulkan
<1>2. /\ host = "none" /\ host' = "creating" /\ UNCHANGED <<ready, handles, alive>>
      /\ handles = None /\ ~ready
  BY DEF InitVulkan, NewExecutor, objectVars, ContextInv
<1>3. /\ start \in Seq(CreationStep) /\ NoRepeats(start) /\ Steps(start) = {"instance", "physical", "device"}
      /\ rest \in Seq(CreationStep) /\ NoRepeats(rest) /\ rest[Len(rest)] = "sync"
      /\ Steps(rest) = {"pass", "framebuffers", "pool", "buffers", "sync"}
      /\ maybe \in Seq(CreationStep) /\ NoRepeats(maybe) /\ Steps(maybe) \subseteq {"swapchain"}
  BY ListSteps, EmptySteps
<1> HIDE DEF start, rest
<1> DEFINE begin == start \o maybe
<1>4. /\ begin \in Seq(CreationStep) /\ NoRepeats(begin)
      /\ Steps(begin) \subseteq {"instance", "physical", "device", "swapchain"}
  <2>1. Steps(start) \cap Steps(maybe) = {}
    BY <1>3
  <2>2. QED
    BY <1>3, <2>1, ConcatSteps
<1> HIDE DEF begin
<1>5. /\ begin \o rest \in Seq(CreationStep) /\ NoRepeats(begin \o rest) /\ "pass" \in Steps(begin \o rest)
      /\ (begin \o rest)[Len(begin \o rest)] = "sync"
  <2>1. Steps(begin) \cap Steps(rest) = {} /\ Steps(rest) # {} /\ "pass" \in Steps(rest)
    BY <1>3, <1>4
  <2>2. QED
    BY <1>3, <1>4, <2>1, ConcatSteps
<1>6. todo' = begin \o rest
  BY <1>1 DEF begin
<1>7. /\ todo' \in Seq(CreationStep) /\ NoRepeats(todo)' /\ todo'[Len(todo')] = "sync"
      /\ "pass" \in Steps(todo)'
  BY <1>5, <1>6 DEF Steps, NoRepeats
<1>8. TodoInv'
  BY <1>2, <1>7 DEF TodoInv, None, Kind
<1>9. QED
  BY <1>2, <1>8 DEF ContextInv, InFrame, Host

LEMMA InitFromExistingContext == ContextInv /\ InitFromExisting => ContextInv'
<1> SUFFICES ASSUME ContextInv, InitFromExisting PROVE ContextInv'
  OBVIOUS
<1>1. PICK given \in {{"device"}, {"device", "swapchain"}} :
        /\ handles' = [k \in Kind |-> IF k \in given THEN 1 ELSE 0]
        /\ alive' = handles'
  BY DEF InitFromExisting
<1>2. /\ host = "none" /\ host' = "creating" /\ ready' = ready /\ ~ready
      /\ todo' = <<"pass", "framebuffers", "pool", "buffers", "sync">>
  BY DEF InitFromExisting, NewExecutor, ContextInv
<1>3. /\ handles' \in [Kind -> Nat] /\ handles'["pass"] = 0
      /\ handles'["fence"] = 0 /\ handles'["semaphore"] = 0
  BY <1>1 DEF Kind
<1>4. /\ todo' \in Seq(CreationStep) /\ NoRepeats(todo)' /\ todo'[Len(todo')] = "sync"
      /\ "pass" \in Steps(todo)' /\ "swapchain" \notin Steps(todo)'
  <2> DEFINE rest == <<"pass", "framebuffers", "pool", "buffers", "sync">>
  <2>1. /\ rest \in Seq(CreationStep) /\ NoRepeats(rest) /\ rest[Len(rest)] = "sync"
        /\ Steps(rest) = {"pass", "framebuffers", "pool", "buffers", "sync"}
    BY ListSteps
  <2> HIDE DEF rest
  <2>2. todo' = rest
    BY <1>2 DEF rest
  <2>3. todo' \in Seq(CreationStep) /\ todo'[Len(todo')] = "sync"
    BY <2>1, <2>2
  <2>4. NoRepeats(todo)'
    BY <2>1, <2>2 DEF NoRepeats
  <2>5. "pass" \in Steps(todo)' /\ "swapchain" \notin Steps(todo)'
    BY <2>1, <2>2 DEF Steps
  <2>6. QED
    BY <2>3, <2>4, <2>5
<1>5. TodoInv'
  BY <1>2, <1>3, <1>4, Zenon DEF TodoInv
<1>6. QED
  BY <1>1, <1>2, <1>3, <1>5 DEF ContextInv, InFrame, Host

LEMMA PresetContext == ContextInv /\ setQualityPreset => ContextInv'
<1> SUFFICES ASSUME ContextInv, setQualityPreset PROVE ContextInv'
  OBVIOUS
<1>1. /\ host = "idle" /\ host' = "creating" /\ ready' = ready
      /\ todo = << >> /\ handles \in [Kind -> Nat] /\ alive = handles
  BY DEF setQualityPreset, setResolution, ContextInv, TodoInv
<1>2. CASE UNCHANGED <<handles, alive, todo>>
  BY <1>1, <1>2, SameContext DEF Host, InFrame
<1>3. CASE \E kinds \in {{"framebuffer", "view", "swapchain"}, {"framebuffer"}} :
             /\ Destroyed(kinds)
             /\ IF "view" \in kinds THEN todo' = <<"swapchain", "framebuffers">>
                                    ELSE todo' = <<"framebuffers">>
  <2>1. PICK kinds \in {{"framebuffer", "view", "swapchain"}, {"framebuffer"}} :
          /\ Destroyed(kinds)
          /\ IF "view" \in kinds THEN todo' = <<"swapchain", "framebuffers">>
                                 ELSE todo' = <<"framebuffers">>
    BY <1>3
  <2>2. /\ handles' \in [Kind -> Nat] /\ alive' = handles'
        /\ \A k \in Kind : handles'[k] = IF k \in kinds THEN 0 ELSE handles[k]
    BY <1>1, <2>1 DEF Destroyed
  <2>3. /\ handles'["pass"] = handles["pass"] /\ handles'["fence"] = handles["fence"]
        /\ handles'["semaphore"] = handles["semaphore"]
        /\ "view" \in kinds => handles'["swapchain"] = 0 /\ handles'["view"] = 0
    BY <2>2 DEF Kind
  <2>4. /\ todo' \in Seq(CreationStep) /\ NoRepeats(todo)'
        /\ "pass" \notin Steps(todo)' /\ "sync" \notin Steps(todo)'
        /\ "swapchain" \in Steps(todo)' => "view" \in kinds
    <3>1. CASE "view" \in kinds
      <4>1. todo' = <<"swapchain", "framebuffers">>
        BY <2>1, <3>1
      <4>2. todo' \in Seq(CreationStep)
        BY <4>1, TupleInSeq, NamesAreSteps, Zenon
      <4>3. Len(todo') = 2 /\ todo'[1] = "swapchain" /\ todo'[2] = "framebuffers"
        BY <4>1
      <4>4. QED
        BY <3>1, <4>2, <4>3 DEF Steps, NoRepeats
    <3>2. CASE "view" \notin kinds
      <4>1. todo' = <<"framebuffers">>
        BY <2>1, <3>2, Zenon
      <4>2. todo' \in Seq(CreationStep)
        BY <4>1, NamesAreSteps
      <4>3. Len(todo') = 1 /\ todo'[1] = "framebuffers"
        BY <4>1
      <4>4. QED
        BY <4>2, <4>3 DEF Steps, NoRepeats
    <3>3. QED
      BY <3>1, <3>2
  <2>5. TodoInv'
    BY <1>1, <2>3, <2>4, Zenon DEF TodoInv
  <2>6. QED
    BY <1>1, <2>2, <2>3, <2>5 DEF ContextInv, InFrame, Host
<1>4. QED
  BY <1>2, <1>3 DEF setQualityPreset, setResolution

LEMMA CloseContext == ContextInv /\ Close => ContextInv'
<1> SUFFICES ASSUME ContextInv, Close PROVE ContextInv'
  OBVIOUS
<1>1. /\ host' = "none" /\ ready' = FALSE /\ todo' = << >> /\ Destroyed(Kind)
      /\ handles \in [Kind -> Nat] /\ alive = handles
  BY DEF Close, ContextInv, TodoInv
<1>2. handles' = None /\ alive' = None
  BY <1>1 DEF Destroyed, None
<1>3. TodoInv'
  BY <1>1, EmptySteps, Zenon DEF TodoInv
<1>4. QED
  BY <1>1, <1>2, <1>3 DEF ContextInv, InFrame, Host, None, Kind

LEMMA ContextNext == ContextInv /\ [FramesNext]_framesVars => ContextInv'
<1> SUFFICES ASSUME ContextInv, [FramesNext]_framesVars PROVE ContextInv'
  OBVIOUS
<1> USE DEF objectVars
<1>1. CASE InitVulkan
  BY <1>1, InitVulkanContext
<1>2. CASE InitFromExisting
  BY <1>2, InitFromExistingContext
<1>3. CASE Creating
  <2>1. CASE createInstance
    BY <2>1, CreateOneContext DEF createInstance, Kind
  <2>2. CASE createLogicalDevice
    BY <2>2, CreateOneContext DEF createLogicalDevice, Kind
  <2>3. CASE createRenderPass
    BY <2>3, CreateOneContext DEF createRenderPass, Kind
  <2>4. CASE createCommandPool
    BY <2>4, CreateOneContext DEF createCommandPool, Kind
  <2>5. CASE pickPhysicalDevice \/ createCommandBuffers
    BY <2>5, ChooseContext DEF pickPhysicalDevice, createCommandBuffers
  <2>6. CASE createSwapchain
    BY <2>6, SwapchainContext
  <2>7. CASE createFramebuffers
    BY <2>7, FramebuffersContext
  <2>8. CASE createSyncObjects
    BY <2>8, SyncContext
  <2>9. CASE CreationEnds
    BY <2>9, SameContext DEF CreationEnds, Host, InFrame
  <2>10. QED
    BY <1>3, <2>1, <2>2, <2>3, <2>4, <2>5, <2>6, <2>7, <2>8, <2>9 DEF Creating
<1>4. ASSUME BeginExecute \/ BeginRecording \/ Draw \/ Dispatch PROVE ContextInv'
  <2>1. /\ UNCHANGED <<todo, ready, handles, alive>> /\ host # "creating"
        /\ host' \in {"wait", "crashed", "record", "dispatch", "submit"}
        /\ host' # "crashed" => ready
    BY <1>4 DEF BeginExecute, BeginRecording, Draw, Dispatch, ContextInv, InFrame
  <2>2. QED
    BY <2>1, SameContext DEF ContextInv, TodoInv, Host, InFrame
<1>5. ASSUME Submit \/ Upload \/ Drained \/ Shutdown PROVE ContextInv'
  <2>1. /\ UNCHANGED <<todo, ready, handles, alive>> /\ host # "creating"
        /\ host' \in {"drain", "idle", "closing"}
        /\ host' = "drain" => ready
    BY <1>5 DEF Submit, Upload, Drained, Shutdown, ContextInv, InFrame
  <2>2. QED
    BY <2>1, SameContext DEF ContextInv, TodoInv, Host, InFrame
<1>6. CASE setQualityPreset
  BY <1>6, PresetContext
<1>7. CASE Close
  BY <1>7, CloseContext
<1>8. CASE GpuCompletes \/ UNCHANGED framesVars
  <2>1. UNCHANGED <<host, todo, ready, handles, alive>>
    BY <1>8 DEF GpuCompletes, framesVars
  <2>2. QED
    BY <2>1 DEF ContextInv, TodoInv, Steps, NoRepeats
<1>9. CASE CloseCrashes
  <2>1. UNCHANGED <<todo, ready, handles, alive>> /\ host = "closing" /\ host' = "crashed"
    BY <1>9 DEF CloseCrashes
  <2>2. QED
    BY <2>1, SameContext DEF ContextInv, TodoInv, Host, InFrame
<1>10. QED
  BY <1>1, <1>2, <1>3, <1>4, <1>5, <1>6, <1>7, <1>8, <1>9 DEF FramesNext

LEMMA ContextAlways == FramesSpec => []ContextInv
<1>1. FramesInit => ContextInv
  BY InitContext
<1>2. ContextInv /\ [FramesNext]_framesVars => ContextInv'
  BY ContextNext
<1>3. QED
  BY <1>1, <1>2, PTL DEF FramesSpec

\* Shutdown destroys all the context has a handle of, and nothing twice, for any
\* number of images and wherever a creation failed: no step of the list init or
\* recreateSwapchain works through is repeated, and each finds no handle of its
\* kind, so that the handles are at all times exactly the objects of these kinds.
\* The images of offscreen framebuffers, pipelines and a given surface are not
\* among them: those are leaked.
THEOREM HeldObjectsAreDestroyed == FramesSpec => []HeldObjectsGo
<1>1. ContextInv => HeldObjectsGo
  BY DEF ContextInv, HeldObjectsGo
<1>2. QED
  BY <1>1, ContextAlways, PTL

-----------------------------------------------------------------------------
(* The GPU.  A slot is in the queue at most once, and its fence is down for *)
(* as long as it is there; the slot being recorded has its fence down too.  *)

LEMMA AppendQueue ==
  ASSUME NEW q, NEW up, QueueInv(q, up), NEW x \in 0 .. 2, x \in Slot => ~up[x],
         \A i \in 1 .. Len(q) : q[i] = x => x = 2
  PROVE  QueueInv(Append(q, x), up)
<1> DEFINE r == Append(q, x)
<1>1. Len(q) \in Nat /\ q \in Seq(0 .. 2)
  BY LenProperties DEF QueueInv
<1>2. /\ r \in Seq(0 .. 2) /\ Len(r) = Len(q) + 1
      /\ \A i \in 1 .. Len(q) : r[i] = q[i]
      /\ r[Len(q) + 1] = x
  BY <1>1, AppendProperties
<1> HIDE DEF r
<1>3. \A i \in 1 .. Len(r) : i \in 1 .. Len(q) \/ i = Len(q) + 1
  BY <1>1, <1>2
<1>4. QueueInv(r, up)
  BY <1>2, <1>3 DEF QueueInv
<1>5. QED
  BY <1>4 DEF r

LEMMA EmptyQueue == ASSUME NEW up PROVE QueueInv(<< >>, up)
<1>1. << >> \in Seq(0 .. 2) /\ Len(<< >>) = 0
  BY EmptySeq
<1>2. QED
  BY <1>1 DEF QueueInv

LEMMA GpuSame ==
  ASSUME GpuInv, UNCHANGED gpuVars, ready' \in BOOLEAN, ready => ready',
         host' \in Recording => host \in Recording
  PROVE  GpuInv'
BY DEF GpuInv, gpuVars, QueueInv

LEMMA GpuNext ==
  ContextInv /\ GpuInv /\ [FramesNext]_framesVars => GpuInv'
<1> SUFFICES ASSUME ContextInv, GpuInv, [FramesNext]_framesVars PROVE GpuInv'
  OBVIOUS
<1>0. ready \in BOOLEAN
  BY DEF ContextInv
<1>1. ASSUME InitVulkan \/ InitFromExisting PROVE GpuInv'
  <2>1. UNCHANGED gpuVars /\ ready' = ready /\ host' = "creating"
    BY <1>1 DEF InitVulkan, InitFromExisting, NewExecutor
  <2>2. QED
    BY <1>0, <2>1, GpuSame DEF Recording
<1>2. CASE createSyncObjects
  <2>1. host = "creating" /\ host' = host /\ fence' = Signaled /\ current' = 0 /\ queue' = queue
        /\ ready' = TRUE
    BY <1>2 DEF createSyncObjects, Doing
  <2>2. ~ready
    BY <1>2, TailSteps DEF createSyncObjects, Doing, ContextInv, TodoInv
  <2>3. queue' = << >>
    BY <2>1, <2>2 DEF GpuInv
  <2>4. QueueInv(queue, fence)'
    BY <2>3, EmptyQueue
  <2>5. QED
    BY <2>1, <2>3, <2>4 DEF GpuInv, Signaled, Slot, Recording
<1>3. CASE Creating /\ ~createSyncObjects
  <2>1. UNCHANGED gpuVars /\ ready' = ready /\ host' \in {"creating", "idle"}
    BY <1>3 DEF Creating, createInstance, createLogicalDevice, createRenderPass,
         createCommandPool, CreateOne, pickPhysicalDevice, createCommandBuffers, Choose,
         createSwapchain, createFramebuffers, CreationEnds, GiveUp, Doing
  <2>2. QED
    BY <1>0, <2>1, GpuSame DEF Recording
<1>4. ASSUME BeginExecute \/ Drained \/ Shutdown \/ setQualityPreset \/ CloseCrashes
      PROVE  GpuInv'
  <2>1. UNCHANGED gpuVars /\ ready' = ready
        /\ host' \in {"wait", "crashed", "idle", "closing", "creating"}
    BY <1>4 DEF BeginExecute, Drained, Shutdown, setQualityPreset, setResolution, CloseCrashes
  <2>2. QED
    BY <1>0, <2>1, GpuSame DEF Recording
<1>5. ASSUME Draw \/ Dispatch PROVE GpuInv'
  <2>1. UNCHANGED gpuVars /\ ready' = ready /\ host \in Recording
    BY <1>5 DEF Draw, Dispatch, Recording
  <2>2. QED
    BY <1>0, <2>1, GpuSame
<1>6. CASE BeginRecording
  <2>1. /\ fence[current] /\ fence' = [fence EXCEPT ![current] = FALSE]
        /\ UNCHANGED <<ready, current, queue>> /\ current \in Slot /\ fence \in [Slot -> BOOLEAN]
    BY <1>6 DEF BeginRecording, Reset, GpuInv
  <2>2. \A i \in 1 .. Len(queue) : queue[i] # current
    BY <2>1 DEF GpuInv, QueueInv
  <2>3. fence' \in [Slot -> BOOLEAN] /\ ~fence'[current]
        /\ \A s \in Slot : ~fence[s] => ~fence'[s]
    BY <2>1
  <2>4. QueueInv(queue, fence)'
    BY <2>1, <2>3 DEF GpuInv, QueueInv
  <2>5. QED
    BY <2>1, <2>2, <2>3, <2>4 DEF GpuInv
<1>7. CASE Submit
  <2>1. /\ host \in Recording /\ host' \in {"drain", "idle"} /\ ready /\ ready' = ready
        /\ current' = (current + 1) % 2 /\ fence' = fence
        /\ queue' \in {Append(queue, current) \o << >>, Append(queue, current) \o <<2>>}
    BY <1>7 DEF Submit, endFrame, Recording, ContextInv, InFrame
  <2>2. /\ ~fence[current] /\ \A i \in 1 .. Len(queue) : queue[i] # current
        /\ current \in 0 .. 1 /\ current \in 0 .. 2 /\ current' \in Slot
    BY <2>1 DEF GpuInv, Slot
  <2> DEFINE q == Append(queue, current)
  <2>3. QueueInv(q, fence)
    BY <2>2, AppendQueue DEF GpuInv
  <2>4. QueueInv(Append(q, 2), fence)
    BY <2>3, AppendQueue DEF Slot
  <2>5. q \o << >> = q /\ q \o <<2>> = Append(q, 2)
    BY <2>3, ConcatEmptySeq, AppendIsConcat DEF QueueInv
  <2>6. QueueInv(queue, fence)'
    <3> HIDE DEF q
    <3>1. queue' \in {q \o << >>, q \o <<2>>}
      BY <2>1 DEF q
    <3>2. QED
      BY <2>1, <2>3, <2>4, <2>5, <3>1
  <2>7. QED
    BY <2>1, <2>2, <2>6 DEF GpuInv, Recording
<1>8. CASE Upload
  <2>1. /\ host' = "drain" /\ ready /\ ready' = ready /\ UNCHANGED <<current, fence>>
        /\ queue' = Append(queue, 2)
    BY <1>8 DEF Upload
  <2>2. QueueInv(Append(queue, 2), fence)
    BY AppendQueue DEF Slot, GpuInv
  <2>3. QED
    BY <2>1, <2>2 DEF GpuInv, Recording
<1>9. CASE Close
  <2>1. /\ host' = "none" /\ queue' = << >> /\ current' = 0 /\ fence' = Signaled
    BY <1>9 DEF Close, waitIdle
  <2>2. QueueInv(queue, fence)'
    BY <2>1, EmptyQueue
  <2>3. QED
    BY <2>1, <2>2 DEF GpuInv, Recording, Signaled, Slot
<1>10. CASE GpuCompletes
  <2> DEFINE t == Tail(queue)
  <2>1. /\ queue # << >> /\ queue' = t /\ UNCHANGED <<host, ready, current>>
        /\ fence' = [s \in Slot |-> fence[s] \/ s = Head(queue)]
        /\ queue \in Seq(0 .. 2) /\ fence \in [Slot -> BOOLEAN] /\ current \in Slot
    BY <1>10 DEF GpuCompletes, GpuInv, QueueInv
  <2>2. /\ Len(queue) \in Nat \ {0} /\ t \in Seq(0 .. 2) /\ Len(t) = Len(queue) - 1
        /\ Head(queue) = queue[1] /\ \A i \in 1 .. Len(t) : t[i] = queue[i + 1]
    BY <2>1, HeadTailProperties, EmptySeq, LenProperties
  <2> HIDE DEF t
  <2>3. \A i \in 1 .. Len(t) : i + 1 \in 1 .. Len(queue) /\ 1 \in 1 .. Len(queue) /\ i + 1 # 1
    BY <2>2
  <2>4. \A s \in Slot : fence'[s] <=> fence[s] \/ s = queue[1]
    BY <2>1, <2>2
  <2>5. \A i \in 1 .. Len(t) : t[i] \in Slot => ~fence'[t[i]]
    <3> SUFFICES ASSUME NEW i \in 1 .. Len(t), t[i] \in Slot PROVE ~fence'[t[i]]
      OBVIOUS
    <3>1. queue[i + 1] \in Slot /\ ~fence[queue[i + 1]] /\ queue[i + 1] # 2
      BY <2>2, <2>3 DEF GpuInv, QueueInv, Slot
    <3>2. queue[i + 1] # queue[1]
      BY <2>3, <3>1 DEF GpuInv, QueueInv
    <3>3. QED
      BY <2>2, <2>4, <3>1, <3>2
  <2>6. \A i, j \in 1 .. Len(t) : t[i] = t[j] /\ i # j => t[i] = 2
    <3> SUFFICES ASSUME NEW i \in 1 .. Len(t), NEW j \in 1 .. Len(t), t[i] = t[j], i # j
                 PROVE  t[i] = 2
      OBVIOUS
    <3>1. queue[i + 1] = queue[j + 1] /\ i + 1 # j + 1
      BY <2>2
    <3>2. QED
      BY <2>2, <2>3, <3>1 DEF GpuInv, QueueInv
  <2>7. QueueInv(queue, fence)'
    BY <2>1, <2>2, <2>5, <2>6 DEF QueueInv
  <2>8. host \in Recording => ~fence'[current] /\ \A i \in 1 .. Len(t) : t[i] # current
    BY <2>1, <2>2, <2>3, <2>4 DEF GpuInv
  <2>9. ready
    BY <2>1 DEF GpuInv
  <2>10. QED
    BY <2>1, <2>7, <2>8, <2>9 DEF GpuInv
<1>11. CASE UNCHANGED framesVars
  BY <1>11, GpuSame, <1>0 DEF framesVars
<1>12. QED
  BY <1>1, <1>2, <1>3, <1>4, <1>5, <1>6, <1>7, <1>8, <1>9, <1>10, <1>11 DEF FramesNext

LEMMA GpuAlways == FramesSpec => []GpuInv
<1>1. FramesInit => GpuInv
  <2> SUFFICES ASSUME FramesInit PROVE GpuInv
    OBVIOUS
  <2>1. QueueInv(queue, fence)
    BY EmptyQueue DEF FramesInit
  <2>2. QED
    BY <2>1 DEF FramesInit, GpuInv, Slot, Recording
<1>2. QED
  BY <1>1, ContextAlways, GpuNext, PTL DEF FramesSpec

\* A command buffer that is recorded is not with the GPU: its fence was waited
\* for and reset, and the fence of every buffer in the queue is down until the
\* GPU has run it.
THEOREM RecordingIsSafe == FramesSpec => []RecordedIsIdle
<1>1. GpuInv => RecordedIsIdle
  BY DEF GpuInv, QueueInv, RecordedIsIdle, Recording, Contains
<1>2. QED
  BY <1>1, GpuAlways, PTL

-----------------------------------------------------------------------------
(* The histories.  The frame being drawn has the number before the next,    *)
(* and only endFrame makes its history valid.                               *)

LEMMA HistorySame ==
  ASSUME HistoryInv, UNCHANGED historyVars, host' \in InFrame => host \in InFrame
  PROVE  HistoryInv'
BY DEF HistoryInv, historyVars

LEMMA NewHistory ==
  ASSUME NewHistories, frame' \in Nat, host' \notin InFrame
  PROVE  HistoryInv'
BY DEF HistoryInv, NewHistories, NoHistory, Slot

LEMMA HistoryNext == HistoryInv /\ [FramesNext]_framesVars => HistoryInv'
<1> SUFFICES ASSUME HistoryInv, [FramesNext]_framesVars PROVE HistoryInv'
  OBVIOUS
<1>1. ASSUME InitVulkan \/ InitFromExisting \/ (Creating /\ ~createSyncObjects)
      PROVE  HistoryInv'
  <2>1. UNCHANGED historyVars /\ host' \in {"creating", "idle"}
    BY <1>1 DEF InitVulkan, InitFromExisting, NewExecutor, Creating, createInstance,
         createLogicalDevice, createRenderPass, createCommandPool, CreateOne,
         pickPhysicalDevice, createCommandBuffers, Choose, createSwapchain,
         createFramebuffers, CreationEnds, Doing
  <2>2. QED
    BY <2>1, HistorySame DEF InFrame
<1>2. CASE createSyncObjects
  BY <1>2, NewHistory DEF createSyncObjects, Doing, InFrame
<1>3. CASE setQualityPreset
  BY <1>3, NewHistory DEF setQualityPreset, setResolution, InFrame, HistoryInv
<1>4. CASE Close
  BY <1>4, NewHistory DEF Close, InFrame
<1>5. ASSUME Upload \/ Drained \/ Shutdown \/ CloseCrashes PROVE HistoryInv'
  BY <1>5, HistorySame DEF Upload, Drained, Shutdown, CloseCrashes, InFrame
<1>6. ASSUME BeginRecording \/ Draw \/ Dispatch PROVE HistoryInv'
  BY <1>6, HistorySame DEF BeginRecording, Draw, Dispatch, InFrame
<1>7. ASSUME GpuCompletes \/ UNCHANGED framesVars PROVE HistoryInv'
  BY <1>7, HistorySame DEF GpuCompletes, framesVars
<1>8. CASE BeginExecute
  <2>1. CASE ready
    <3>1. /\ side \in 0 .. 1 /\ side' = 1 - side /\ side' \in Slot /\ 1 - side' = side
          /\ frame \in Nat /\ frame' = frame + 1 /\ host' = "wait"
          /\ history \in [Slot -> [valid : BOOLEAN, frame : Nat]]
          /\ history' = [history EXCEPT ![side'] = [valid |-> FALSE, frame |-> frame]]
      BY <1>8, <2>1 DEF BeginExecute, FlipHistory, HistoryInv, Slot
    <3>2. /\ history' \in [Slot -> [valid : BOOLEAN, frame : Nat]]
          /\ history'[side'] = [valid |-> FALSE, frame |-> frame]
          /\ history'[side] = history[side]
      BY <3>1 DEF Slot
    <3>3. QED
      BY <3>1, <3>2 DEF HistoryInv
  <2>2. CASE ~ready
    BY <1>8, <2>2, HistorySame DEF BeginExecute, InFrame
  <2>3. QED
    BY <2>1, <2>2
<1>9. CASE Submit
  <2>1. /\ host' \notin InFrame /\ UNCHANGED <<side, frame>>
        /\ history' = [history EXCEPT ![side].valid = TRUE]
        /\ side \in Slot /\ 1 - side \in Slot /\ 1 - side # side /\ frame \in Nat
        /\ history \in [Slot -> [valid : BOOLEAN, frame : Nat]]
        /\ history[side].frame + 1 = frame
    BY <1>9 DEF Submit, InFrame, HistoryInv, Slot
  <2>2. /\ history' \in [Slot -> [valid : BOOLEAN, frame : Nat]]
        /\ history'[side].frame = history[side].frame
        /\ history'[1 - side] = history[1 - side]
    BY <2>1
  <2>3. QED
    BY <2>1, <2>2 DEF HistoryInv
<1>10. QED
  BY <1>1, <1>2, <1>3, <1>4, <1>5, <1>6, <1>7, <1>8, <1>9 DEF FramesNext

\* The history of the frame before is of that frame and no other, through any
\* number of frames and changes of resolution, and the current one is never
\* taken for complete.
THEOREM HistoryIsOfTheFrameBefore == FramesSpec => []HistoryIsPreviousFrame
<1>1. FramesInit => HistoryInv
  BY DEF FramesInit, HistoryInv, NoHistory, Slot, InFrame
<1>2. HistoryInv => HistoryIsPreviousFrame
  BY DEF HistoryInv, HistoryIsPreviousFrame, InFrame
<1>3. QED
  BY <1>1, <1>2, HistoryNext, PTL DEF FramesSpec

-----------------------------------------------------------------------------
(* The pipelines are made while a frame is recorded, for which the context  *)
(* has a render pass, and go with it.                                       *)

LEMMA PipelinesNext ==
  ContextInv /\ PipelinesInv /\ [FramesNext]_framesVars => PipelinesInv'
<1> SUFFICES ASSUME ContextInv, PipelinesInv, [FramesNext]_framesVars PROVE PipelinesInv'
  OBVIOUS
<1>1. ASSUME UNCHANGED pipelines, ready => ready' PROVE PipelinesInv'
  BY <1>1 DEF PipelinesInv
<1>2. ASSUME InitVulkan \/ InitFromExisting \/ Creating PROVE PipelinesInv'
  <2>1. CASE createSyncObjects
    BY <1>1, <2>1, Zenon DEF createSyncObjects
  <2>2. CASE ~createSyncObjects
    <3>1. UNCHANGED <<pipelines, ready>>
      BY <1>2, <2>2 DEF InitVulkan, InitFromExisting, Creating, createInstance,
           createLogicalDevice, createRenderPass, createCommandPool, CreateOne,
           pickPhysicalDevice, createCommandBuffers, Choose, createSwapchain,
           createFramebuffers, CreationEnds
    <3>2. QED
      BY <1>1, <3>1
  <2>3. QED
    BY <2>1, <2>2
<1>3. ASSUME BeginExecute \/ BeginRecording \/ Submit \/ Upload \/ Drained \/ Shutdown
             \/ setQualityPreset \/ CloseCrashes \/ GpuCompletes \/ UNCHANGED framesVars
      PROVE  PipelinesInv'
  <2>1. UNCHANGED <<pipelines, ready>>
    BY <1>3 DEF BeginExecute, BeginRecording, Submit, Upload, Drained, Shutdown,
         setQualityPreset, setResolution, CloseCrashes, GpuCompletes, framesVars
  <2>2. QED
    BY <1>1, <2>1
<1>4. ASSUME Draw \/ Dispatch PROVE PipelinesInv'
  <2>1. ready /\ ready' = ready
    BY <1>4 DEF Draw, Dispatch, ContextInv, InFrame
  <2>2. pipelines' \in [Graphics \cup Compute -> {"absent", "null", "made"}]
    <3>1. CASE UNCHANGED pipelines
      BY <3>1 DEF PipelinesInv
    <3>2. ASSUME NEW s \in Graphics \cup Compute, NEW p \in {"null", "made"},
                 pipelines' = [pipelines EXCEPT ![s] = IF @ = "absent" THEN p ELSE @]
          PROVE  pipelines' \in [Graphics \cup Compute -> {"absent", "null", "made"}]
      BY <3>2 DEF PipelinesInv
    <3>3. ASSUME NEW s \in Graphics \cup Compute,
                 getOrCreateGraphicsPipeline(s) \/ getOrCreateComputePipeline(s)
          PROVE  pipelines' \in [Graphics \cup Compute -> {"absent", "null", "made"}]
      BY <3>2, <3>3, Zenon DEF getOrCreateGraphicsPipeline, getOrCreateComputePipeline,
         createGraphicsPipeline, createComputePipeline
    <3>4. QED
      BY <1>4, <3>1, <3>3, Zenon DEF Draw, Dispatch, executeDrawCommands, executeComputeDispatches
  <2>3. QED
    BY <2>1, <2>2 DEF PipelinesInv
<1>5. CASE Close
  BY <1>5 DEF Close, Forgotten, NoPipelines, PipelinesInv
<1>6. QED
  BY <1>2, <1>3, <1>4, <1>5 DEF FramesNext

\* A pipeline that can be drawn with was made for the render pass of the context
\* there is: only a started context makes one, there is a render pass as long
\* as it runs, and both go together.
THEOREM PipelinesAreForThePass == FramesSpec => []PipelinesFitThePass
<1>1. FramesInit => PipelinesInv
  BY DEF FramesInit, PipelinesInv, NoPipelines
<1>2. PipelinesInv /\ ContextInv => PipelinesFitThePass
  BY DEF PipelinesInv, ContextInv, PipelinesFitThePass
<1>3. QED
  BY <1>1, <1>2, ContextAlways, PipelinesNext, PTL DEF FramesSpec

=============================================================================
