---------------------------- MODULE MachineProofs ----------------------------
(***************************************************************************)
(* Proofs about Machine, for any threads, registers and values.  Every     *)
(* instruction is of one of ten shapes; each shape names registers that    *)
(* exist and writes only after its last check, and so does what is left of *)
(* it after each step.  A register is lost between slices exactly if no    *)
(* context holds it.                                                       *)
(***************************************************************************)
EXTENDS Machine, TLAPS

Op(S) == [op : {"check", "fail", "write", "store"}, to : SUBSET S]

Writes(o) == o.op = "write" /\ o.to # {}
MayFail(o) == o.op \in {"check", "fail"}

\* No check comes after a write.
Ordered(i) == \A j, k \in 1 .. Len(i) : j < k /\ Writes(i[j]) => ~MayFail(i[k])

Good(S) == {i \in Seq(Op(S)) : Ordered(i)}

-----------------------------------------------------------------------------
(* The shapes.                                                             *)

LEMMA OpsTyped ==
  ASSUME NEW S, NEW d \in SUBSET S
  PROVE  /\ Write(d) \in Op(S) /\ Check \in Op(S) /\ Fail \in Op(S) /\ Store \in Op(S)
         /\ ~MayFail(Write(d)) /\ ~MayFail(Store)
         /\ ~Writes(Check) /\ ~Writes(Fail) /\ ~Writes(Store)
BY DEF Write, Check, Fail, Store, Op, MayFail, Writes

LEMMA Shape1 ==
  ASSUME NEW S, NEW a \in Op(S)
  PROVE  <<a>> \in Good(S) /\ <<>> \in Good(S)
BY DEF Good, Ordered

LEMMA Shape2 ==
  ASSUME NEW S, NEW a \in Op(S), NEW b \in Op(S), ~Writes(a)
  PROVE  <<a, b>> \in Good(S)
<1>1. <<a, b>> \in Seq(Op(S))
  OBVIOUS
<1>2. \A j, k \in 1 .. 2 : j < k => j = 1
  OBVIOUS
<1> QED
  BY <1>1, <1>2 DEF Good, Ordered

LEMMA Shape3 ==
  ASSUME NEW S, NEW a \in Op(S), NEW b \in Op(S), NEW c \in Op(S),
         ~Writes(a), ~MayFail(c)
  PROVE  <<a, b, c>> \in Good(S)
<1>1. <<a, b, c>> \in Seq(Op(S))
  OBVIOUS
<1>2. \A j, k \in 1 .. 3 : j < k => j = 1 \/ k = 3
  OBVIOUS
<1> QED
  BY <1>1, <1>2 DEF Good, Ordered

LEMMA Shape4 ==
  ASSUME NEW S, NEW a \in Op(S), NEW b \in Op(S), NEW c \in Op(S), NEW d \in Op(S),
         ~Writes(a), ~Writes(b), ~MayFail(d)
  PROVE  <<a, b, c, d>> \in Good(S)
<1>1. <<a, b, c, d>> \in Seq(Op(S))
  OBVIOUS
<1>2. \A j, k \in 1 .. 4 : j < k => j = 1 \/ j = 2 \/ k = 4
  OBVIOUS
<1> QED
  BY <1>1, <1>2 DEF Good, Ordered

LEMMA Shape5 ==
  ASSUME NEW S, NEW a \in Op(S), NEW b \in Op(S), NEW c \in Op(S), NEW d \in Op(S),
         NEW e \in Op(S), ~Writes(a), ~Writes(b), ~Writes(c), ~MayFail(e)
  PROVE  <<a, b, c, d, e>> \in Good(S)
<1>1. <<a, b, c, d, e>> \in Seq(Op(S))
  OBVIOUS
<1>2. \A j, k \in 1 .. 5 : j < k => j = 1 \/ j = 2 \/ j = 3 \/ k = 5
  OBVIOUS
<1> QED
  BY <1>1, <1>2 DEF Good, Ordered

LEMMA IntoGood ==
  ASSUME NEW S, NEW D \in SUBSET SUBSET S, Flags \in S
  PROVE  /\ Into(D) \subseteq Good(S) /\ WithFlags(D) \subseteq Good(S)
         /\ LoadInto(D) \subseteq Good(S)
         /\ Nothing \subseteq Good(S) /\ Stores \subseteq Good(S) /\ Fails \subseteq Good(S)
<1>1. ASSUME NEW d \in D
      PROVE  /\ <<Write(d)>> \in Good(S) /\ <<Write(d \cup {Flags})>> \in Good(S)
             /\ <<Check, Write(d)>> \in Good(S)
  BY OpsTyped, d \in SUBSET S, d \cup {Flags} \in SUBSET S, Shape1, Shape2
<1>2. <<>> \in Good(S) /\ <<Check, Store>> \in Good(S) /\ <<Fail>> \in Good(S)
  BY OpsTyped, {} \in SUBSET S, Shape1, Shape2
<1> QED
  BY <1>1, <1>2 DEF Into, WithFlags, LoadInto, Nothing, Stores, Fails

LEMMA PairsGood ==
  ASSUME NEW S, NEW a \in SUBSET S, NEW b \in SUBSET S, NEW w \in SUBSET S
  PROVE  /\ <<Check, Write(a \cup b), Write(w)>> \in Good(S)
         /\ <<Check, Store, Write(w)>> \in Good(S)
         /\ <<Check, Check, Write(a \cup b), Write(w)>> \in Good(S)
         /\ <<Check, Check, Store, Write(w)>> \in Good(S)
         /\ <<Check, Store, Check, Store, Write(w)>> \in Good(S)
<1>1. /\ Write(a \cup b) \in Op(S) /\ Write(w) \in Op(S) /\ ~MayFail(Write(w))
      /\ Check \in Op(S) /\ Store \in Op(S) /\ ~Writes(Check) /\ ~Writes(Store)
  BY OpsTyped, a \cup b \in SUBSET S
<1> QED
  BY <1>1, Shape3, Shape4, Shape5

-----------------------------------------------------------------------------
(* The program.                                                            *)

\* S holds every register that instructions name.
Covers(S) ==
  /\ {Flags, Sys, SP} \subseteq S
  /\ \A n \in Reg : X(n) \in S
  /\ \A n \in 0 .. N - 1 : Half(n) \in S
  /\ \A v \in 0 .. N - 1 : Half(2 * v) \in S /\ Half(2 * v + 1) \in S

LEMMA DestinationsIn ==
  ASSUME NEW S, Covers(S)
  PROVE  /\ General \in SUBSET SUBSET S /\ Back \in SUBSET SUBSET S
         /\ Scalar \in SUBSET SUBSET S /\ Vector \in SUBSET SUBSET S
         /\ General \cup {{SP}} \in SUBSET SUBSET S
         /\ General \cup {{Sys}} \in SUBSET SUBSET S
         /\ {{Sys}} \in SUBSET SUBSET S
         /\ X(0) \in S /\ X(1) \in S /\ X(30) \in S
         /\ Flags \in S /\ Sys \in S
BY MachineAssumption DEF Covers, General, Back, Base, Scalar, Vector

LEMMA FamiliesGood ==
  ASSUME NEW S, Covers(S)
  PROVE  Program \subseteq Good(S)
<1>0. /\ General \in SUBSET SUBSET S /\ Back \in SUBSET SUBSET S
      /\ Scalar \in SUBSET SUBSET S /\ Vector \in SUBSET SUBSET S
      /\ General \cup {{SP}} \in SUBSET SUBSET S
      /\ General \cup {{Sys}} \in SUBSET SUBSET S
      /\ {{Sys}} \in SUBSET SUBSET S
      /\ X(0) \in S /\ X(1) \in S /\ X(30) \in S
      /\ Flags \in S /\ Sys \in S
  BY DestinationsIn
<1>1. Nothing \subseteq Good(S) /\ Stores \subseteq Good(S) /\ Fails \subseteq Good(S)
  BY <1>0, IntoGood
<1>2. \A D \in SUBSET SUBSET S :
        Into(D) \subseteq Good(S) /\ WithFlags(D) \subseteq Good(S) /\ LoadInto(D) \subseteq Good(S)
  BY <1>0, IntoGood
<1>3. /\ Into(General) \subseteq Good(S) /\ WithFlags(General) \subseteq Good(S)
      /\ LoadInto(General) \subseteq Good(S)
      /\ Into(Scalar) \subseteq Good(S) /\ LoadInto(Scalar) \subseteq Good(S)
      /\ Into(Vector) \subseteq Good(S) /\ LoadInto(Vector) \subseteq Good(S)
      /\ Into(General \cup {{SP}}) \subseteq Good(S)
      /\ Into(General \cup {{Sys}}) \subseteq Good(S) /\ Into({{Sys}}) \subseteq Good(S)
  BY <1>0, <1>2
<1>4. /\ <<Write({X(0), X(1)})>> \in Good(S) /\ <<Write({X(0)})>> \in Good(S)
      /\ <<Write({X(30)})>> \in Good(S) /\ <<Write({Flags})>> \in Good(S)
      /\ <<Write({Flags, Sys})>> \in Good(S) /\ <<Fail>> \in Good(S)
  <2>1. ASSUME NEW d \in SUBSET S
        PROVE  <<Write(d)>> \in Good(S) /\ <<Fail>> \in Good(S)
    BY OpsTyped, Shape1
  <2> QED
    BY <1>0, <2>1
<1>5. /\ Svc \subseteq Good(S) /\ ExceptionReturn \subseteq Good(S)
      /\ BranchLink \subseteq Good(S) /\ ScalarFp \subseteq Good(S)
      /\ Conditional \subseteq Good(S)
  BY <1>1, <1>3, <1>4 DEF Svc, ExceptionReturn, BranchLink, ScalarFp, Conditional
<1>6. Exclusive \subseteq Good(S)
  <2>1. \A d \in General :
          <<Check, Check, Store, Write(d)>> \in Good(S) /\ <<Check, Store, Write(d)>> \in Good(S)
    BY <1>0, PairsGood
  <2> QED
    BY <1>1, <1>3, <2>1 DEF Exclusive
<1>7. ASSUME NEW D \in SUBSET SUBSET S
      PROVE  PairAtOnce(D) \subseteq Good(S) /\ PairLoads(D) \subseteq Good(S)
  <2>1. \A d \in Two(D), w \in Back :
          /\ <<Check, Write(d), Write(w)>> \in Good(S)
          /\ <<Check, Check, Write(d), Write(w)>> \in Good(S)
    <3> SUFFICES ASSUME NEW a \in D, NEW b \in D, NEW w \in Back
                 PROVE  /\ <<Check, Write(a \cup b), Write(w)>> \in Good(S)
                        /\ <<Check, Check, Write(a \cup b), Write(w)>> \in Good(S)
      BY DEF Two
    <3>1. a \in SUBSET S /\ b \in SUBSET S /\ w \in SUBSET S
      BY <1>0
    <3> QED
      BY <3>1, PairsGood
  <2>2. \A w \in Back : <<Check, Store, Write(w)>> \in Good(S)
    BY <1>0, PairsGood
  <2> QED
    <3>1. \A w \in Back : {<<Check, Write(d), Write(w)>> : d \in Two(D)} \subseteq Good(S)
      BY <2>1
    <3>2. \A w \in Back : {<<Check, Check, Write(d), Write(w)>> : d \in Two(D)} \subseteq Good(S)
      BY <2>1
    <3>3. {<<Check, Store, Write(w)>> : w \in Back} \subseteq Good(S)
      BY <2>2
    <3>4. PairAtOnce(D) \subseteq Good(S)
      BY <3>1, <3>3 DEF PairAtOnce
    <3>5. PairLoads(D) \subseteq Good(S)
      BY <3>2 DEF PairLoads
    <3> QED
      BY <3>4, <3>5
<1>8. PairStores \subseteq Good(S)
  <2>1. \A w \in Back : <<Check, Store, Check, Store, Write(w)>> \in Good(S)
    BY <1>0, PairsGood
  <2> QED
    BY <2>1 DEF PairStores
<1>9. /\ PairAtOnce(Scalar) \subseteq Good(S) /\ PairAtOnce(Vector) \subseteq Good(S)
      /\ PairLoads(Scalar) \subseteq Good(S) /\ PairLoads(General) \subseteq Good(S)
  BY <1>0, <1>7
<1>10. /\ DoublePair \subseteq Good(S) /\ QuadPair \subseteq Good(S)
       /\ SignedPair \subseteq Good(S) /\ WordPair \subseteq Good(S)
       /\ SinglePair \subseteq Good(S) /\ RegisterPair \subseteq Good(S)
  BY <1>8, <1>9 DEF DoublePair, QuadPair, SignedPair, WordPair, SinglePair, RegisterPair
<1>13. /\ ExceptionWrite \subseteq Good(S) /\ ExceptionRead \subseteq Good(S)
       /\ LoadLiteral \subseteq Good(S) /\ MoveImmediate \subseteq Good(S)
       /\ AddImmediate \subseteq Good(S) /\ BranchIf \subseteq Good(S)
       /\ FlagsAndFp \subseteq Good(S) /\ SystemRegisters \subseteq Good(S)
       /\ TimerRead \subseteq Good(S) /\ Barrier \subseteq Good(S)
       /\ VectorFp \subseteq Good(S) /\ FpMove \subseteq Good(S)
  BY <1>1, <1>3 DEF ExceptionWrite, ExceptionRead, LoadLiteral, MoveImmediate, AddImmediate,
                    BranchIf, FlagsAndFp, SystemRegisters, TimerRead, Barrier, VectorFp, FpMove
<1>14. /\ VectorShift \subseteq Good(S) /\ VectorLogic \subseteq Good(S)
       /\ VectorPermute \subseteq Good(S) /\ Crypto \subseteq Good(S)
       /\ VectorDup \subseteq Good(S) /\ VectorImmediate \subseteq Good(S)
       /\ VectorSaturating \subseteq Good(S) /\ BitReverse \subseteq Good(S)
       /\ Hint \subseteq Good(S) /\ Bitfield \subseteq Good(S)
       /\ ShiftedOperand \subseteq Good(S) /\ LogicalOperand \subseteq Good(S)
  BY <1>1, <1>3 DEF VectorShift, VectorLogic, VectorPermute, Crypto, VectorDup, VectorImmediate,
                    VectorSaturating, BitReverse, Hint, Bitfield, ShiftedOperand, LogicalOperand
<1>15. /\ Unscaled \subseteq Good(S) /\ ShiftVariable \subseteq Good(S)
       /\ RegisterOffset \subseteq Good(S) /\ DoubleOffset \subseteq Good(S)
       /\ QuadOffset \subseteq Good(S) /\ WordOffset \subseteq Good(S)
       /\ ByteAndHalf \subseteq Good(S) /\ PageAddress \subseteq Good(S)
       /\ MultiplyDivide \subseteq Good(S) /\ Checksum \subseteq Good(S)
       /\ AddCarry \subseteq Good(S) /\ MultiplyDivideW \subseteq Good(S)
       /\ BranchIfZero \subseteq Good(S) /\ Unknown \subseteq Good(S)
  BY <1>1, <1>3 DEF Unscaled, ShiftVariable, RegisterOffset, DoubleOffset, QuadOffset, WordOffset,
                    ByteAndHalf, PageAddress, MultiplyDivide, Checksum, AddCarry,
                    MultiplyDivideW, BranchIfZero, Unknown
<1> QED
  BY <1>5, <1>6, <1>10, <1>13, <1>14, <1>15 DEF Program

LEMMA SlotCovers == Covers(Slot)
BY MachineAssumption DEF Covers, Slot

\* The contexts hold every register but the lost ones.
LEMMA LostOrSaved ==
  ASSUME NEW s \in Slot
  PROVE  s \in Lost <=> s \notin Saved
<1>1. ASSUME NEW h \in 0 .. 2 * N - 1
      PROVE  Half(h)[1] = "half" /\ Half(h)[2] = h
  BY DEF Half
<1>2. \A h \in 0 .. 2 * N - 1 : Half(h) \in Lost <=> ~(h < N)
  <2>1. N .. 2 * N - 1 \subseteq 0 .. 2 * N - 1
    BY MachineAssumption
  <2>2. \A h \in 0 .. 2 * N - 1 : Half(h) \in Lost <=> h \in N .. 2 * N - 1
    BY <1>1, <2>1, Zenon DEF Lost
  <2>3. \A h \in 0 .. 2 * N - 1 : h \in N .. 2 * N - 1 <=> ~(h < N)
    BY MachineAssumption
  <2>4. QED
    BY <2>2, <2>3
<1>3. CASE \E h \in 0 .. 2 * N - 1 : s = Half(h)
  BY <1>1, <1>2, <1>3 DEF Saved
<1>4. CASE ~(\E h \in 0 .. 2 * N - 1 : s = Half(h))
  <2>1. s[1] # "half"
    BY <1>4 DEF Slot, X, SP, Flags, Sys
  <2>2. s \notin Lost
    BY <1>4, MachineAssumption DEF Lost
  <2>3. QED
    BY <2>1, <2>2 DEF Saved
<1> QED
  BY <1>3, <1>4

-----------------------------------------------------------------------------
(* What is left of a good instruction is good.                             *)

LEMMA TailGood ==
  ASSUME NEW S, NEW i \in Good(S), i # <<>>
  PROVE  /\ Tail(i) \in Good(S) /\ Head(i) \in Op(S)
         /\ Writes(Head(i)) => \A k \in 1 .. Len(Tail(i)) : ~MayFail(Tail(i)[k])
         /\ \A k \in 1 .. Len(Tail(i)) : Tail(i)[k] = i[k + 1] /\ k + 1 \in 1 .. Len(i)
         /\ Head(i) = i[1] /\ 1 \in 1 .. Len(i)
<1>1. i \in Seq(Op(S)) /\ Ordered(i) /\ Len(i) \in Nat \ {0}
  BY DEF Good
<1>2. /\ Tail(i) \in Seq(Op(S)) /\ Head(i) \in Op(S) /\ Head(i) = i[1]
      /\ Len(Tail(i)) = Len(i) - 1
      /\ \A k \in 1 .. Len(i) - 1 : Tail(i)[k] = i[k + 1]
  BY <1>1
<1>3. Ordered(Tail(i))
  <2> SUFFICES ASSUME NEW j \in 1 .. Len(Tail(i)), NEW k \in 1 .. Len(Tail(i)),
                      j < k, Writes(Tail(i)[j])
               PROVE  ~MayFail(Tail(i)[k])
    BY DEF Ordered
  <2>1. j + 1 \in 1 .. Len(i) /\ k + 1 \in 1 .. Len(i) /\ j + 1 < k + 1
    BY <1>1, <1>2
  <2>2. Tail(i)[j] = i[j + 1] /\ Tail(i)[k] = i[k + 1]
    BY <1>1, <1>2
  <2> QED
    BY <1>1, <2>1, <2>2 DEF Ordered
<1>4. \A k \in 1 .. Len(Tail(i)) : k + 1 \in 1 .. Len(i) /\ 1 < k + 1 /\ 1 \in 1 .. Len(i)
  BY <1>1, <1>2
<1>5. ASSUME Writes(Head(i)), NEW k \in 1 .. Len(Tail(i))
      PROVE  ~MayFail(Tail(i)[k])
  BY <1>1, <1>2, <1>4, <1>5 DEF Ordered
<1> QED
  BY <1>1, <1>2, <1>3, <1>4, <1>5 DEF Good

-----------------------------------------------------------------------------
(* The invariant, for any set of slots that instructions stay in.          *)

Inv(S) ==
  /\ watched \in Slot
  /\ live \in Data
  /\ saved \in [Thread -> Data]
  /\ running \in Thread \cup {Main}
  /\ wrote \in BOOLEAN
  /\ todo \in Good(S)
  /\ wrote => \A k \in 1 .. Len(todo) : ~MayFail(todo[k])

LEMMA EmptyGood ==
  ASSUME NEW S
  PROVE  <<>> \in Good(S) /\ \A k \in 1 .. Len(<<>>) : ~MayFail(<<>>[k])
BY DEF Good, Ordered

LEMMA InvInit ==
  ASSUME NEW S, Init
  PROVE  Inv(S)
BY EmptyGood, MachineAssumption DEF Init, Inv

\* What a step that goes on with the instruction does to the rest of it.
LEMMA Continues ==
  ASSUME NEW S, Inv(S), NEW op, Next1(op), wrote' = wrote
  PROVE  /\ todo' \in Good(S)
         /\ wrote' => \A k \in 1 .. Len(todo') : ~MayFail(todo'[k])
<1>1. todo # <<>> /\ todo' = Tail(todo) /\ todo \in Good(S)
  BY DEF Next1, Inv
<1>2. /\ Tail(todo) \in Good(S)
      /\ \A k \in 1 .. Len(Tail(todo)) : Tail(todo)[k] = todo[k + 1] /\ k + 1 \in 1 .. Len(todo)
  BY <1>1, TailGood
<1> QED
  BY <1>1, <1>2 DEF Inv

LEMMA InvNext ==
  ASSUME NEW S, Covers(S), Inv(S), [Next]_vars
  PROVE  Inv(S)'
<1>1. CASE issue
  <2>1. todo' \in Good(S)
    BY <1>1, FamiliesGood DEF issue
  <2> QED
    BY <1>1, <2>1 DEF issue, Inv
<1>2. CASE write
  <2>1. todo # <<>> /\ todo' = Tail(todo) /\ todo \in Good(S) /\ Head(todo).op = "write"
    BY <1>2 DEF write, Next1, Inv
  <2>2. /\ Tail(todo) \in Good(S)
        /\ Writes(Head(todo)) => \A k \in 1 .. Len(Tail(todo)) : ~MayFail(Tail(todo)[k])
        /\ \A k \in 1 .. Len(Tail(todo)) : Tail(todo)[k] = todo[k + 1] /\ k + 1 \in 1 .. Len(todo)
    BY <2>1, TailGood
  <2>3. live' \in Data
    BY <1>2 DEF write, Inv
  <2>4. wrote' = (wrote \/ Head(todo).to # {})
    BY <1>2 DEF write
  <2>5. wrote' => \A k \in 1 .. Len(todo') : ~MayFail(todo'[k])
    BY <2>1, <2>2, <2>4 DEF Inv, Writes
  <2>6. wrote' \in BOOLEAN
    BY <2>4 DEF Inv
  <2> QED
    BY <1>2, <2>1, <2>2, <2>3, <2>5, <2>6 DEF write, Inv
<1>3. CASE proceed
  <2>1. wrote' = wrote /\ (Next1("check") \/ Next1("store"))
    BY <1>3 DEF proceed
  <2>2. /\ todo' \in Good(S)
        /\ wrote' => \A k \in 1 .. Len(todo') : ~MayFail(todo'[k])
    BY <2>1, Continues
  <2> QED
    BY <1>3, <2>2 DEF proceed, Inv
<1>4. CASE fault
  <2>1. todo' = <<>> /\ saved' = save /\ running' = Main
        /\ UNCHANGED <<watched, live, wrote>>
    BY <1>4 DEF fault
  <2>2. save \in [Thread -> Data]
    BY DEF save, Inv
  <2> QED
    BY <2>1, <2>2, EmptyGood DEF Inv
<1>5. CASE dispatch
  <2>1. PICK t \in Thread : running' = t /\ live' = load(t)
    BY <1>5 DEF dispatch
  <2>2. load(t) \in Data
    BY DEF load, Inv
  <2> QED
    BY <1>5, <2>1, <2>2 DEF dispatch, Inv
<1>6. CASE preempt
  <2>1. save \in [Thread -> Data]
    BY DEF save, Inv
  <2> QED
    BY <1>6, <2>1 DEF preempt, Inv
<1>7. CASE UNCHANGED vars
  BY <1>7 DEF vars, Inv
<1> QED
  BY <1>1, <1>2, <1>3, <1>4, <1>5, <1>6, <1>7 DEF Next

\* Every register an instruction names exists, on a machine of any size.
THEOREM TypeCorrect == Spec => []TypeOK
<1>1. Inv(Slot) => TypeOK
  BY DEF Inv, TypeOK, Good, Op, MicroOp
<1>2. Init => Inv(Slot)
  BY InvInit
<1>3. Inv(Slot) /\ [Next]_vars => Inv(Slot)'
  BY SlotCovers, InvNext
<1> QED
  BY <1>1, <1>2, <1>3, PTL DEF Spec

\* A step that answers false has written no register.
THEOREM Precise == Spec => []FaultsArePrecise
<1>1. Inv(Slot) => FaultsArePrecise
  <2> SUFFICES ASSUME Inv(Slot), todo # <<>>, MayFail(Head(todo))
               PROVE  ~wrote
    BY DEF FaultsArePrecise, MayFail
  <2>1. Head(todo) = todo[1] /\ 1 \in 1 .. Len(todo)
    BY TailGood DEF Inv
  <2> QED
    BY <2>1 DEF Inv
<1>2. Init => Inv(Slot)
  BY InvInit
<1>3. Inv(Slot) /\ [Next]_vars => Inv(Slot)'
  BY SlotCovers, InvNext
<1> QED
  BY <1>1, <1>2, <1>3, PTL DEF Spec

-----------------------------------------------------------------------------
(* Refinement.                                                             *)

fileBar == [t \in Thread |->
              IF running = t \/ watched \notin Saved THEN live ELSE saved[t]]

commonBar == watched \in Lost

AbsInit == commonBar \in BOOLEAN /\ running = Main /\ fileBar = [t \in Thread |-> Zero]
AbsCompute ==
  /\ ~commonBar
  /\ \E d \in Data : running \in Thread /\ fileBar' = [fileBar EXCEPT ![running] = d]
  /\ UNCHANGED <<commonBar, running>>
AbsOverwrite ==
  /\ commonBar
  /\ \E d \in Data : fileBar' = [t \in Thread |-> d]
  /\ UNCHANGED <<commonBar, running>>
AbsSwitch == running' \in Thread \cup {Main} /\ UNCHANGED <<commonBar, fileBar>>
AbsStep == [AbsCompute \/ AbsOverwrite \/ AbsSwitch]_<<commonBar, running, fileBar>>

LEMMA RefinesStep ==
  ASSUME Inv(Slot), Inv(Slot)', [Next]_vars
  PROVE  AbsStep
<1> USE MachineAssumption
<1>1. CASE issue \/ proceed
  <2>1. UNCHANGED <<watched, live, saved, running>>
    BY <1>1 DEF issue, proceed
  <2> QED
    BY <2>1 DEF fileBar, commonBar, AbsStep
<1>2. CASE write
  <2>1. UNCHANGED <<watched, saved, running>> /\ commonBar' = commonBar
    BY <1>2 DEF write, commonBar
  <2>2. CASE live' = live
    BY <2>1, <2>2 DEF fileBar, AbsStep
  <2>3. CASE live' \in Data /\ watched \notin Saved
    <3>1. commonBar
      BY <2>3, LostOrSaved DEF commonBar, Inv
    <3>2. fileBar' = [t \in Thread |-> live']
      BY <2>1, <2>3 DEF fileBar
    <3> QED
      BY <2>1, <2>3, <3>1, <3>2 DEF AbsStep, AbsOverwrite
  <2>4. CASE live' \in Data /\ watched \in Saved
    <3>1. ~commonBar
      BY <2>4, LostOrSaved DEF commonBar, Inv
    <3>2. CASE running = Main
      <4>1. \A t \in Thread : running # t
        BY <3>2
      <4> QED
        BY <2>1, <2>4, <4>1 DEF fileBar, AbsStep
    <3>3. CASE running \in Thread
      <4>1. fileBar' = [fileBar EXCEPT ![running] = live']
        BY <2>1, <2>4, <3>3 DEF fileBar
      <4> QED
        BY <2>1, <2>4, <3>1, <3>3, <4>1 DEF AbsStep, AbsCompute
    <3> QED
      BY <3>2, <3>3 DEF Inv
  <2> QED
    BY <1>2, <2>2, <2>3, <2>4 DEF write
<1>3. CASE fault \/ preempt
  <2>1. running' = Main /\ saved' = save /\ UNCHANGED <<watched, live>>
    BY <1>3 DEF fault, preempt
  <2>2. \A t \in Thread : running' # t
    BY <2>1
  <2>3. ASSUME NEW t \in Thread, watched \in Saved
        PROVE  saved'[t] = IF running = t THEN live ELSE saved[t]
    BY <2>1, <2>3 DEF save, Inv
  <2>4. fileBar' = fileBar
    BY <2>1, <2>2, <2>3 DEF fileBar
  <2> QED
    BY <2>1, <2>4 DEF AbsStep, AbsSwitch, commonBar
<1>4. CASE dispatch
  <2>1. PICK t \in Thread : running' = t /\ live' = load(t)
    BY <1>4 DEF dispatch
  <2>2. running = Main /\ UNCHANGED <<watched, saved>> /\ \A u \in Thread : running # u
    BY <1>4 DEF dispatch
  <2>3. fileBar' = fileBar
    BY <2>1, <2>2 DEF fileBar, load
  <2> QED
    BY <2>1, <2>2, <2>3 DEF AbsStep, AbsSwitch, commonBar
<1>5. CASE UNCHANGED vars
  BY <1>5 DEF vars, fileBar, commonBar, AbsStep
<1> QED
  BY <1>1, <1>2, <1>3, <1>4, <1>5 DEF Next

\* The shared interpreter gives every thread a register file of its own, but
\* for the halves of vectors that d does not reach: of each of those there is
\* one for all threads and the main program.
THEOREM Refinement == Spec => ThreadsKeepTheirRegisters
<1>1. Init => Inv(Slot) /\ Registers!Init
  <2>1. Init => AbsInit
    BY MachineAssumption DEF Init, AbsInit, fileBar, commonBar
  <2> QED
    BY InvInit, <2>1 DEF AbsInit, fileBar, commonBar, Registers!Init
<1>2. Inv(Slot) /\ [Next]_vars => Inv(Slot)'
  BY SlotCovers, InvNext
<1>3. Inv(Slot) /\ Inv(Slot)' /\ [Next]_vars
        => [Registers!Compute \/ Registers!Overwrite \/ Registers!Switch]_
             <<watched \in Lost, running, [t \in Thread |->
                 IF running = t \/ watched \notin Saved THEN live ELSE saved[t]]>>
  BY RefinesStep DEF AbsStep, AbsCompute, AbsOverwrite, AbsSwitch, fileBar, commonBar,
                     Registers!Compute, Registers!Overwrite, Registers!Switch
<1> QED
  BY <1>1, <1>2, <1>3, PTL DEF Spec, ThreadsKeepTheirRegisters, Registers!Spec
=============================================================================
