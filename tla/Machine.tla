------------------------------- MODULE Machine -------------------------------
(***************************************************************************)
(* The registers of the one interpreter (cpu/Cpu.h) that the main program  *)
(* and all threads share in turns (hos/Thread.h), instruction by           *)
(* instruction.                                                            *)
(*                                                                         *)
(* An instruction is the sequence of what it does: checks that may make    *)
(* step answer false, writes to registers and stores to memory, in the     *)
(* order of the code.  Values and addresses are abstracted: a write        *)
(* leaves any value, a check fails or not.  One register is observed,      *)
(* chosen at the start: the properties hold of every one.                  *)
(*                                                                         *)
(* The slots of the file of SIMD registers are 64-bit halves.  V(n) is     *)
(* halves 2n and 2n + 1, as the union FpFile lays q out; D(n) is half n,   *)
(* as it lays d out.  save and load copy d: the first N halves only, so    *)
(* the vectors of the upper half of the file are lost between slices.      *)
(*                                                                         *)
(* Decoding: a word that matches no family is unknown, and so are the      *)
(* words of blocks an earlier block shadows (TBL, PMULL, MOVI, FCVTN,      *)
(* FRECPE, EXT, FMULX) or whose pattern has bits its mask clears.  A 64-bit *)
(* store with a scaled offset is taken for a prefetch (Cpu.h:2526) and the *)
(* 32-bit one for a load (2891).                                           *)
(***************************************************************************)
EXTENDS Naturals, Sequences

CONSTANTS
  Thread,
  Main,      \* the program that runCpu runs, without a context of its own
  Reg,       \* general registers, X0, X1 and X30 among them
  N,         \* SIMD registers
  Data, Zero

ASSUME MachineAssumption ==
  /\ Main \notin Thread
  /\ Reg \subseteq Nat /\ {0, 1, 30} \subseteq Reg /\ 31 \notin Reg
  /\ N \in Nat
  /\ Zero \in Data

VARIABLES
  watched,   \* the register that is observed
  live,      \* what it holds in the interpreter
  saved,     \* what the context of each thread holds for it
  running,   \* whose instructions are executed
  todo,      \* what is left of the instruction
  wrote      \* whether the instruction has written a register

vars == <<watched, live, saved, running, todo, wrote>>

X(n) == <<"x", n>>
Half(h) == <<"half", h>>
SP == <<"sp", 0>>
Flags == <<"nzcv", 0>>
\* Any of TPIDR, FPCR, FPSR, SCTLR, TTBR0, VBAR, ELR, SPSR...: all are in State.
Sys == <<"sys", 0>>

Slot == {X(n) : n \in Reg} \cup {Half(h) : h \in 0 .. 2 * N - 1} \cup {SP, Flags, Sys}

\* Mutant: State without the flags.
NoFlags == {s \in Slot : s # Flags /\ (s[1] = "half" => s[2] < N)}

\* The slots that save and load copy.
Saved == {s \in Slot : s[1] = "half" => s[2] < N}

\* The halves that d does not reach: of V(N \div 2) and those above it.
Lost == {Half(h) : h \in N .. 2 * N - 1}

-----------------------------------------------------------------------------
(* What instructions write, and how.                                       *)

MicroOp == [op : {"check", "fail", "write", "store"}, to : SUBSET Slot]

Write(slots) == [op |-> "write", to |-> slots]
Check == [op |-> "check", to |-> {}]
Fail == [op |-> "fail", to |-> {}]
Store == [op |-> "store", to |-> {}]

\* Register 31 as a destination is none, as a base it is SP.
General == {{X(n)} : n \in Reg} \cup {{}}

\* Mutant: a base of 31 is register 31.
BaseOf31 == {{X(n)} : n \in Reg \cup {31}}

Base == {{X(n)} : n \in Reg} \cup {{SP}}
Back == Base \cup {{}}
Scalar == {{Half(n)} : n \in 0 .. N - 1}
Vector == {{Half(2 * v), Half(2 * v + 1)} : v \in 0 .. N - 1}

Into(dests) == {<<Write(d)>> : d \in dests}
WithFlags(dests) == {<<Write(d \cup {Flags})>> : d \in dests}
LoadInto(dests) == {<<Check, Write(d)>> : d \in dests}
Nothing == {<<>>}
\* Pairs, with or without writeback of the base.  Some check both halves at
\* once; others check each, a load before it writes, a store in between.
Two(dests) == UNION {{a \cup b : a \in dests} : b \in dests}
PairAtOnce(dests) ==
  (UNION {{<<Check, Write(d), Write(w)>> : d \in Two(dests)} : w \in Back})
  \cup {<<Check, Store, Write(w)>> : w \in Back}
PairLoads(dests) ==
  UNION {{<<Check, Check, Write(d), Write(w)>> : d \in Two(dests)} : w \in Back}
PairStores == {<<Check, Store, Check, Store, Write(w)>> : w \in Back}
Stores == {<<Check, Store>>}
Fails == {<<Fail>>}

-----------------------------------------------------------------------------
(* The families of instructions, in the order of step.                     *)

Svc == {<<Write({X(0), X(1)})>>, <<Write({X(0)})>>, <<Fail>>} \cup Nothing
ExceptionReturn == {<<Write({Flags, Sys})>>}
ExceptionWrite == Into({{Sys}})
ExceptionRead == Nothing
BranchLink == Nothing \cup {<<Write({X(30)})>>}
LoadLiteral == LoadInto(General)
MoveImmediate == Into(General)
AddImmediate == Into(General \cup {{SP}}) \cup WithFlags(General)
BranchIf == Nothing \cup Fails
FlagsAndFp == Into(General \cup {{Sys}})
SystemRegisters == Into(General \cup {{Sys}}) \cup Nothing
TimerRead == Into(General)
Barrier == Nothing
\* LDAR, STLR, SWPAL; STLXR stores always, and reports success.
Exclusive ==
  LoadInto(General) \cup Stores
  \cup {<<Check, Check, Store, Write(d)>> : d \in General}
  \cup {<<Check, Store, Write(d)>> : d \in General}
ScalarFp == Into(Scalar) \cup {<<Write({Flags})>>}
\* The MUL of 64-bit lanes is refused.
VectorFp == Into(Vector) \cup Fails
FpMove == Into(General) \cup Into(Scalar)
\* SLI and SRI refuse a shift wider than the lane.
VectorShift == Into(Vector) \cup Fails
VectorLogic == Into(Vector)
VectorPermute == Into(Vector)
Crypto == Into(Vector)
VectorDup == Into(Vector)
VectorImmediate == Into(Vector)
VectorSaturating == Into(Vector)
BitReverse == Into(General)
Conditional == Into(General) \cup {<<Write({Flags})>>} \cup Nothing
\* Cache maintenance and hints; DC ZVA clears memory.
Hint == Nothing \cup Stores
Bitfield == Into(General)
ShiftedOperand == Into(General \cup {{SP}})
LogicalOperand == Into(General) \cup WithFlags(General)
Unscaled == LoadInto(General) \cup Stores \cup Nothing
ShiftVariable == Into(General)
RegisterOffset == LoadInto(General) \cup Stores
DoubleOffset == LoadInto(Scalar) \cup Stores

DoublePair == PairAtOnce(Scalar)
SignedPair == PairLoads(General)
WordPair == PairLoads(General) \cup PairStores
QuadPair == PairAtOnce(Vector)
SinglePair == PairLoads(Scalar) \cup PairStores

\* Mutant: each register is written as soon as it is loaded.
EagerPair ==
  (UNION {{<<Check, Write(a), Check, Write(b)>> : a \in General} : b \in General})
  \cup PairStores

RegisterPair == PairLoads(General) \cup PairStores

QuadOffset == LoadInto(Vector) \cup LoadInto(Scalar) \cup Stores
\* A store of a word with a scaled offset loads.
WordOffset == LoadInto(General) \cup Stores
ByteAndHalf == LoadInto(General) \cup Stores
PageAddress == Into(General)
MultiplyDivide == Into(General)
Checksum == Into(General)
AddCarry == WithFlags(General)
MultiplyDivideW == Into(General)
BranchIfZero == Nothing
Unknown == Fails

Program ==
  Svc \cup ExceptionReturn \cup ExceptionWrite \cup ExceptionRead \cup BranchLink
  \cup LoadLiteral \cup MoveImmediate \cup AddImmediate \cup BranchIf \cup FlagsAndFp
  \cup SystemRegisters \cup TimerRead \cup Barrier \cup Exclusive \cup ScalarFp
  \cup VectorFp \cup FpMove \cup VectorShift \cup VectorLogic \cup VectorPermute
  \cup Crypto \cup VectorDup \cup VectorImmediate \cup VectorSaturating \cup BitReverse
  \cup Conditional \cup Hint \cup Bitfield \cup ShiftedOperand \cup LogicalOperand
  \cup Unscaled \cup ShiftVariable \cup RegisterOffset \cup DoubleOffset
  \cup DoublePair \cup QuadPair \cup SignedPair \cup WordPair \cup SinglePair
  \cup RegisterPair \cup QuadOffset \cup WordOffset \cup ByteAndHalf \cup PageAddress
  \cup MultiplyDivide \cup Checksum \cup AddCarry \cup MultiplyDivideW
  \cup BranchIfZero \cup Unknown

-----------------------------------------------------------------------------
(* The interpreter and who uses it.                                        *)

Init ==
  /\ watched \in Slot
  /\ live = Zero
  /\ saved = [t \in Thread |-> Zero]
  /\ running = Main
  /\ todo = <<>>
  /\ wrote = FALSE

\* runCpu and run begin an instruction; the main program, between two slices.
issue ==
  /\ todo = <<>>
  /\ todo' \in Program
  /\ wrote' = FALSE
  /\ UNCHANGED <<watched, live, saved, running>>

Next1(op) == todo # <<>> /\ Head(todo).op = op /\ todo' = Tail(todo)

write ==
  /\ Next1("write")
  /\ wrote' = (wrote \/ Head(todo).to # {})
  /\ IF watched \in Head(todo).to THEN live' \in Data ELSE UNCHANGED live
  /\ UNCHANGED <<watched, saved, running>>

\* phys finds the address, or the store is done.
proceed ==
  /\ Next1("check") \/ Next1("store")
  /\ UNCHANGED <<watched, live, saved, running, wrote>>

\* The context is put away at the end of a slice, also of one that ends early.
save == IF running # Main /\ watched \in Saved
        THEN [saved EXCEPT ![running] = live] ELSE saved

load(t) == IF watched \in Saved THEN saved[t] ELSE live

\* step answers false: the slice ends where it is, and pc_ stays.  The
\* scheduler queues the thread again, so the instruction will be retried.
fault ==
  /\ todo # <<>> /\ Head(todo).op \in {"check", "fail"}
  /\ todo' = <<>>
  /\ saved' = save
  /\ running' = Main
  /\ UNCHANGED <<watched, live, wrote>>

dispatch ==
  /\ running = Main /\ todo = <<>>
  /\ \E t \in Thread : running' = t /\ live' = load(t)
  /\ UNCHANGED <<watched, saved, todo, wrote>>

\* The quantum is used up, between any two instructions.
preempt ==
  /\ running # Main /\ todo = <<>>
  /\ saved' = save
  /\ running' = Main
  /\ UNCHANGED <<watched, live, todo, wrote>>

Next == issue \/ write \/ proceed \/ fault \/ dispatch \/ preempt

Spec == Init /\ [][Next]_vars

-----------------------------------------------------------------------------
(* Properties.                                                             *)

\* Every micro-operation of every instruction names registers that exist:
\* none writes regs_[31], which is past the array (Cpu.h:23, 3014).
TypeOK ==
  /\ watched \in Slot
  /\ live \in Data
  /\ saved \in [Thread -> Data]
  /\ running \in Thread \cup {Main}
  /\ todo \in Seq(MicroOp)
  /\ wrote \in BOOLEAN

\* An instruction that may still fail has written no register: the scheduler
\* runs a thread that faulted again from the same pc_ (Thread.h:73), and the
\* second attempt must find the operands of the first (Cpu.h:2727, 3009).
FaultsArePrecise ==
  todo # <<>> /\ Head(todo).op \in {"check", "fail"} => ~wrote

\* Each thread has its registers to itself, whatever the others and the main
\* program execute between two of its slices (Thread.h:68, 72): every general,
\* special and system register, and the SIMD halves d reaches.  The halves it
\* does not reach, and only those, are common to all.
Registers ==
  INSTANCE PrivateRegisters WITH
    common <- watched \in Lost,
    turn <- running,
    file <- [t \in Thread |->
               IF running = t \/ watched \notin Saved THEN live ELSE saved[t]]

ThreadsKeepTheirRegisters == Registers!Spec
=============================================================================
