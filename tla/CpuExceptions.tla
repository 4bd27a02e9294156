---------------------------- MODULE CpuExceptions ----------------------------
(***************************************************************************)
(* The control of the ARM64 interpreter (cpu/Cpu.h): the loop of Cpu::run, *)
(* interrupts and the timer, exception entry and return, and the           *)
(* instructions that move the program counter or write what an exception   *)
(* return reads.                                                           *)
(*                                                                         *)
(* One action is one turn of the loop: fetch, checkInterrupts, step.  The  *)
(* instruction is fetched before checkInterrupts may move pc_ to a vector, *)
(* and executed after it; ELR is pc_ + 4.                                  *)
(*                                                                         *)
(* An address is an area and an offset.  The areas are the program and the *)
(* code at each vector, and each is a loop of Length instructions.  What   *)
(* an instruction does to registers and memory is module Machine's; steps_,*)
(* which only counts, is left out.                                         *)
(*                                                                         *)
(* The decoder compares insn & mask with patterns that have bits the mask  *)
(* clears (Cpu.h:233-342 and 742-827): those tests are false for every     *)
(* instruction.  HVC, SMC, and the writes to SPSR, to the registers of     *)
(* levels 2 and 3 and to the timers are therefore never executed, levels 2 *)
(* and 3 are never reached, and only the host sets the timer.              *)
(***************************************************************************)
EXTENDS Naturals

CONSTANTS
  Length,    \* instructions in an area
  Compare,   \* compare values the host gives the timer
  MaxTurns   \* bound: turns of the loop

ASSUME CpuAssumption ==
  Length \in Nat \ {0} /\ MaxTurns \in Nat /\ Compare \subseteq Nat

VARIABLES
  cpu,       \* pc_, current_el_, masks, flags, SPSR_EL1 and ELR_EL1
  pending,   \* interrupts that wait
  timer,     \* cntpct_, cntp_cval_ and cntp_enabled_
  due        \* the program's next instruction and state, when it is known

vars == <<cpu, pending, timer, due>>

Handler == {"irq", "fiq", "serror"}
Area == Handler \cup {"program"}
Offset == 0 .. Length - 1
Address == [area : Area, off : Offset]
\* Masks are TRUE when masked; a is the bit of asynchronous aborts.
Pstate == [el : {0, 1}, a : BOOLEAN, irq : BOOLEAN, fiq : BOOLEAN, flags : {0, 1}]

At(area, off) == [area |-> area, off |-> off]
After(a) == At(a.area, IF a.off = Length - 1 THEN 0 ELSE a.off + 1)

\* The A bit is the mask of IRQs, and unpackPstate does not read it.
packPstate(c) ==
  [el |-> c.el, a |-> c.irq, irq |-> c.irq, fiq |-> c.fiq, flags |-> c.flags]

unpackPstate(c, p) ==
  [c EXCEPT !.el = p.el, !.irq = p.irq, !.fiq = p.fiq, !.flags = p.flags]

Reset ==
  [pc |-> At("program", 0), el |-> 1, irq |-> TRUE, fiq |-> TRUE, flags |-> 0,
   spsr |-> [el |-> 0, a |-> FALSE, irq |-> FALSE, fiq |-> FALSE, flags |-> 0],
   elr |-> At("program", 0)]

Unknown == [known |-> FALSE, at |-> At("program", 0), pstate |-> packPstate(Reset)]

\* The program's place and state: what an interrupt must give back.
Place(a, c) == [known |-> TRUE, at |-> a, pstate |-> packPstate(c)]

Init ==
  /\ cpu = Reset
  /\ pending = [irq |-> 0, fiq |-> 0, serror |-> FALSE]
  /\ timer = [cnt |-> 0, cval |-> 0, on |-> FALSE]
  /\ due = Place(Reset.pc, Reset)

-----------------------------------------------------------------------------
(* checkInterrupts.                                                        *)

\* An expired timer queues an interrupt at every turn.
Queued ==
  [pending EXCEPT !.irq = IF timer.on /\ timer.cnt + 1 >= timer.cval THEN @ + 1 ELSE @]

\* Mutant: an interrupt is taken from an empty queue.
TakenAtOnce ==
  IF ~cpu.irq THEN "irq"
  ELSE IF Queued.fiq > 0 /\ ~cpu.fiq THEN "fiq"
  ELSE IF Queued.serror /\ ~packPstate(cpu).a THEN "serror" ELSE "none"

\* Levels 0 and 1 are the only ones, so "current_el_ <= 1" holds.
Takes ==
  IF Queued.irq > 0 /\ ~cpu.irq THEN "irq"
  ELSE IF Queued.fiq > 0 /\ ~cpu.fiq THEN "fiq"
  ELSE IF Queued.serror /\ ~packPstate(cpu).a THEN "serror" ELSE "none"

\* Mutant: the return address is the interrupted instruction's.
EnterAgain(c, area) ==
  [pc |-> At(area, 0), el |-> 1, irq |-> TRUE, fiq |-> TRUE, flags |-> c.flags,
   spsr |-> packPstate(c), elr |-> c.pc]

\* Mutant: only the mask of IRQs is set.
EnterOpen(c, area) ==
  [pc |-> At(area, 0), el |-> 1, irq |-> TRUE, fiq |-> c.fiq, flags |-> c.flags,
   spsr |-> packPstate(c), elr |-> After(c.pc)]

takeException(c, area) ==
  [pc |-> At(area, 0), el |-> 1, irq |-> TRUE, fiq |-> TRUE, flags |-> c.flags,
   spsr |-> packPstate(c), elr |-> After(c.pc)]

\* The processor when step begins, and what is left to be taken.
Checked == IF Takes = "none" THEN cpu ELSE takeException(cpu, Takes)
Remaining ==
  CASE Takes = "none" -> Queued
    [] Takes = "serror" -> [Queued EXCEPT !.serror = FALSE]
    [] OTHER -> [Queued EXCEPT ![Takes] = @ - 1]

\* A turn of the loop of run, up to step.
checkInterrupts ==
  /\ timer.cnt < MaxTurns
  /\ timer' = [timer EXCEPT !.cnt = @ + 1]
  /\ pending' = Remaining

-----------------------------------------------------------------------------
(* step: what each kind of instruction makes of the processor.             *)

Jump(c, a) == [c EXCEPT !.pc = a]
Advance(c) == Jump(c, After(c.pc))

ERET(c) == Jump(unpackPstate(c, c.spsr), c.elr)

\* Bits 5 to 9 of the patterns of MSR: the mask clears them, so the pattern
\* without such bits matches the encodings of all.
PatternBits == [ELR_EL1 |-> 0, SPSR_EL1 |-> 4, ESR_EL1 |-> 16, FAR_EL1 |-> 20]
Decoded(name) == CHOOSE p \in DOMAIN PatternBits : PatternBits[p] = 0

MSR(c, name, a) ==
  IF Decoded(name) = "ELR_EL1" THEN [Advance(c) EXCEPT !.elr = a] ELSE Advance(c)

-----------------------------------------------------------------------------
(* Turns of Cpu::run.  Each has due follow what the program may expect.    *)

Entered == Takes # "none"
InProgram == cpu.pc.area = "program"

\* An instruction that ends with pc_ += 4, writes neither flags nor ELR, and
\* reads nothing that entering an exception changes.
straight ==
  /\ checkInterrupts
  /\ cpu' = Advance(Checked)
  /\ due' = IF InProgram /\ due.known THEN [due EXCEPT !.at = After(@)] ELSE due

\* ADRP and LDR (literal) compute an address from pc_: interrupted, from the
\* vector's, and the program gets what it did not ask for.
literal ==
  /\ checkInterrupts
  /\ cpu' = Advance(Checked)
  /\ due' = IF ~InProgram \/ ~due.known THEN due
            ELSE IF Entered THEN Unknown ELSE Place(After(due.at), cpu')

\* One that sets the flags: when it is interrupted it sets the handler's, and
\* the return takes them back.
compare ==
  /\ checkInterrupts
  /\ \E f \in {0, 1} :
       /\ cpu' = [Advance(Checked) EXCEPT !.flags = f]
       /\ due' = IF ~InProgram \/ ~due.known THEN due
                 ELSE IF Entered THEN Unknown ELSE Place(After(due.at), cpu')

\* A jump that is interrupted goes from the vector, and is lost to the program.
JumpTo(a) ==
  /\ checkInterrupts
  /\ cpu' = Jump(Checked, a)
  /\ due' = IF InProgram /\ ~Entered /\ due.known THEN Place(a, cpu)
            ELSE IF InProgram \/ a.area = "program" THEN Unknown ELSE due

\* B, BL, B.cond, TBZ and CBZ that are taken are relative to pc_.
branch == \E off \in Offset : JumpTo(At(Checked.pc.area, off))
\* RET goes where its register says.
ret == \E off \in Offset : JumpTo(At("program", off))

\* step answers false and run() ends; pc_ is where checkInterrupts left it.
fault ==
  /\ checkInterrupts
  /\ cpu' = Checked
  /\ due' = IF InProgram /\ Entered THEN Unknown ELSE due

\* A handler, or a program, that asks for another way back.
msr ==
  /\ checkInterrupts
  /\ \E name \in DOMAIN PatternBits, off \in Offset :
       cpu' = MSR(Checked, name, At("program", off))
  /\ due' = Unknown

\* A handler gives the program back what was due; a program that returns with
\* no exception starts anew at ELR.
eret ==
  /\ checkInterrupts
  /\ cpu' = ERET(Checked)
  /\ due' = IF ~InProgram THEN due
            ELSE IF Entered THEN Unknown ELSE Place(cpu'.pc, cpu')

\* The host's calls between two runs.
trigger ==
  /\ \/ pending.irq = 0 /\ pending' = [pending EXCEPT !.irq = 1]
     \/ pending.fiq = 0 /\ pending' = [pending EXCEPT !.fiq = 1]
     \/ ~pending.serror /\ pending' = [pending EXCEPT !.serror = TRUE]
  /\ UNCHANGED <<cpu, timer, due>>

setCntp ==
  /\ \/ \E v \in Compare : timer' = [timer EXCEPT !.cval = v]
     \/ \E on \in BOOLEAN : timer' = [timer EXCEPT !.on = on]
  /\ UNCHANGED <<cpu, pending, due>>

Next ==
  \/ straight \/ literal \/ compare \/ branch \/ ret \/ fault
  \/ msr \/ eret \/ trigger \/ setCntp

Spec == Init /\ [][Next]_vars

-----------------------------------------------------------------------------
(* Properties.                                                             *)

\* Every register holds what the code can put in it; no interrupt is taken from
\* an empty queue (Cpu.h:3275, 3281).
TypeOK ==
  /\ cpu \in [pc : Address, el : {0, 1}, irq : BOOLEAN, fiq : BOOLEAN,
              flags : {0, 1}, spsr : Pstate, elr : Address]
  /\ pending \in [irq : Nat, fiq : Nat, serror : BOOLEAN]
  /\ timer \in [cnt : Nat, cval : Nat, on : BOOLEAN]
  /\ due \in [known : BOOLEAN, at : Address, pstate : Pstate]

\* Whenever the program runs it is at the instruction, level, masks and flags
\* its own instructions lead to, however many handlers ran in between: entry,
\* handler and ERET skip nothing and repeat nothing (Cpu.h:192, 3247, 3217),
\* unless the interrupted instruction was one that reads pc_ or writes the
\* flags, or one that faulted.
InterruptsAreTransparent ==
  InProgram /\ due.known => cpu.pc = due.at /\ packPstate(cpu) = due.pstate

\* The way back of a handler is not overwritten by a second exception: while
\* one runs, ELR and SPSR change only by its own MSR (Cpu.h:3255).
WayBackKept ==
  [][~InProgram /\ due.known /\ due'.known /\ cpu'.pc.area # "program"
       => cpu'.elr = cpu.elr /\ cpu'.spsr = cpu.spsr]_vars
=============================================================================
