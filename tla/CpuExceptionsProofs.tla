------------------------- MODULE CpuExceptionsProofs -------------------------
(* What CpuExceptions promises, proved for areas of any length, any number *)
(* of turns and any compare values.  The inductive invariant says where    *)
(* the program's place is while it does not run: in ELR and SPSR, with the *)
(* masks set so that nothing overwrites them.                              *)
EXTENDS CpuExceptions, TLAPS

USE CpuAssumption

CpuType == [pc : Address, el : {0, 1}, irq : BOOLEAN, fiq : BOOLEAN,
            flags : {0, 1}, spsr : Pstate, elr : Address]
DueType == [known : BOOLEAN, at : Address, pstate : Pstate]

\* Nothing can enter a handler that runs.
HandlerMasked == ~InProgram => cpu.irq /\ cpu.fiq

\* The way back is the program's.
ElrInProgram == cpu.elr.area = "program" /\ due.at.area = "program"

\* The processor runs the program at its place, or a handler with the place put
\* away.
Kept ==
  due.known =>
    IF InProgram THEN cpu.pc = due.at /\ packPstate(cpu) = due.pstate
    ELSE cpu.elr = due.at /\ cpu.spsr = due.pstate

\* The A bit that is due is the one packPstate makes.
Packed == due.pstate.a = due.pstate.irq

IInv == TypeOK /\ HandlerMasked /\ ElrInProgram /\ Packed /\ Kept

\* Addresses stay in their area, packed states in their type.
LEMMA AtType ==
  ASSUME NEW area \in Area, NEW off \in Offset
  PROVE  At(area, off) \in Address /\ At(area, off).area = area
BY DEF At, Address

LEMMA AfterType ==
  ASSUME NEW a \in Address
  PROVE  After(a) \in Address /\ After(a).area = a.area
BY DEF After, At, Address, Offset

LEMMA PackType ==
  ASSUME NEW c \in CpuType
  PROVE  packPstate(c) \in Pstate
BY DEF packPstate, CpuType, Pstate

\* ERET gives back ELR and what SPSR packs.
LEMMA EretGivesBack ==
  ASSUME NEW c \in CpuType
  PROVE  /\ ERET(c) \in CpuType
         /\ ERET(c).pc = c.elr /\ ERET(c).elr = c.elr /\ ERET(c).spsr = c.spsr
         /\ c.spsr.a = c.spsr.irq => packPstate(ERET(c)) = c.spsr
<1> DEFINE p == c.spsr
           u == unpackPstate(c, p)
<1>1. /\ p \in Pstate /\ p.el \in {0, 1} /\ p.irq \in BOOLEAN
      /\ p.fiq \in BOOLEAN /\ p.flags \in {0, 1}
  BY DEF CpuType, Pstate
<1>2. /\ u \in CpuType /\ u.el = p.el /\ u.irq = p.irq /\ u.fiq = p.fiq
      /\ u.flags = p.flags /\ u.elr = c.elr /\ u.spsr = c.spsr
  BY <1>1 DEF CpuType, unpackPstate
<1>3. ERET(c) = [u EXCEPT !.pc = c.elr] /\ c.elr \in Address
  BY DEF ERET, Jump, CpuType
<1> HIDE DEF u
<1>4. /\ ERET(c) \in CpuType
      /\ ERET(c).pc = c.elr /\ ERET(c).elr = u.elr /\ ERET(c).spsr = u.spsr
      /\ ERET(c).el = u.el /\ ERET(c).irq = u.irq /\ ERET(c).fiq = u.fiq
      /\ ERET(c).flags = u.flags
  BY <1>2, <1>3 DEF CpuType
<1>5. p = [el |-> p.el, a |-> p.a, irq |-> p.irq, fiq |-> p.fiq, flags |-> p.flags]
  BY <1>1 DEF Pstate
<1> QED BY <1>2, <1>4, <1>5 DEF packPstate

\* Entering a handler: the place goes to ELR and SPSR, the masks are set.
LEMMA TakeException ==
  ASSUME NEW c \in CpuType, NEW area \in Handler
  PROVE  /\ takeException(c, area) \in CpuType
         /\ takeException(c, area).pc.area = area
         /\ takeException(c, area).irq /\ takeException(c, area).fiq
         /\ takeException(c, area).spsr = packPstate(c)
         /\ takeException(c, area).elr = After(c.pc)
<1>1. After(c.pc) \in Address /\ packPstate(c) \in Pstate /\ c.flags \in {0, 1}
  BY AfterType, PackType DEF CpuType
<1>2. At(area, 0) \in Address /\ At(area, 0).area = area
  BY AtType DEF Area, Offset
<1> QED BY <1>1, <1>2 DEF takeException, CpuType

\* A turn starts where the processor is, or in a handler it has been moved to
\* from the program.
LEMMA TurnStarts ==
  ASSUME IInv
  PROVE  /\ Checked \in CpuType
         /\ Checked.elr.area = "program"
         /\ \/ ~Entered /\ Checked = cpu
            \/ /\ Entered /\ InProgram /\ Checked.pc.area # "program"
               /\ Checked.irq /\ Checked.fiq
               /\ Checked.spsr = packPstate(cpu) /\ Checked.elr = After(cpu.pc)
<1>1. cpu \in CpuType /\ cpu.pc \in Address
  BY DEF IInv, TypeOK, CpuType
<1>2. CASE Takes = "none"
  BY <1>1, <1>2 DEF Checked, Entered, IInv, ElrInProgram
<1>3. CASE Takes # "none"
  <2>1. Takes \in Handler /\ ~(cpu.irq /\ cpu.fiq)
    BY <1>3 DEF Takes, Handler, packPstate
  <2>2. InProgram
    BY <2>1 DEF IInv, HandlerMasked
  <2>3. Checked = takeException(cpu, Takes)
    BY <1>3 DEF Checked
  <2>4. After(cpu.pc).area = "program"
    BY <1>1, <2>2, AfterType DEF InProgram
  <2> QED BY <1>1, <1>3, <2>1, <2>2, <2>3, <2>4, TakeException
          DEF Entered, Handler
<1> QED BY <1>2, <1>3

\* The clock and the queues keep their types through a turn.
LEMMA CheckInterruptsType ==
  ASSUME TypeOK, checkInterrupts
  PROVE  /\ pending' \in [irq : Nat, fiq : Nat, serror : BOOLEAN]
         /\ timer' \in [cnt : Nat, cval : Nat, on : BOOLEAN]
<1>1. Queued \in [irq : Nat, fiq : Nat, serror : BOOLEAN]
  BY DEF TypeOK, Queued
<1>2. timer' \in [cnt : Nat, cval : Nat, on : BOOLEAN]
  BY DEF TypeOK, checkInterrupts
<1>3. CASE Takes = "none"
  BY <1>1, <1>2, <1>3 DEF checkInterrupts, Remaining
<1>4. CASE Takes = "serror"
  BY <1>1, <1>2, <1>4 DEF checkInterrupts, Remaining
<1>5. CASE Takes = "irq"
  <2>1. Queued.irq > 0
    BY <1>5 DEF Takes
  <2> QED BY <1>1, <1>2, <1>5, <2>1 DEF checkInterrupts, Remaining
<1>6. CASE Takes = "fiq"
  <2>1. Queued.fiq > 0
    BY <1>6 DEF Takes
  <2> QED BY <1>1, <1>2, <1>6, <2>1 DEF checkInterrupts, Remaining
<1> QED BY <1>3, <1>4, <1>5, <1>6 DEF Takes

\* The invariant holds at reset.
LEMMA InitIInv == Init => IInv
<1> SUFFICES ASSUME Init PROVE IInv
  OBVIOUS
<1>1. At("program", 0) \in Address /\ At("program", 0).area = "program"
  BY AtType DEF Area, Offset
<1>2. Reset \in CpuType
  BY <1>1 DEF Reset, CpuType, Pstate
<1>3. packPstate(Reset) \in Pstate
  BY <1>2, PackType
<1>4. /\ cpu = Reset /\ cpu.pc = At("program", 0) /\ cpu.elr = At("program", 0)
      /\ due = [known |-> TRUE, at |-> cpu.pc, pstate |-> packPstate(cpu)]
  BY DEF Init, Place, Reset
<1>5. TypeOK
  <2>1. cpu \in CpuType /\ cpu.pc \in Address /\ packPstate(cpu) \in Pstate
    BY <1>1, <1>2, <1>3, <1>4
  <2>2. due \in DueType
    BY <1>4, <2>1 DEF DueType
  <2>3. /\ pending \in [irq : Nat, fiq : Nat, serror : BOOLEAN]
        /\ timer \in [cnt : Nat, cval : Nat, on : BOOLEAN]
    BY DEF Init
  <2> QED BY <2>1, <2>2, <2>3 DEF TypeOK, CpuType, DueType
<1> QED BY <1>1, <1>4, <1>5
        DEF IInv, HandlerMasked, ElrInProgram, Packed, Kept, InProgram, packPstate

-----------------------------------------------------------------------------
(* Each action keeps the invariant.                                        *)

\* A known place is well formed.
LEMMA PlaceType ==
  ASSUME NEW c \in CpuType, NEW a \in Address
  PROVE  /\ Place(a, c) \in DueType
         /\ Place(a, c).known /\ Place(a, c).at = a
         /\ Place(a, c).pstate = packPstate(c)
         /\ packPstate(c).a = packPstate(c).irq
BY PackType DEF Place, DueType, packPstate

LEMMA UnknownType ==
  /\ Unknown \in DueType /\ ~Unknown.known /\ Unknown.at.area = "program"
  /\ Unknown.pstate.a = Unknown.pstate.irq
<1>1. At("program", 0) \in Address /\ At("program", 0).area = "program"
  BY AtType DEF Area, Offset
<1>2. Reset \in CpuType
  BY <1>1 DEF Reset, CpuType, Pstate
<1> QED BY <1>1, <1>2, PackType DEF Unknown, DueType, packPstate

\* A change of pc_ alone.
LEMMA JumpType ==
  ASSUME NEW c \in CpuType, NEW a \in Address
  PROVE  /\ Jump(c, a) \in CpuType
         /\ Jump(c, a).pc = a /\ Jump(c, a).irq = c.irq /\ Jump(c, a).fiq = c.fiq
         /\ Jump(c, a).elr = c.elr /\ Jump(c, a).spsr = c.spsr
         /\ packPstate(Jump(c, a)) = packPstate(c)
BY DEF Jump, CpuType, packPstate

\* The next instruction is in the same area, so masks and place keep.
LEMMA StraightIInv == IInv /\ straight => IInv'
<1> SUFFICES ASSUME IInv, straight PROVE IInv'
  OBVIOUS
<1>1. /\ Checked \in CpuType /\ Checked.elr.area = "program"
      /\ \/ ~Entered /\ Checked = cpu
         \/ /\ Entered /\ InProgram /\ Checked.pc.area # "program"
            /\ Checked.irq /\ Checked.fiq
            /\ Checked.spsr = packPstate(cpu) /\ Checked.elr = After(cpu.pc)
  BY TurnStarts
<1>2. After(Checked.pc) \in Address /\ After(Checked.pc).area = Checked.pc.area
  BY <1>1, AfterType DEF CpuType
<1>3. /\ cpu' \in CpuType /\ cpu'.pc = After(Checked.pc)
      /\ cpu'.irq = Checked.irq /\ cpu'.fiq = Checked.fiq
      /\ cpu'.elr = Checked.elr /\ cpu'.spsr = Checked.spsr
      /\ packPstate(cpu') = packPstate(Checked)
  BY <1>1, <1>2, JumpType DEF straight, Advance
<1>4. due \in DueType /\ After(due.at) \in Address /\ After(due.at).area = "program"
  BY AfterType DEF IInv, TypeOK, ElrInProgram, DueType
<1>5. /\ due' \in DueType /\ due'.known = due.known /\ due'.pstate = due.pstate
      /\ due'.at = IF InProgram /\ due.known THEN After(due.at) ELSE due.at
  BY <1>4 DEF straight, DueType
<1>6. TypeOK'
  BY <1>3, <1>5, CheckInterruptsType
     DEF IInv, TypeOK, straight, CpuType, DueType
<1>7. ElrInProgram' /\ Packed'
  BY <1>1, <1>3, <1>4, <1>5 DEF IInv, ElrInProgram, Packed
<1>8. HandlerMasked' /\ Kept'
  BY <1>1, <1>2, <1>3, <1>5 DEF IInv, HandlerMasked, Kept, InProgram
<1> QED BY <1>6, <1>7, <1>8 DEF IInv

\* The same for an instruction that writes the flags of what runs.
LEMMA CompareIInv == IInv /\ compare => IInv'
<1> SUFFICES ASSUME IInv, compare PROVE IInv'
  OBVIOUS
<1>1. /\ Checked \in CpuType /\ Checked.elr.area = "program"
      /\ \/ ~Entered /\ Checked = cpu
         \/ /\ Entered /\ InProgram /\ Checked.pc.area # "program"
            /\ Checked.irq /\ Checked.fiq
            /\ Checked.spsr = packPstate(cpu) /\ Checked.elr = After(cpu.pc)
  BY TurnStarts
<1>2. After(Checked.pc) \in Address /\ After(Checked.pc).area = Checked.pc.area
  BY <1>1, AfterType DEF CpuType
<1>3. PICK f \in {0, 1} :
        /\ cpu' = [Advance(Checked) EXCEPT !.flags = f]
        /\ due' = IF ~InProgram \/ ~due.known THEN due
                  ELSE IF Entered THEN Unknown ELSE Place(After(due.at), cpu')
  BY DEF compare
<1> DEFINE d == Advance(Checked)
<1>4. /\ d \in CpuType /\ d.pc = After(Checked.pc)
      /\ d.irq = Checked.irq /\ d.fiq = Checked.fiq
      /\ d.elr = Checked.elr /\ d.spsr = Checked.spsr
  BY <1>1, <1>2, JumpType DEF Advance
<1> HIDE DEF d
<1>5. /\ cpu' \in CpuType /\ cpu'.pc = d.pc
      /\ cpu'.irq = d.irq /\ cpu'.fiq = d.fiq
      /\ cpu'.elr = d.elr /\ cpu'.spsr = d.spsr
  BY <1>3, <1>4 DEF CpuType, d
<1>6. due \in DueType /\ After(due.at) \in Address /\ After(due.at).area = "program"
  BY AfterType DEF IInv, TypeOK, ElrInProgram, DueType
<1>7. /\ due' \in DueType /\ due'.at.area = "program" /\ Packed'
  BY <1>3, <1>5, <1>6, UnknownType, PlaceType DEF IInv, ElrInProgram, Packed
<1>8. TypeOK'
  BY <1>5, <1>7, CheckInterruptsType
     DEF IInv, TypeOK, compare, CpuType, DueType
<1>9. ElrInProgram'
  BY <1>1, <1>4, <1>5, <1>7 DEF ElrInProgram
<1>10. HandlerMasked'
  BY <1>1, <1>2, <1>4, <1>5 DEF IInv, HandlerMasked, InProgram
<1>11. Kept'
  <2>1. CASE ~InProgram \/ ~due.known
    BY <1>1, <1>2, <1>3, <1>4, <1>5, <2>1 DEF IInv, Kept, InProgram
  <2>2. CASE InProgram /\ due.known /\ Entered
    BY <1>3, <2>2, UnknownType DEF Kept
  <2>3. CASE InProgram /\ due.known /\ ~Entered
    BY <1>1, <1>2, <1>3, <1>4, <1>5, <1>6, <2>3, PlaceType
       DEF IInv, Kept, InProgram
  <2> QED BY <2>1, <2>2, <2>3
<1> QED BY <1>7, <1>8, <1>9, <1>10, <1>11 DEF IInv

\* The same, and a place is given up when the address would be the vector's.
LEMMA LiteralIInv == IInv /\ literal => IInv'
<1> SUFFICES ASSUME IInv, literal PROVE IInv'
  OBVIOUS
<1>1. /\ Checked \in CpuType /\ Checked.elr.area = "program"
      /\ \/ ~Entered /\ Checked = cpu
         \/ /\ Entered /\ InProgram /\ Checked.pc.area # "program"
            /\ Checked.irq /\ Checked.fiq
            /\ Checked.spsr = packPstate(cpu) /\ Checked.elr = After(cpu.pc)
  BY TurnStarts
<1>2. After(Checked.pc) \in Address /\ After(Checked.pc).area = Checked.pc.area
  BY <1>1, AfterType DEF CpuType
<1>3. /\ cpu' \in CpuType /\ cpu'.pc = After(Checked.pc)
      /\ cpu'.irq = Checked.irq /\ cpu'.fiq = Checked.fiq
      /\ cpu'.elr = Checked.elr /\ cpu'.spsr = Checked.spsr
      /\ packPstate(cpu') = packPstate(Checked)
  BY <1>1, <1>2, JumpType DEF literal, Advance
<1>4. due' = IF ~InProgram \/ ~due.known THEN due
             ELSE IF Entered THEN Unknown ELSE Place(After(due.at), cpu')
  BY DEF literal
<1>5. due \in DueType /\ After(due.at) \in Address /\ After(due.at).area = "program"
  BY AfterType DEF IInv, TypeOK, ElrInProgram, DueType
<1>6. due' \in DueType /\ due'.at.area = "program" /\ Packed'
  BY <1>3, <1>4, <1>5, UnknownType, PlaceType DEF IInv, ElrInProgram, Packed
<1>7. TypeOK'
  BY <1>3, <1>6, CheckInterruptsType DEF IInv, TypeOK, literal, CpuType, DueType
<1>8. ElrInProgram' /\ HandlerMasked'
  BY <1>1, <1>2, <1>3, <1>6 DEF IInv, ElrInProgram, HandlerMasked, InProgram
<1>9. Kept'
  <2>1. CASE ~InProgram \/ ~due.known
    BY <1>1, <1>2, <1>3, <1>4, <2>1 DEF IInv, Kept, InProgram
  <2>2. CASE InProgram /\ due.known /\ Entered
    BY <1>4, <2>2, UnknownType DEF Kept
  <2>3. CASE InProgram /\ due.known /\ ~Entered
    BY <1>1, <1>2, <1>3, <1>4, <1>5, <2>3, PlaceType DEF IInv, Kept, InProgram
  <2> QED BY <2>1, <2>2, <2>3
<1> QED BY <1>6, <1>7, <1>8, <1>9 DEF IInv

\* A jump keeps a place only when the program made it undisturbed.
LEMMA JumpToIInv ==
  ASSUME IInv, NEW a \in Address, JumpTo(a),
         a.area = "program" \/ a.area = Checked.pc.area
  PROVE  IInv'
<1>1. /\ Checked \in CpuType /\ Checked.elr.area = "program"
      /\ \/ ~Entered /\ Checked = cpu
         \/ /\ Entered /\ InProgram /\ Checked.pc.area # "program"
            /\ Checked.irq /\ Checked.fiq
            /\ Checked.spsr = packPstate(cpu) /\ Checked.elr = After(cpu.pc)
  BY TurnStarts
<1>2. /\ cpu' \in CpuType /\ cpu'.pc = a
      /\ cpu'.irq = Checked.irq /\ cpu'.fiq = Checked.fiq
      /\ cpu'.elr = Checked.elr /\ cpu'.spsr = Checked.spsr
      /\ packPstate(cpu') = packPstate(Checked)
  BY <1>1, JumpType DEF JumpTo
<1>3. due' = IF InProgram /\ ~Entered /\ due.known THEN Place(a, cpu)
             ELSE IF InProgram \/ a.area = "program" THEN Unknown ELSE due
  BY DEF JumpTo
<1>4. due \in DueType /\ cpu \in CpuType
  BY DEF IInv, TypeOK, DueType, CpuType
<1>5. InProgram /\ ~Entered => a.area = "program"
  BY <1>1 DEF InProgram
<1>6. due' \in DueType /\ due'.at.area = "program" /\ Packed'
  BY <1>3, <1>4, <1>5, UnknownType, PlaceType DEF IInv, ElrInProgram, Packed
<1>7. TypeOK'
  BY <1>2, <1>6, CheckInterruptsType DEF IInv, TypeOK, JumpTo, CpuType, DueType
<1>8. ElrInProgram' /\ HandlerMasked'
  BY <1>1, <1>2, <1>6 DEF IInv, ElrInProgram, HandlerMasked, InProgram
<1>9. Kept'
  BY <1>1, <1>2, <1>3, <1>4, <1>5, UnknownType, PlaceType
     DEF IInv, Kept, InProgram
<1> QED BY <1>6, <1>7, <1>8, <1>9 DEF IInv

LEMMA BranchIInv == IInv /\ (branch \/ ret) => IInv'
<1> SUFFICES ASSUME IInv, branch \/ ret PROVE IInv'
  OBVIOUS
<1>1. Checked \in CpuType /\ Checked.pc.area \in Area
  BY TurnStarts DEF CpuType, Address
<1>2. PICK off \in Offset :
        JumpTo(At(Checked.pc.area, off)) \/ JumpTo(At("program", off))
  BY DEF branch, ret
<1>3. /\ At(Checked.pc.area, off) \in Address
      /\ At(Checked.pc.area, off).area = Checked.pc.area
      /\ At("program", off) \in Address /\ At("program", off).area = "program"
  BY <1>1, AtType DEF Area
<1> QED BY <1>2, <1>3, JumpToIInv

\* A faulted instruction stays where it is, or its place is given up.
LEMMA FaultIInv == IInv /\ fault => IInv'
<1> SUFFICES ASSUME IInv, fault PROVE IInv'
  OBVIOUS
<1>1. /\ cpu' = Checked /\ Checked \in CpuType /\ Checked.elr.area = "program"
      /\ \/ ~Entered /\ Checked = cpu
         \/ /\ Entered /\ InProgram /\ Checked.pc.area # "program"
            /\ Checked.irq /\ Checked.fiq
  BY TurnStarts DEF fault
<1>2. due' = IF InProgram /\ Entered THEN Unknown ELSE due
  BY DEF fault
<1>3. due' \in DueType /\ due'.at.area = "program" /\ Packed'
  BY <1>2, UnknownType DEF IInv, TypeOK, ElrInProgram, Packed, DueType
<1>4. TypeOK'
  BY <1>1, <1>3, CheckInterruptsType DEF IInv, TypeOK, fault, CpuType, DueType
<1> QED BY <1>1, <1>2, <1>3, <1>4, UnknownType
        DEF IInv, ElrInProgram, HandlerMasked, Kept, InProgram

\* MSR writes at most ELR, with an address of the program.
LEMMA MsrIInv == IInv /\ msr => IInv'
<1> SUFFICES ASSUME IInv, msr PROVE IInv'
  OBVIOUS
<1>1. /\ Checked \in CpuType /\ Checked.elr.area = "program"
      /\ \/ ~Entered /\ Checked = cpu
         \/ /\ Entered /\ InProgram /\ Checked.pc.area # "program"
            /\ Checked.irq /\ Checked.fiq
  BY TurnStarts
<1>2. PICK name \in DOMAIN PatternBits, off \in Offset :
        cpu' = MSR(Checked, name, At("program", off))
  BY DEF msr
<1> DEFINE d == Advance(Checked)
           a == At("program", off)
<1>3. a \in Address /\ a.area = "program"
  BY AtType DEF Area
<1>4. /\ d \in CpuType /\ d.pc.area = Checked.pc.area /\ d.elr = Checked.elr
      /\ d.irq = Checked.irq /\ d.fiq = Checked.fiq
  BY <1>1, AfterType, JumpType DEF Advance, CpuType
<1>5. cpu' = d \/ cpu' = [d EXCEPT !.elr = a]
  BY <1>2 DEF MSR
<1> HIDE DEF d, a
<1>6. /\ cpu' \in CpuType /\ cpu'.pc = d.pc /\ cpu'.irq = d.irq /\ cpu'.fiq = d.fiq
      /\ cpu'.elr = d.elr \/ cpu'.elr = a
  BY <1>3, <1>4, <1>5 DEF CpuType
<1>7. due' = Unknown
  BY DEF msr
<1>8. TypeOK'
  BY <1>6, <1>7, UnknownType, CheckInterruptsType
     DEF IInv, TypeOK, msr, CpuType, DueType
<1>9. ElrInProgram' /\ HandlerMasked'
  BY <1>1, <1>3, <1>4, <1>6, <1>7, UnknownType
     DEF IInv, ElrInProgram, HandlerMasked, InProgram
<1>10. Packed' /\ Kept'
  BY <1>7, UnknownType DEF Packed, Kept
<1> QED BY <1>8, <1>9, <1>10 DEF IInv

\* A handler's return gives the program what is due; the program's own return
\* starts a new place.
LEMMA EretIInv == IInv /\ eret => IInv'
<1> SUFFICES ASSUME IInv, eret PROVE IInv'
  OBVIOUS
<1>1. /\ Checked \in CpuType /\ Checked.elr.area = "program"
      /\ \/ ~Entered /\ Checked = cpu
         \/ Entered /\ InProgram
  BY TurnStarts
<1>2. /\ cpu' \in CpuType /\ cpu'.pc = Checked.elr /\ cpu'.elr = Checked.elr
      /\ Checked.spsr.a = Checked.spsr.irq => packPstate(cpu') = Checked.spsr
  BY <1>1, EretGivesBack DEF eret
<1>3. due' = IF ~InProgram THEN due
             ELSE IF Entered THEN Unknown ELSE Place(cpu'.pc, cpu')
  BY DEF eret
<1>4. due \in DueType /\ cpu'.pc \in Address /\ cpu'.pc.area = "program"
  BY <1>1, <1>2 DEF IInv, TypeOK, DueType, CpuType
<1>5. due' \in DueType /\ due'.at.area = "program" /\ Packed'
  BY <1>2, <1>3, <1>4, UnknownType, PlaceType DEF IInv, ElrInProgram, Packed
<1>6. TypeOK'
  BY <1>2, <1>5, CheckInterruptsType DEF IInv, TypeOK, eret, CpuType, DueType
<1>7. ElrInProgram' /\ HandlerMasked'
  BY <1>1, <1>2, <1>4, <1>5 DEF ElrInProgram, HandlerMasked, InProgram
<1>8. Kept'
  <2>1. CASE ~InProgram
    BY <1>1, <1>2, <1>3, <1>4, <2>1 DEF IInv, Kept, Packed, InProgram
  <2>2. CASE InProgram
    BY <1>2, <1>3, <1>4, <2>2, UnknownType, PlaceType DEF Kept, InProgram
  <2> QED BY <2>1, <2>2
<1> QED BY <1>5, <1>6, <1>7, <1>8 DEF IInv

\* Host calls touch queues and timer only.
LEMMA HostIInv == IInv /\ (trigger \/ setCntp) => IInv'
<1> SUFFICES ASSUME IInv, trigger \/ setCntp PROVE IInv'
  OBVIOUS
<1>1. UNCHANGED <<cpu, due>>
  BY DEF trigger, setCntp
<1>2. pending' \in [irq : Nat, fiq : Nat, serror : BOOLEAN]
  <2>1. pending \in [irq : Nat, fiq : Nat, serror : BOOLEAN]
    BY DEF IInv, TypeOK
  <2>2. CASE trigger
    <3>1. \/ pending' = [pending EXCEPT !.irq = 1]
          \/ pending' = [pending EXCEPT !.fiq = 1]
          \/ pending' = [pending EXCEPT !.serror = TRUE]
      BY <2>2 DEF trigger
    <3>2. CASE pending' = [pending EXCEPT !.irq = 1]
      BY <2>1, <3>2
    <3>3. CASE pending' = [pending EXCEPT !.fiq = 1]
      BY <2>1, <3>3
    <3>4. CASE pending' = [pending EXCEPT !.serror = TRUE]
      BY <2>1, <3>4
    <3> QED BY <3>1, <3>2, <3>3, <3>4
  <2>3. CASE setCntp
    BY <2>1, <2>3 DEF setCntp
  <2> QED BY <2>2, <2>3
<1>3. timer' \in [cnt : Nat, cval : Nat, on : BOOLEAN]
  <2>1. timer \in [cnt : Nat, cval : Nat, on : BOOLEAN]
    BY DEF IInv, TypeOK
  <2>2. ASSUME NEW v \in Compare, timer' = [timer EXCEPT !.cval = v]
        PROVE  timer' \in [cnt : Nat, cval : Nat, on : BOOLEAN]
    BY <2>1, <2>2, CpuAssumption
  <2>3. ASSUME NEW on \in BOOLEAN, timer' = [timer EXCEPT !.on = on]
        PROVE  timer' \in [cnt : Nat, cval : Nat, on : BOOLEAN]
    BY <2>1, <2>3
  <2> QED BY <2>1, <2>2, <2>3 DEF trigger, setCntp
<1> QED BY <1>1, <1>2, <1>3
        DEF IInv, TypeOK, ElrInProgram, HandlerMasked, Packed, Kept, InProgram

LEMMA NextIInv == IInv /\ [Next]_vars => IInv'
<1> SUFFICES ASSUME IInv, [Next]_vars PROVE IInv'
  OBVIOUS
<1>1. CASE Next
  BY <1>1, StraightIInv, LiteralIInv, CompareIInv, BranchIInv, FaultIInv, MsrIInv, EretIInv,
     HostIInv DEF Next
<1>2. CASE UNCHANGED vars
  BY <1>2 DEF vars, IInv, TypeOK, ElrInProgram, HandlerMasked, Packed, Kept, InProgram
<1> QED BY <1>1, <1>2

LEMMA Invariance == Spec => []IInv
BY InitIInv, NextIInv, PTL DEF Spec

-----------------------------------------------------------------------------
\* Type correctness: addresses stay in their area's loop and no interrupt is
\* taken from an empty queue (Cpu.h:3275, 3281).
THEOREM TypeCorrect == Spec => []TypeOK
BY Invariance, PTL DEF IInv

\* A program that is interrupted at an instruction that neither reads pc_ nor
\* writes the flags finds its place, level, masks and flags as it left them (Cpu.h:3247-3258, 3217-3226).
THEOREM Transparent == Spec => []InterruptsAreTransparent
<1>1. IInv => InterruptsAreTransparent
  BY DEF IInv, Kept, InterruptsAreTransparent
<1> QED BY <1>1, Invariance, PTL

\* No second exception overwrites ELR and SPSR while a handler runs
\* (Cpu.h:3255).
THEOREM WayBack == Spec => WayBackKept
<1>1. IInv /\ [Next]_vars
        => [~InProgram /\ due.known /\ due'.known /\ cpu'.pc.area # "program"
              => cpu'.elr = cpu.elr /\ cpu'.spsr = cpu.spsr]_vars
  <2> SUFFICES ASSUME IInv, Next, ~InProgram, due.known, due'.known,
                      cpu'.pc.area # "program"
               PROVE  cpu'.elr = cpu.elr /\ cpu'.spsr = cpu.spsr
    BY DEF vars
  <2>1. Checked = cpu /\ cpu \in CpuType /\ cpu.elr.area = "program"
    BY TurnStarts
  <2>2. After(cpu.pc) \in Address
    BY <2>1, AfterType DEF CpuType
  <2>3. CASE straight \/ literal
    BY <2>1, <2>2, <2>3, JumpType DEF straight, literal, Advance
  <2>4. CASE compare
    <3>1. PICK f \in {0, 1} : cpu' = [Advance(cpu) EXCEPT !.flags = f]
      BY <2>1, <2>4 DEF compare
    <3>2. /\ Advance(cpu) \in CpuType
          /\ Advance(cpu).elr = cpu.elr /\ Advance(cpu).spsr = cpu.spsr
      BY <2>1, <2>2, JumpType DEF Advance
    <3> QED BY <3>1, <3>2 DEF CpuType
  <2>5. ASSUME NEW off \in Offset, NEW area \in Area, JumpTo(At(area, off))
        PROVE  cpu'.elr = cpu.elr /\ cpu'.spsr = cpu.spsr
    BY <2>1, <2>5, AtType, JumpType DEF JumpTo
  <2>6. CASE branch \/ ret
    BY <2>1, <2>5, <2>6 DEF branch, ret, Area, CpuType, Address
  <2>7. CASE fault
    BY <2>1, <2>7 DEF fault
  <2>8. CASE msr
    BY <2>8, UnknownType DEF msr
  <2>9. CASE eret
    BY <2>1, <2>9, EretGivesBack DEF eret
  <2>10. CASE trigger \/ setCntp
    BY <2>10 DEF trigger, setCntp
  <2> QED BY <2>3, <2>4, <2>6, <2>7, <2>8, <2>9, <2>10 DEF Next
<1> QED BY <1>1, Invariance, PTL DEF Spec, WayBackKept
=============================================================================
