------------------------------ MODULE Scheduler ------------------------------
(***************************************************************************)
(* The cooperative thread scheduler of the HOS kernel                      *)
(* (emulador-mgd/hos/Thread.h), together with the part of Cpu::run and of  *)
(* the kernel's SVC exit that decides how a slice ends.                    *)
(*                                                                         *)
(* Scheduler::run is a loop on one host thread.  Between two run() calls   *)
(* the host may spawn threads or put them to sleep; inside a slice the     *)
(* guest itself spawns threads (SVC 0x08), while the running thread is     *)
(* held in a local variable and is NOT in the queue.  The loop is modelled *)
(* at the grain of its own steps (loop head, idle jump, pick, one guest    *)
(* instruction, end of slice), so guest calls fall between any two.        *)
(*                                                                         *)
(* A context (Cpu::State) is abstracted to the number of instructions the  *)
(* thread has executed, which is what State::steps holds.                  *)
(***************************************************************************)
EXTENDS Naturals, Sequences, SequencesExt

CONSTANTS
  MaxThreads,   \* bound: how many threads are ever spawned
  Prio,         \* the priorities the host spawns with (smaller runs first)
  Space,        \* the address spaces a thread may carry
  Direct,       \* the null address space (Mmu* == nullptr)
  KernelSpace,  \* the kernel's mmu_, given to threads made by SVC 0x08
  Ticks,        \* the amounts the host passes to sleep()
  Budget,       \* the maxSteps the host passes to run()
  Quantum,      \* run()'s quantum
  MaxElapsed    \* bound: run() and sleep() are not called past this time

ASSUME SchedulerAssumption ==
  /\ MaxThreads \in Nat /\ MaxElapsed \in Nat /\ Quantum \in Nat
  /\ Prio \subseteq Nat /\ 0 \in Prio
  /\ Ticks \subseteq Nat /\ Budget \subseteq Nat
  /\ Direct \in Space /\ KernelSpace \in Space

VARIABLES
  queue,      \* queue_: the threads not on the CPU, in queue order
  next_id,    \* next_id_
  elapsed,    \* elapsed_: the scheduler's clock, in executed instructions
  current_id, \* current_id_
  exited,     \* Kernel::exited_, set by SVC 0x07 and never cleared
  pc,         \* where the host is: outside run(), at its loop head, in a slice
  running,    \* the local copy t of the thread whose slice it is
  cpu,        \* the context loaded in the CPU
  stopped,    \* Cpu::stopped_
  faulted,    \* the slice ended in a fetch or an instruction that failed
  got,        \* instructions executed in this slice
  done,       \* run()'s done
  max_steps   \* run()'s maxSteps

(* History variables: they record, and nothing reads them but properties.  *)
VARIABLES
  overtaken,  \* [u][x]: turns x got while u waited awake, no less urgent
  spent       \* instructions of ended threads, and ticks the clock jumped

loopVars == <<pc, running, cpu, stopped, faulted, got, done, max_steps>>
vars == <<queue, next_id, elapsed, current_id, exited, loopVars,
          overtaken, spent>>

Id == 1 .. MaxThreads
Thread == [id : Id, ctx : Nat, prio : Prio, wake_at : Nat, aspace : Space]
NoThread == [id |-> 0, ctx |-> 0, prio |-> 0, wake_at |-> 0, aspace |-> Direct]

Init ==
  /\ queue = <<>> /\ next_id = 0 /\ elapsed = 0 /\ current_id = 0
  /\ exited = FALSE
  /\ pc = "idle" /\ running = NoThread /\ cpu = 0
  /\ stopped = FALSE /\ faulted = FALSE
  /\ got = 0 /\ done = 0 /\ max_steps = 0
  /\ overtaken = [u \in Id |-> [x \in Id |-> 0]]
  /\ spent = 0

-----------------------------------------------------------------------------
(* What the host and the guest do to the queue.                            *)

\* Mutant: the id is taken before the counter moves (next_id_++).
SpawnPostIncrement(prio, aspace) ==
  /\ next_id < MaxThreads
  /\ next_id' = next_id + 1
  /\ queue' = Append(queue, [id |-> next_id, ctx |-> 0, prio |-> prio,
                             wake_at |-> 0, aspace |-> aspace])

spawn(prio, aspace) ==
  /\ next_id < MaxThreads
  /\ next_id' = next_id + 1
  /\ queue' = Append(queue, [id |-> next_id + 1, ctx |-> 0, prio |-> prio,
                             wake_at |-> 0, aspace |-> aspace])

HostSpawn ==
  /\ pc = "idle"
  /\ \E prio \in Prio, aspace \in Space : spawn(prio, aspace)
  /\ UNCHANGED <<elapsed, current_id, exited, loopVars,
                 overtaken, spent>>

sleep(i, ticks) ==
  queue' = [queue EXCEPT ![i].wake_at = elapsed + ticks]

HostSleep ==
  /\ pc = "idle" /\ elapsed < MaxElapsed
  /\ \E i \in DOMAIN queue, ticks \in Ticks : sleep(i, ticks)
  /\ UNCHANGED <<next_id, elapsed, current_id, exited, loopVars,
                 overtaken, spent>>

-----------------------------------------------------------------------------
(* Scheduler::run.                                                         *)

\* Mutant: a thread is awake only after its wake-up time.
AwakeLate(i) == queue[i].wake_at < elapsed

Awake(i) == queue[i].wake_at <= elapsed
Ready == {i \in DOMAIN queue : Awake(i)}

\* Mutant: pickReady keeps the last of the most urgent (<= for <).
PickLastOfEquals(p) ==
  /\ p \in Ready
  /\ \A i \in Ready : \/ queue[p].prio < queue[i].prio
                      \/ queue[p].prio = queue[i].prio /\ p >= i

\* p is the first, in queue order, of the most urgent awake threads.
pickReady(p) ==
  /\ p \in Ready
  /\ \A i \in Ready : \/ queue[p].prio < queue[i].prio
                      \/ queue[p].prio = queue[i].prio /\ p <= i

RunCall ==
  /\ pc = "idle" /\ elapsed < MaxElapsed
  /\ max_steps' \in Budget
  /\ pc' = "head" /\ done' = 0
  /\ UNCHANGED <<queue, next_id, elapsed, current_id, exited, running, cpu,
                 stopped, faulted, got, overtaken, spent>>

AtHead == pc = "head" /\ done < max_steps /\ queue # <<>>

\* Mutant: the loop that looks for the minimum is missing.
FrontWakesFirst(i) == i = 1

WakesFirst(i) ==
  \A j \in DOMAIN queue : queue[i].wake_at <= queue[j].wake_at

\* Every thread sleeps: the clock jumps to the earliest wake-up.
IdleJump ==
  /\ AtHead
  /\ Ready = {}
  /\ \E i \in DOMAIN queue : WakesFirst(i) /\ elapsed' = queue[i].wake_at
  /\ spent' = spent + (elapsed' - elapsed)
  /\ UNCHANGED <<queue, next_id, current_id, exited, loopVars,
                 overtaken>>

(* When queue[p] gets its turn, every thread left waiting awake that is    *)
(* at least as urgent has been overtaken by it; a sleeping thread is not   *)
(* waiting, and queue[p] itself starts afresh.                             *)
Overtake(p) ==
  [u \in Id |->
     IF \E i \in Ready \ {p} : queue[i].id = u
     THEN IF \E i \in Ready \ {p} :
               queue[i].id = u /\ queue[i].prio <= queue[p].prio
          THEN [overtaken[u] EXCEPT ![queue[p].id] = @ + 1]
          ELSE overtaken[u]
     ELSE [x \in Id |-> 0]]

\* Mutant: the picked thread is copied but not erased.
KeptInQueue(p) == queue

Taken(p) == RemoveAt(queue, p)

PickSlice ==
  /\ AtHead
  /\ \E p \in DOMAIN queue :
       /\ pickReady(p)
       /\ running' = queue[p]
       /\ queue' = Taken(p)
       /\ current_id' = queue[p].id
       /\ cpu' = queue[p].ctx
       /\ overtaken' = Overtake(p)
  /\ pc' = "slice"
  /\ stopped' = FALSE /\ faulted' = FALSE /\ got' = 0
  /\ UNCHANGED <<next_id, elapsed, exited, done, max_steps, spent>>

SliceOver == got >= Quantum \/ stopped \/ faulted

\* The slice's locals go out of scope; the CPU keeps a context that the next
\* pick loads over.
ScopeLeft == running' = NoThread /\ cpu' = 0 /\ got' = 0 /\ faulted' = FALSE

\* run() returns.
Return == pc' = "idle" /\ current_id' = 0 /\ done' = 0 /\ max_steps' = 0

\* Mutant: cpu.save() is forgotten.
StaleContext == running

Saved == [running EXCEPT !.ctx = cpu]

\* The thread ends, or goes to the back of the queue; a slice that executed
\* nothing also ends the run() call.
EndSlice ==
  /\ pc = "slice" /\ SliceOver
  /\ elapsed' = elapsed + got
  /\ IF stopped
     THEN /\ spent' = spent + cpu
          /\ UNCHANGED queue
     ELSE /\ queue' = Append(queue, Saved)
          /\ UNCHANGED spent
  /\ ScopeLeft
  /\ \/ got = 0 /\ Return
     \/ /\ got > 0
        /\ pc' = "head" /\ done' = done + got
        /\ UNCHANGED <<current_id, max_steps>>
  /\ UNCHANGED <<next_id, exited, stopped, overtaken>>

RunReturn ==
  /\ pc = "head"
  /\ ~(done < max_steps /\ queue # <<>>)
  /\ Return
  /\ UNCHANGED <<queue, next_id, elapsed, exited, running, cpu, stopped,
                 faulted, got, overtaken, spent>>

-----------------------------------------------------------------------------
(* What the guest does inside a slice: Cpu::run's loop and Cpu::step.      *)

Executing == pc = "slice" /\ ~SliceOver

Executed == got' = got + 1 /\ cpu' = cpu + 1

sliceVars == <<elapsed, current_id, pc, running, done, max_steps,
               overtaken, spent>>

\* An instruction that is no SVC.
Insn ==
  /\ Executing /\ Executed
  /\ UNCHANGED <<queue, next_id, exited, stopped, faulted, sliceVars>>

\* A fetch or an instruction that fails: Cpu::run breaks without stopping.
Fault ==
  /\ Executing
  /\ faulted' = TRUE
  /\ UNCHANGED <<queue, next_id, exited, stopped, got, cpu, sliceVars>>

\* svc #0 stops the CPU whatever the kernel's state.
SvcStop ==
  /\ Executing /\ Executed
  /\ stopped' = TRUE
  /\ UNCHANGED <<queue, next_id, exited, faulted, sliceVars>>

\* After any SVC the CPU stops if the kernel has exited.
SvcReturn == Executed /\ stopped' = exited'

SvcExitProcess ==
  /\ Executing
  /\ exited' = TRUE
  /\ SvcReturn
  /\ UNCHANGED <<queue, next_id, faulted, sliceVars>>

SvcCreateThread ==
  /\ Executing
  /\ spawn(0, KernelSpace)
  /\ UNCHANGED exited
  /\ SvcReturn
  /\ UNCHANGED <<faulted, sliceVars>>

\* Any other SVC: SVC 0x0B only adds to slept_ns_, no thread goes to sleep.
SvcOther ==
  /\ Executing
  /\ UNCHANGED <<queue, next_id, exited>>
  /\ SvcReturn
  /\ UNCHANGED <<faulted, sliceVars>>

-----------------------------------------------------------------------------
Host == HostSpawn \/ HostSleep \/ RunCall
Loop == IdleJump \/ PickSlice \/ EndSlice \/ RunReturn
Guest == Insn \/ Fault \/ SvcStop \/ SvcExitProcess \/ SvcCreateThread \/ SvcOther

Next == Host \/ Loop \/ Guest

\* The loop and the interpreter run whenever they can; the host need not call.
Fairness == WF_vars(Loop) /\ WF_vars(Guest)

Spec == Init /\ [][Next]_vars /\ Fairness

-----------------------------------------------------------------------------
(* Properties.                                                             *)

FlagsOK ==
  /\ exited \in BOOLEAN /\ stopped \in BOOLEAN /\ faulted \in BOOLEAN

ValuesOK ==
  /\ queue \in Seq(Thread)
  /\ next_id \in 0 .. MaxThreads
  /\ elapsed \in Nat
  /\ current_id \in 0 .. MaxThreads
  /\ pc \in {"idle", "head", "slice"}
  /\ pc = "slice" => running \in Thread
  /\ pc # "slice" => running = NoThread
  /\ cpu \in Nat /\ got \in Nat /\ done \in Nat /\ max_steps \in Nat
  /\ overtaken \in [Id -> [Id -> Nat]]
  /\ spent \in Nat

(* The values the fields and locals take; only a slice has a thread.       *)
TypeOK == FlagsOK /\ ValuesOK

(* A thread is in one place: its id occurs once in the queue, and not at   *)
(* all while it holds the CPU, however many threads the slice spawns;      *)
(* currentThreadId() names the thread on the CPU during a slice, and       *)
(* nobody between two run() calls (the kernel takes it as a mutex owner).  *)
OnePlace ==
  /\ \A i, j \in DOMAIN queue : queue[i].id = queue[j].id => i = j
  /\ pc = "slice" => /\ running.id = current_id /\ current_id # 0
                     /\ \A i \in DOMAIN queue : queue[i].id # current_id
  /\ pc = "idle" => current_id = 0

(* Round robin among equals, strict priority otherwise: between two turns  *)
(* of a thread that waits awake, an equally urgent thread gets at most one *)
(* turn and a less urgent one gets none (queue order plus pickReady).      *)
BoundedOvertaking ==
  \A i \in DOMAIN queue :
    LET u == queue[i]
        Others == {queue[j] : j \in DOMAIN queue} \cup
                  (IF pc = "slice" THEN {running} ELSE {})
    IN \A x \in Others :
         /\ x.prio >= u.prio => overtaken[u.id][x.id] <= 1
         /\ x.prio > u.prio => overtaken[u.id][x.id] = 0

\* The instructions the threads of q have executed.
SumCtx(q) ==
  LET sum[n \in 0 .. Len(q)] == IF n = 0 THEN 0 ELSE sum[n - 1] + q[n].ctx
  IN sum[Len(q)]

(* No context is lost, duplicated or charged twice across load and save:   *)
(* the clock is the instructions of all threads, alive and ended, plus the *)
(* ticks it jumped while everyone slept.                                   *)
ClockIsWork == elapsed + got = SumCtx(queue) + cpu + spent

(* The clock never jumps past a wake-up, nor while somebody could run: a   *)
(* thread whose wake_at lies in the future is awake the moment it is due.  *)
NoOversleep ==
  [][elapsed' # elapsed /\ pc = "head" =>
       \A i \in DOMAIN queue : elapsed < queue[i].wake_at
                               /\ elapsed' <= queue[i].wake_at]_vars

(* Every run() call returns: each turn of its loop executes something,     *)
(* gives up, or moves the clock to a wake-up.                              *)
RunReturns == pc = "head" ~> pc = "idle"

=============================================================================
