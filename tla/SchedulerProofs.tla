--------------------------- MODULE SchedulerProofs ---------------------------
(***************************************************************************)
(* Theorems about Scheduler, for every number of threads, every set of     *)
(* priorities, tick counts and budgets, and every quantum.                 *)
(***************************************************************************)
EXTENDS Scheduler, SequenceTheorems, WellFoundedInduction, TLAPS

USE SchedulerAssumption DEF SchedulerAssumption

-----------------------------------------------------------------------------
(* Sequences: what erasing one element leaves.                             *)

LEMMA RemoveAtElements ==
  ASSUME NEW S, NEW q \in Seq(S), NEW p \in DOMAIN q
  PROVE  /\ RemoveAt(q, p) \in Seq(S)
         /\ Len(RemoveAt(q, p)) = Len(q) - 1
         /\ \A i \in 1 .. (Len(q) - 1) :
              RemoveAt(q, p)[i] = IF i < p THEN q[i] ELSE q[i + 1]
<1>1. p \in 1 .. Len(q) /\ Len(q) \in Nat
  OBVIOUS
<1>2. /\ SubSeq(q, 1, p - 1) \in Seq(S)
      /\ Len(SubSeq(q, 1, p - 1)) = p - 1
      /\ \A i \in 1 .. (p - 1) : SubSeq(q, 1, p - 1)[i] = q[i]
  BY <1>1
<1>3. /\ SubSeq(q, p + 1, Len(q)) \in Seq(S)
      /\ Len(SubSeq(q, p + 1, Len(q))) = Len(q) - p
      /\ \A i \in 1 .. (Len(q) - p) : SubSeq(q, p + 1, Len(q))[i] = q[p + i]
  BY <1>1
<1> DEFINE before == SubSeq(q, 1, p - 1)
           after == SubSeq(q, p + 1, Len(q))
<1>4. /\ before \o after \in Seq(S)
      /\ Len(before \o after) = Len(before) + Len(after)
      /\ \A i \in 1 .. (Len(before) + Len(after)) :
           (before \o after)[i] = IF i <= Len(before) THEN before[i]
                                  ELSE after[i - Len(before)]
  BY <1>2, <1>3, ConcatProperties
<1>5. RemoveAt(q, p) = before \o after
  BY DEF RemoveAt
<1> HIDE DEF before, after
<1>6. Len(RemoveAt(q, p)) = Len(q) - 1
  <2>1. Len(before) = p - 1 /\ Len(after) = Len(q) - p
    BY <1>2, <1>3 DEF before, after
  <2>2. Len(RemoveAt(q, p)) = (p - 1) + (Len(q) - p)
    BY <1>4, <1>5, <2>1
  <2>3. QED
    BY <1>1, <2>2
<1>7. ASSUME NEW i \in 1 .. (Len(q) - 1)
      PROVE  RemoveAt(q, p)[i] = IF i < p THEN q[i] ELSE q[i + 1]
  <2>1. Len(before) = p - 1 /\ Len(after) = Len(q) - p
    BY <1>2, <1>3 DEF before, after
  <2>2. i \in 1 .. (Len(before) + Len(after))
    BY <1>1, <2>1
  <2>3. CASE i < p
    BY <1>1, <1>2, <1>4, <1>5, <2>1, <2>2, <2>3 DEF before
  <2>4. CASE ~(i < p)
    <3>1. i - Len(before) \in 1 .. (Len(q) - p) /\ p + (i - Len(before)) = i + 1
      BY <1>1, <2>1, <2>4
    <3>2. after[i - Len(before)] = q[i + 1]
      BY <1>3, <3>1 DEF after
    <3>3. ~(i <= Len(before))
      BY <1>1, <2>1, <2>4
    <3>4. RemoveAt(q, p)[i] = after[i - Len(before)]
      BY <1>4, <1>5, <2>2, <3>3
    <3>5. QED
      BY <2>4, <3>2, <3>4
  <2>5. QED
    BY <2>3, <2>4
<1>8. QED
  BY <1>4, <1>5, <1>6, <1>7

-----------------------------------------------------------------------------
(* Type correctness.                                                       *)

LEMMA InitType == Init => TypeOK
<1>1. <<>> \in Seq(Thread)
  BY EmptySeq
<1>2. Init => ValuesOK
  BY <1>1 DEF Init, ValuesOK
<1>3. Init => FlagsOK
  BY DEF Init, FlagsOK
<1>4. QED
  BY <1>2, <1>3 DEF TypeOK

LEMMA NextFlags == FlagsOK /\ [Next]_vars => FlagsOK'
  BY Zenon DEF FlagsOK, Next, vars, loopVars, sliceVars,
     Host, HostSpawn, HostSleep, RunCall,
     Loop, IdleJump, PickSlice, EndSlice, ScopeLeft, RunReturn,
     Guest, Executing, SvcReturn, Insn, Fault, SvcStop, SvcExitProcess,
     SvcCreateThread, SvcOther

LEMMA NextValues == ValuesOK /\ [Next]_vars => ValuesOK'
<1> SUFFICES ASSUME ValuesOK, [Next]_vars PROVE ValuesOK'
  OBVIOUS
<1> USE DEF ValuesOK
<1>n. ASSUME NEW prio \in Prio, NEW aspace \in Space, spawn(prio, aspace)
      PROVE  queue' \in Seq(Thread) /\ next_id' \in 0 .. MaxThreads
  <2>1. [id |-> next_id + 1, ctx |-> 0, prio |-> prio, wake_at |-> 0,
         aspace |-> aspace] \in Thread
    BY <1>n DEF spawn, Thread, Id
  <2>2. QED
    BY <1>n, <2>1, AppendProperties DEF spawn
<1>1. CASE HostSpawn
  BY <1>1, <1>n DEF HostSpawn, loopVars
<1>2. CASE HostSleep
  <2>1. PICK i \in DOMAIN queue, ticks \in Ticks : sleep(i, ticks)
    BY <1>2 DEF HostSleep
  <2>2. elapsed + ticks \in Nat
    OBVIOUS
  <2>a. queue[i] \in Thread
    OBVIOUS
  <2>3. [queue[i] EXCEPT !.wake_at = elapsed + ticks] \in Thread
    BY <2>2, <2>a DEF Thread
  <2>4. queue' \in Seq(Thread)
    BY <2>1, <2>3, ExceptSeq DEF sleep
  <2>5. QED
    BY <1>2, <2>4 DEF HostSleep, loopVars
<1>3. CASE RunCall
  BY <1>3 DEF RunCall
<1>4. CASE IdleJump
  <2>1. PICK i \in DOMAIN queue : elapsed' = queue[i].wake_at /\ i \notin Ready
    BY <1>4 DEF IdleJump
  <2>a. queue[i] \in Thread
    OBVIOUS
  <2>2. queue[i].wake_at \in Nat
    BY <2>a DEF Thread
  <2>3. elapsed' - elapsed \in Nat
    BY <2>1, <2>2 DEF Ready, Awake
  <2>4. QED
    BY <1>4, <2>1, <2>2, <2>3 DEF IdleJump, loopVars
<1>5. CASE PickSlice
  <2>1. PICK p \in DOMAIN queue :
           /\ running' = queue[p] /\ queue' = RemoveAt(queue, p)
           /\ current_id' = queue[p].id /\ cpu' = queue[p].ctx
           /\ overtaken' = Overtake(p)
    BY <1>5 DEF PickSlice, Taken
  <2>2. queue' \in Seq(Thread)
    BY <2>1, RemoveAtElements
  <2>3. queue[p] \in Thread
    OBVIOUS
  <2>4. queue[p].id \in Id /\ queue[p].ctx \in Nat
    BY <2>3 DEF Thread
  <2>5. overtaken' \in [Id -> [Id -> Nat]]
    BY <2>1, <2>4 DEF Overtake
  <2>6. /\ pc' = "slice" /\ got' = 0
        /\ UNCHANGED <<next_id, elapsed, done, max_steps, spent>>
    BY <1>5 DEF PickSlice
  <2>7. running' \in Thread /\ current_id' \in 0 .. MaxThreads /\ cpu' \in Nat
    BY <2>1, <2>3, <2>4 DEF Id
  <2>8. QED
    BY <2>2, <2>5, <2>6, <2>7
<1>6. CASE EndSlice
  <2>1. running \in Thread
    BY <1>6 DEF EndSlice
  <2>2. Saved \in Thread
    BY <2>1 DEF Saved, Thread
  <2>3. \/ queue' = queue /\ spent' = spent + cpu
        \/ queue' = Append(queue, Saved) /\ spent' = spent
    BY <1>6, Zenon DEF EndSlice
  <2>a. Append(queue, Saved) \in Seq(Thread)
    BY <2>2, AppendProperties
  <2>c. queue \in Seq(Thread) /\ spent \in Nat /\ spent + cpu \in Nat
    OBVIOUS
  <2>4. queue' \in Seq(Thread) /\ spent' \in Nat
    BY <2>3, <2>a, <2>c, Zenon
  <2>b. /\ elapsed' = elapsed + got
        /\ ScopeLeft
        /\ \/ Return
           \/ pc' = "head" /\ done' = done + got /\ UNCHANGED <<current_id, max_steps>>
        /\ UNCHANGED <<next_id, overtaken>>
    BY <1>6 DEF EndSlice
  <2>5. QED
    BY <2>4, <2>b DEF ScopeLeft, Return
<1>7. CASE RunReturn
  BY <1>7 DEF RunReturn, Return
<1>8. CASE Insn \/ Fault \/ SvcStop \/ SvcExitProcess \/ SvcOther
  <2>1. CASE Insn
    BY <2>1 DEF Insn, Executing, Executed, sliceVars
  <2>2. CASE Fault
    BY <2>2 DEF Fault, Executing, Executed, sliceVars
  <2>3. CASE SvcStop
    BY <2>3 DEF SvcStop, SvcReturn, Executing, Executed, sliceVars
  <2>4. CASE SvcExitProcess
    BY <2>4 DEF SvcExitProcess, SvcReturn, Executing, Executed, sliceVars
  <2>5. CASE SvcOther
    BY <2>5 DEF SvcOther, SvcReturn, Executing, Executed, sliceVars
  <2>6. QED
    BY <1>8, <2>1, <2>2, <2>3, <2>4, <2>5
<1>9. CASE SvcCreateThread
  BY <1>9, <1>n DEF SvcCreateThread, SvcReturn, Executing, Executed, sliceVars
<1>10. CASE UNCHANGED vars
  BY <1>10 DEF vars, loopVars
<1>11. QED
  BY <1>1, <1>2, <1>3, <1>4, <1>5, <1>6, <1>7, <1>8, <1>9, <1>10
     DEF Next, Host, Loop, Guest

(* Every field and local of the scheduler always has its type.             *)
THEOREM TypeCorrect == Spec => []TypeOK
<1>1. TypeOK /\ [Next]_vars => TypeOK'
  BY NextFlags, NextValues DEF TypeOK
<1>2. QED
  BY InitType, <1>1, PTL DEF Spec

-----------------------------------------------------------------------------
(* A thread is in one place.  OnePlace is inductive once it is known that  *)
(* the counter never falls behind an id in use, so a new id is fresh.      *)

IdsUsed ==
  /\ \A i \in DOMAIN queue : queue[i].id \in 1 .. next_id
  /\ pc = "slice" => running.id \in 1 .. next_id

PlaceInv == ValuesOK /\ IdsUsed /\ OnePlace

LEMMA SpawnPlace ==
  ASSUME PlaceInv, NEW prio \in Prio, NEW aspace \in Space,
         spawn(prio, aspace), UNCHANGED <<pc, running, current_id>>
  PROVE  (IdsUsed /\ OnePlace)'
<1> DEFINE new == [id |-> next_id + 1, ctx |-> 0, prio |-> prio,
                   wake_at |-> 0, aspace |-> aspace]
<1>1. /\ queue \in Seq(Thread) /\ next_id \in Nat
      /\ queue' = Append(queue, new) /\ next_id' = next_id + 1
  BY DEF PlaceInv, ValuesOK, spawn
<1>2. new \in Thread
  BY DEF PlaceInv, ValuesOK, spawn, Thread, Id
<1>3. /\ Len(queue') = Len(queue) + 1 /\ Len(queue) \in Nat
      /\ DOMAIN queue' = 1 .. (Len(queue) + 1)
      /\ DOMAIN queue = 1 .. Len(queue)
      /\ \A i \in DOMAIN queue : queue'[i] = queue[i]
      /\ queue'[Len(queue) + 1] = new
  BY <1>1, <1>2
<1>4. new.id = next_id + 1
  OBVIOUS
<1> HIDE DEF new
<1>5. \A i \in DOMAIN queue' :
         \/ i \in DOMAIN queue /\ queue'[i] = queue[i]
         \/ i = Len(queue) + 1 /\ queue'[i].id = next_id + 1
  BY <1>3, <1>4
<1>6. IdsUsed'
  BY <1>1, <1>5 DEF PlaceInv, IdsUsed
<1>7. \A i, j \in DOMAIN queue' : queue'[i].id = queue'[j].id => i = j
  BY <1>1, <1>5 DEF PlaceInv, IdsUsed, OnePlace
<1>8. pc' = "slice" => /\ running'.id = current_id' /\ current_id' # 0
                       /\ \A i \in DOMAIN queue' : queue'[i].id # current_id'
  BY <1>1, <1>5 DEF PlaceInv, IdsUsed, OnePlace
<1>9. QED
  BY <1>6, <1>7, <1>8 DEF OnePlace, PlaceInv

(* Where the elements of the queue come from when queue[p] is taken out.   *)
LEMMA TakenElements ==
  ASSUME NEW p \in DOMAIN queue, queue \in Seq(Thread), queue' = Taken(p)
  PROVE  /\ DOMAIN queue' = 1 .. (Len(queue) - 1)
         /\ \A i \in DOMAIN queue' :
              \/ i < p /\ i \in DOMAIN queue \ {p} /\ queue'[i] = queue[i]
              \/ i >= p /\ i + 1 \in DOMAIN queue \ {p} /\ queue'[i] = queue[i + 1]
<1>1. /\ queue' \in Seq(Thread) /\ Len(queue') = Len(queue) - 1
      /\ \A i \in 1 .. (Len(queue) - 1) :
            queue'[i] = IF i < p THEN queue[i] ELSE queue[i + 1]
  BY RemoveAtElements DEF Taken
<1>2. p \in 1 .. Len(queue) /\ Len(queue) \in Nat /\ DOMAIN queue = 1 .. Len(queue)
  OBVIOUS
<1>3. DOMAIN queue' = 1 .. (Len(queue) - 1)
  BY <1>1
<1>4. QED
  BY <1>1, <1>2, <1>3

LEMMA PickPlace == PlaceInv /\ PickSlice => (IdsUsed /\ OnePlace)'
<1> SUFFICES ASSUME PlaceInv, PickSlice PROVE (IdsUsed /\ OnePlace)'
  OBVIOUS
<1>1. PICK p \in DOMAIN queue :
         running' = queue[p] /\ queue' = Taken(p) /\ current_id' = queue[p].id
  BY DEF PickSlice
<1>2. queue \in Seq(Thread) /\ next_id \in Nat
  BY DEF PlaceInv, ValuesOK
<1>3. pc' = "slice" /\ next_id' = next_id
  BY DEF PickSlice
<1>4. /\ DOMAIN queue' = 1 .. (Len(queue) - 1)
      /\ \A i \in DOMAIN queue' :
           \/ i < p /\ i \in DOMAIN queue \ {p} /\ queue'[i] = queue[i]
           \/ i >= p /\ i + 1 \in DOMAIN queue \ {p} /\ queue'[i] = queue[i + 1]
  BY <1>1, <1>2, TakenElements
<1>5. p \in Nat
  BY <1>2
<1>6. IdsUsed'
  BY <1>1, <1>3, <1>4 DEF PlaceInv, IdsUsed
<1>7. \A i, j \in DOMAIN queue' : queue'[i].id = queue'[j].id => i = j
  <2> SUFFICES ASSUME NEW i \in DOMAIN queue', NEW j \in DOMAIN queue',
                      queue'[i].id = queue'[j].id
               PROVE  i = j
    OBVIOUS
  <2>1. PICK k \in DOMAIN queue \ {p} :
           queue'[i] = queue[k] /\ k = IF i < p THEN i ELSE i + 1
    BY <1>2, <1>4, <1>5
  <2>2. PICK l \in DOMAIN queue \ {p} :
           queue'[j] = queue[l] /\ l = IF j < p THEN j ELSE j + 1
    BY <1>2, <1>4, <1>5
  <2>3. k = l
    BY <2>1, <2>2 DEF PlaceInv, OnePlace
  <2>4. i \in Nat /\ j \in Nat
    BY <1>2, <1>4
  <2>5. QED
    BY <1>5, <2>1, <2>2, <2>3, <2>4
<1>8. running'.id = current_id' /\ current_id' # 0
  BY <1>1, <1>2 DEF PlaceInv, IdsUsed
<1>9. \A i \in DOMAIN queue' : queue'[i].id # current_id'
  BY <1>1, <1>4 DEF PlaceInv, OnePlace
<1>10. QED
  BY <1>3, <1>6, <1>7, <1>8, <1>9 DEF OnePlace

LEMMA EndPlace == PlaceInv /\ EndSlice => (IdsUsed /\ OnePlace)'
<1> SUFFICES ASSUME PlaceInv, EndSlice PROVE (IdsUsed /\ OnePlace)'
  OBVIOUS
<1>1. queue \in Seq(Thread) /\ next_id \in Nat /\ next_id' = next_id
  BY DEF PlaceInv, ValuesOK, EndSlice
<1>2. /\ running \in Thread /\ pc = "slice"
      /\ running.id = current_id /\ current_id \in 1 .. next_id
      /\ \A i \in DOMAIN queue : queue[i].id # current_id
  BY DEF PlaceInv, ValuesOK, OnePlace, IdsUsed, EndSlice
<1>3. pc' # "slice" /\ (pc' = "idle" => current_id' = 0)
  BY DEF EndSlice, Return
<1>4. queue' = queue \/ queue' = Append(queue, Saved)
  BY Zenon DEF EndSlice
<1>5. CASE queue' = queue
  BY <1>1, <1>3, <1>5 DEF PlaceInv, IdsUsed, OnePlace
<1>6. CASE queue' = Append(queue, Saved)
  <2>1. Saved \in Thread /\ Saved.id = current_id
    BY <1>2 DEF Saved, Thread, PlaceInv, ValuesOK
  <2>2. /\ DOMAIN queue' = 1 .. (Len(queue) + 1)
        /\ DOMAIN queue = 1 .. Len(queue) /\ Len(queue) \in Nat
        /\ \A i \in DOMAIN queue : queue'[i] = queue[i]
        /\ queue'[Len(queue) + 1] = Saved
    BY <1>1, <1>6, <2>1
  <2>3. \A i \in DOMAIN queue' :
           \/ i \in DOMAIN queue /\ queue'[i] = queue[i]
           \/ i = Len(queue) + 1 /\ queue'[i].id = current_id
    BY <2>1, <2>2
  <2>4. IdsUsed'
    BY <1>1, <1>2, <1>3, <2>3 DEF PlaceInv, IdsUsed
  <2>5. \A i, j \in DOMAIN queue' : queue'[i].id = queue'[j].id => i = j
    BY <1>2, <2>3 DEF PlaceInv, OnePlace
  <2>6. QED
    BY <1>3, <2>4, <2>5 DEF OnePlace
<1>7. QED
  BY <1>4, <1>5, <1>6

\* sleep() changes nothing of a thread but when it wakes.
LEMMA SleepElements ==
  ASSUME ValuesOK, NEW i \in DOMAIN queue, NEW ticks \in Ticks, sleep(i, ticks)
  PROVE  /\ queue' \in Seq(Thread) /\ Len(queue') = Len(queue)
         /\ DOMAIN queue' = DOMAIN queue
         /\ \A j \in DOMAIN queue : /\ queue'[j].id = queue[j].id
                                    /\ queue'[j].prio = queue[j].prio
                                    /\ queue'[j].ctx = queue[j].ctx
<1>1. queue \in Seq(Thread) /\ queue[i] \in Thread
  BY DEF ValuesOK
<1> DEFINE slept == [queue[i] EXCEPT !.wake_at = elapsed + ticks]
<1>2. /\ slept \in Thread /\ slept.id = queue[i].id
      /\ slept.prio = queue[i].prio /\ slept.ctx = queue[i].ctx
  <2>1. elapsed + ticks \in Nat
    BY DEF ValuesOK
  <2>2. QED
    BY <1>1, <2>1 DEF Thread
<1>3. queue' = [queue EXCEPT ![i] = slept]
  BY Zenon DEF sleep
<1> HIDE DEF slept
<1>4. queue' \in Seq(Thread) /\ Len(queue') = Len(queue)
  BY <1>1, <1>2, <1>3, ExceptSeq
<1>5. DOMAIN queue' = DOMAIN queue
  BY <1>3
<1>6. ASSUME NEW j \in DOMAIN queue
      PROVE  /\ queue'[j].id = queue[j].id /\ queue'[j].prio = queue[j].prio
             /\ queue'[j].ctx = queue[j].ctx
  <2>1. queue'[j] = IF j = i THEN slept ELSE queue[j]
    BY <1>3
  <2>2. QED
    BY <1>2, <2>1
<1>7. QED
  BY <1>4, <1>5, <1>6

LEMMA SleepPlace == PlaceInv /\ HostSleep => (IdsUsed /\ OnePlace)'
<1> SUFFICES ASSUME PlaceInv, HostSleep PROVE (IdsUsed /\ OnePlace)'
  OBVIOUS
<1>1. PICK i \in DOMAIN queue, ticks \in Ticks : sleep(i, ticks)
  BY DEF HostSleep
<1>2. ValuesOK
  BY DEF PlaceInv
<1>3. DOMAIN queue' = DOMAIN queue /\ \A j \in DOMAIN queue : queue'[j].id = queue[j].id
  BY <1>1, <1>2, SleepElements
<1>4. UNCHANGED <<next_id, pc, running, current_id>>
  BY DEF HostSleep, loopVars
<1>5. QED
  BY <1>3, <1>4 DEF PlaceInv, IdsUsed, OnePlace

LEMMA NextPlace == PlaceInv /\ [Next]_vars => (IdsUsed /\ OnePlace)'
<1> SUFFICES ASSUME PlaceInv, [Next]_vars PROVE (IdsUsed /\ OnePlace)'
  OBVIOUS
<1>1. CASE HostSpawn
  BY <1>1, SpawnPlace DEF HostSpawn, loopVars
<1>2. CASE HostSleep
  BY <1>2, SleepPlace
<1>3. CASE RunCall
  BY <1>3 DEF RunCall, PlaceInv, IdsUsed, OnePlace
<1>4. CASE IdleJump
  BY <1>4 DEF IdleJump, loopVars, PlaceInv, IdsUsed, OnePlace
<1>5. CASE PickSlice
  BY <1>5, PickPlace
<1>6. CASE EndSlice
  BY <1>6, EndPlace
<1>7. CASE RunReturn
  BY <1>7 DEF RunReturn, Return, PlaceInv, IdsUsed, OnePlace
<1>8. CASE Insn \/ Fault \/ SvcStop \/ SvcExitProcess \/ SvcOther
  BY <1>8 DEF Insn, Fault, SvcStop, SvcExitProcess, SvcOther, sliceVars,
              PlaceInv, IdsUsed, OnePlace
<1>9. CASE SvcCreateThread
  BY <1>9, SpawnPlace DEF SvcCreateThread, sliceVars
<1>10. CASE UNCHANGED vars
  BY <1>10 DEF vars, loopVars, PlaceInv, IdsUsed, OnePlace
<1>11. QED
  BY <1>1, <1>2, <1>3, <1>4, <1>5, <1>6, <1>7, <1>8, <1>9, <1>10
     DEF Next, Host, Loop, Guest

LEMMA PlaceInvariant == Spec => []PlaceInv
<1>1. Init => PlaceInv
  BY InitType DEF Init, PlaceInv, IdsUsed, OnePlace, TypeOK
<1>2. PlaceInv /\ [Next]_vars => PlaceInv'
  BY NextPlace, NextValues DEF PlaceInv
<1>3. QED
  BY <1>1, <1>2, PTL DEF Spec

(* However threads are spawned, put to sleep, preempted, ended or faulted, *)
(* none is ever twice in the queue, or in the queue and on the CPU.        *)
THEOREM ThreadsInOnePlace == Spec => []OnePlace
  BY PlaceInvariant, PTL DEF PlaceInv

-----------------------------------------------------------------------------
(* Bounded overtaking.  A turn of x that overtakes a waiting u sends x     *)
(* behind u in the queue (or ends it), which is why it cannot do so twice. *)

Ahead(i, j) ==
  LET u == queue[i]
      x == queue[j]
  IN x.prio >= u.prio =>
       /\ overtaken[u.id][x.id] <= 1
       /\ overtaken[u.id][x.id] > 0 => x.prio = u.prio /\ i < j

FreshUnmarked ==
  \A u, x \in Id : u > next_id \/ x > next_id => overtaken[u][x] = 0

RunnerAhead ==
  pc = "slice" =>
    /\ \A x \in Id : overtaken[running.id][x] = 0
    /\ \A i \in DOMAIN queue :
         running.prio >= queue[i].prio =>
           /\ overtaken[queue[i].id][running.id] <= 1
           /\ overtaken[queue[i].id][running.id] > 0
                => running.prio = queue[i].prio

QueueAhead == \A i, j \in DOMAIN queue : Ahead(i, j)

TurnInv == FreshUnmarked /\ QueueAhead /\ RunnerAhead

LEMMA TurnBound == ValuesOK /\ TurnInv => BoundedOvertaking
<1> SUFFICES ASSUME ValuesOK, TurnInv, NEW i \in DOMAIN queue,
                    NEW x \in {queue[j] : j \in DOMAIN queue} \cup
                              (IF pc = "slice" THEN {running} ELSE {})
             PROVE  /\ x.prio >= queue[i].prio
                         => overtaken[queue[i].id][x.id] <= 1
                    /\ x.prio > queue[i].prio
                         => overtaken[queue[i].id][x.id] = 0
  BY DEF BoundedOvertaking
<1>1. queue[i] \in Thread
  BY DEF ValuesOK
<1>2. x \in Thread
  BY DEF ValuesOK
<1>3. /\ queue[i].prio \in Nat /\ x.prio \in Nat
      /\ overtaken[queue[i].id][x.id] \in Nat
  <2>1. queue[i].id \in Id /\ x.id \in Id
    BY <1>1, <1>2 DEF Thread
  <2>2. queue[i].prio \in Nat /\ x.prio \in Nat
    BY <1>1, <1>2 DEF Thread
  <2>3. overtaken[queue[i].id][x.id] \in Nat
    BY <2>1 DEF ValuesOK
  <2>4. QED
    BY <2>2, <2>3
<1>4. x.prio >= queue[i].prio =>
        /\ overtaken[queue[i].id][x.id] <= 1
        /\ overtaken[queue[i].id][x.id] > 0 => x.prio = queue[i].prio
  <2>1. CASE \E j \in DOMAIN queue : x = queue[j]
    BY <2>1 DEF TurnInv, QueueAhead, Ahead
  <2>2. CASE pc = "slice" /\ x = running
    BY <2>2 DEF TurnInv, RunnerAhead
  <2>3. QED
    BY <2>1, <2>2
<1>5. QED
  BY <1>3, <1>4

(* What a pick does to the row of each thread of the queue.                *)
LEMMA OvertakeRows ==
  ASSUME PlaceInv, NEW p \in DOMAIN queue
  PROVE  /\ \A x \in Id : Overtake(p)[queue[p].id][x] = 0
         /\ \A i \in DOMAIN queue \ {p}, x \in Id :
              \/ Overtake(p)[queue[i].id][x] = 0
              \/ Overtake(p)[queue[i].id][x] = overtaken[queue[i].id][x]
                   /\ x # queue[p].id
              \/ /\ x = queue[p].id /\ i \in Ready
                 /\ queue[i].prio <= queue[p].prio
                 /\ Overtake(p)[queue[i].id][x] = overtaken[queue[i].id][x] + 1
              \/ /\ x = queue[p].id /\ i \in Ready
                 /\ ~(queue[i].prio <= queue[p].prio)
                 /\ Overtake(p)[queue[i].id][x] = overtaken[queue[i].id][x]
         /\ \A u, x \in Id : (\A i \in DOMAIN queue : queue[i].id # u)
              => Overtake(p)[u][x] = 0
<1>a. \A i \in DOMAIN queue : queue[i] \in Thread
  BY DEF PlaceInv, ValuesOK
<1>b. \A i \in DOMAIN queue : queue[i].id \in Id
  BY <1>a DEF Thread
<1>c. \A i, j \in DOMAIN queue : queue[i].id = queue[j].id => i = j
  BY DEF PlaceInv, OnePlace
<1>d. overtaken \in [Id -> [Id -> Nat]]
  BY DEF PlaceInv, ValuesOK
<1>1. /\ overtaken \in [Id -> [Id -> Nat]]
      /\ \A i \in DOMAIN queue : queue[i] \in Thread /\ queue[i].id \in Id
      /\ \A i, j \in DOMAIN queue : queue[i].id = queue[j].id => i = j
  BY <1>a, <1>b, <1>c, <1>d
<1>2. \A x \in Id : Overtake(p)[queue[p].id][x] = 0
  BY <1>1 DEF Overtake, Ready
<1>3. \A u, x \in Id : (\A i \in DOMAIN queue : queue[i].id # u)
         => Overtake(p)[u][x] = 0
  BY <1>1 DEF Overtake, Ready
<1>4. ASSUME NEW i \in DOMAIN queue \ {p}, NEW x \in Id
      PROVE  \/ Overtake(p)[queue[i].id][x] = 0
             \/ Overtake(p)[queue[i].id][x] = overtaken[queue[i].id][x]
                  /\ x # queue[p].id
             \/ /\ x = queue[p].id /\ i \in Ready
                /\ queue[i].prio <= queue[p].prio
                /\ Overtake(p)[queue[i].id][x] = overtaken[queue[i].id][x] + 1
             \/ /\ x = queue[p].id /\ i \in Ready
                /\ ~(queue[i].prio <= queue[p].prio)
                /\ Overtake(p)[queue[i].id][x] = overtaken[queue[i].id][x]
  <2>1. CASE i \notin Ready
    BY <1>1, <2>1 DEF Overtake, Ready
  <2>2. CASE i \in Ready /\ queue[i].prio <= queue[p].prio
    <3>1. Overtake(p)[queue[i].id]
            = [overtaken[queue[i].id] EXCEPT ![queue[p].id] = @ + 1]
      BY <1>1, <2>2 DEF Overtake
    <3>2. QED
      BY <1>1, <2>2, <3>1
  <2>3. CASE i \in Ready /\ ~(queue[i].prio <= queue[p].prio)
    <3>1. Overtake(p)[queue[i].id] = overtaken[queue[i].id]
      BY <1>1, <2>3 DEF Overtake, Ready
    <3>2. QED
      BY <1>1, <2>3, <3>1
  <2>4. QED
    BY <2>1, <2>2, <2>3
<1>5. QED
  BY <1>2, <1>3, <1>4

LEMMA PickTurn == PlaceInv /\ TurnInv /\ PickSlice => TurnInv'
<1> SUFFICES ASSUME PlaceInv, TurnInv, PickSlice PROVE TurnInv'
  OBVIOUS
<1>1. PICK p \in DOMAIN queue :
         /\ pickReady(p) /\ running' = queue[p] /\ queue' = Taken(p)
         /\ overtaken' = Overtake(p)
  BY DEF PickSlice
<1>2. /\ queue \in Seq(Thread) /\ next_id \in Nat /\ p \in Nat
      /\ \A i \in DOMAIN queue : /\ queue[i].id \in Id /\ queue[i].prio \in Nat
                                 /\ queue[i].id \in 1 .. next_id
      /\ \A i, j \in DOMAIN queue : queue[i].id = queue[j].id => i = j
      /\ overtaken \in [Id -> [Id -> Nat]]
  <2>1. \A i \in DOMAIN queue : queue[i] \in Thread
    BY DEF PlaceInv, ValuesOK
  <2>2. \A i \in DOMAIN queue : queue[i].id \in Id /\ queue[i].prio \in Nat
    BY <2>1 DEF Thread
  <2>3. /\ queue \in Seq(Thread) /\ next_id \in Nat /\ p \in Nat
        /\ overtaken \in [Id -> [Id -> Nat]]
    BY DEF PlaceInv, ValuesOK
  <2>4. \A i \in DOMAIN queue : queue[i].id \in 1 .. next_id
    BY DEF PlaceInv, IdsUsed
  <2>5. \A i, j \in DOMAIN queue : queue[i].id = queue[j].id => i = j
    BY DEF PlaceInv, OnePlace
  <2>6. QED
    BY <2>2, <2>3, <2>4, <2>5
<1>3. /\ DOMAIN queue' = 1 .. (Len(queue) - 1)
      /\ \A i \in DOMAIN queue' :
           \/ i < p /\ i \in DOMAIN queue \ {p} /\ queue'[i] = queue[i]
           \/ i >= p /\ i + 1 \in DOMAIN queue \ {p} /\ queue'[i] = queue[i + 1]
  BY <1>1, <1>2, TakenElements
<1>4. next_id' = next_id /\ pc' = "slice"
  BY DEF PickSlice
<1>5. FreshUnmarked'
  <2> SUFFICES ASSUME NEW u \in Id, NEW x \in Id, u > next_id \/ x > next_id
               PROVE  overtaken'[u][x] = 0
    BY <1>4 DEF FreshUnmarked
  <2>1. CASE \A i \in DOMAIN queue : queue[i].id # u
    BY <1>1, <2>1, OvertakeRows
  <2>2. CASE u = queue[p].id
    BY <1>1, <2>2, OvertakeRows
  <2>3. ASSUME NEW i \in DOMAIN queue \ {p}, queue[i].id = u
        PROVE  overtaken'[u][x] = 0
    <3>1. overtaken[u][x] = 0 /\ x # queue[p].id
      BY <1>2, <2>3 DEF TurnInv, FreshUnmarked
    <3>2. QED
      BY <1>1, <2>3, <3>1, OvertakeRows
  <2>4. QED
    BY <2>1, <2>2, <2>3
<1>6. QueueAhead'
  <2> SUFFICES ASSUME NEW i \in DOMAIN queue', NEW j \in DOMAIN queue'
               PROVE  Ahead(i, j)'
    BY DEF QueueAhead
  <2>1. PICK k \in DOMAIN queue \ {p} :
           queue'[i] = queue[k] /\ k = IF i < p THEN i ELSE i + 1
    BY <1>2, <1>3
  <2>2. PICK l \in DOMAIN queue \ {p} :
           queue'[j] = queue[l] /\ l = IF j < p THEN j ELSE j + 1
    BY <1>2, <1>3
  <2>3. k < l => i < j
    BY <1>2, <1>3, <2>1, <2>2
  <2>4. queue[l].id # queue[p].id
    BY <1>2
  <2>5. \/ overtaken'[queue[k].id][queue[l].id] = 0
        \/ overtaken'[queue[k].id][queue[l].id]
             = overtaken[queue[k].id][queue[l].id]
    <3>1. \A x \in Id :
            \/ Overtake(p)[queue[k].id][x] = 0
            \/ Overtake(p)[queue[k].id][x] = overtaken[queue[k].id][x]
            \/ x = queue[p].id
      BY OvertakeRows
    <3>2. queue[l].id \in Id
      BY <1>2
    <3>3. QED
      BY <1>1, <2>4, <3>1, <3>2
  <2>6. Ahead(k, l)
    BY DEF TurnInv, QueueAhead
  <2>7. QED
    BY <2>1, <2>2, <2>3, <2>5, <2>6 DEF Ahead
<1>7. RunnerAhead'
  <2>1. \A x \in Id : overtaken'[running'.id][x] = 0
    BY <1>1, OvertakeRows
  <2>2. ASSUME NEW i \in DOMAIN queue', running'.prio >= queue'[i].prio
        PROVE  /\ overtaken'[queue'[i].id][running'.id] <= 1
               /\ overtaken'[queue'[i].id][running'.id] > 0
                    => running'.prio = queue'[i].prio
    <3>1. PICK k \in DOMAIN queue \ {p} : queue'[i] = queue[k]
      BY <1>3
    <3>2. Ahead(k, p)
      BY DEF TurnInv, QueueAhead
    <3>3. k \in Ready => \/ queue[p].prio < queue[k].prio
                         \/ queue[p].prio = queue[k].prio /\ p <= k
      BY <1>1 DEF pickReady
    <3>4. k \in Ready => /\ queue[p].prio = queue[k].prio
                         /\ overtaken[queue[k].id][queue[p].id] = 0
      <4>1. overtaken[queue[k].id][queue[p].id] \in Nat /\ k \in Nat
        BY <1>2
      <4>2. QED
        BY <1>1, <1>2, <2>2, <3>1, <3>2, <3>3, <4>1 DEF Ahead
    <3>5. QED
      BY <1>1, <1>2, <2>2, <3>1, <3>4, OvertakeRows
  <2>3. QED
    BY <2>1, <2>2 DEF RunnerAhead
<1>8. QED
  BY <1>5, <1>6, <1>7 DEF TurnInv

LEMMA EndTurn == PlaceInv /\ TurnInv /\ EndSlice => TurnInv'
<1> SUFFICES ASSUME PlaceInv, TurnInv, EndSlice PROVE TurnInv'
  OBVIOUS
<1>1. /\ running \in Thread /\ pc = "slice" /\ queue \in Seq(Thread)
      /\ overtaken' = overtaken /\ next_id' = next_id /\ pc' # "slice"
  BY DEF PlaceInv, ValuesOK, EndSlice, Return
<1>2. queue' = queue \/ queue' = Append(queue, Saved)
  BY Zenon DEF EndSlice
<1>3. FreshUnmarked' /\ RunnerAhead'
  BY <1>1 DEF TurnInv, FreshUnmarked, RunnerAhead
<1>4. CASE queue' = queue
  <2>1. QueueAhead'
    BY <1>1, <1>4 DEF TurnInv, QueueAhead, Ahead
  <2>2. QED
    BY <1>3, <2>1 DEF TurnInv
<1>5. CASE queue' = Append(queue, Saved)
  <2>1. Saved \in Thread /\ Saved.id = running.id /\ Saved.prio = running.prio
    BY <1>1 DEF Saved, Thread, PlaceInv, ValuesOK
  <2>2. /\ DOMAIN queue' = 1 .. (Len(queue) + 1)
        /\ DOMAIN queue = 1 .. Len(queue) /\ Len(queue) \in Nat
        /\ \A i \in DOMAIN queue : queue'[i] = queue[i]
        /\ queue'[Len(queue) + 1] = Saved
    BY <1>1, <1>5, <2>1
  <2>3. \A i \in DOMAIN queue' :
           \/ i \in DOMAIN queue /\ queue'[i] = queue[i]
           \/ /\ i = Len(queue) + 1
              /\ queue'[i].id = running.id /\ queue'[i].prio = running.prio
    BY <2>1, <2>2
  <2>4. \A i \in DOMAIN queue' : queue'[i] \in Thread
    BY <1>1, <2>1, <2>2
  <2>5. \A i \in DOMAIN queue' : queue'[i].id \in Id
    BY <2>4 DEF Thread
  <2>6. QueueAhead'
    <3> SUFFICES ASSUME NEW i \in DOMAIN queue', NEW j \in DOMAIN queue'
                 PROVE  Ahead(i, j)'
      BY DEF QueueAhead
    <3>1. CASE i = Len(queue) + 1 /\ queue'[i].id = running.id
      <4>1. overtaken[running.id][queue'[j].id] = 0
        BY <1>1, <2>5 DEF TurnInv, RunnerAhead
      <4>2. QED
        BY <1>1, <3>1, <4>1 DEF Ahead
    <3>2. CASE i \in DOMAIN queue /\ j \in DOMAIN queue
      <4>1. Ahead(i, j)
        BY <3>2 DEF TurnInv, QueueAhead
      <4>2. QED
        BY <1>1, <2>2, <3>2, <4>1 DEF Ahead
    <3>3. CASE /\ i \in DOMAIN queue /\ queue'[i] = queue[i]
               /\ j = Len(queue) + 1
               /\ queue'[j].id = running.id /\ queue'[j].prio = running.prio
      <4>1. running.prio >= queue[i].prio =>
              /\ overtaken[queue[i].id][running.id] <= 1
              /\ overtaken[queue[i].id][running.id] > 0
                   => running.prio = queue[i].prio
        BY <1>1, <3>3 DEF TurnInv, RunnerAhead
      <4>2. i < j
        BY <2>2, <3>3
      <4>3. QED
        BY <1>1, <3>3, <4>1, <4>2 DEF Ahead
    <3>4. QED
      BY <2>3, <3>1, <3>2, <3>3
  <2>7. QED
    BY <1>3, <2>6 DEF TurnInv
<1>6. QED
  BY <1>2, <1>4, <1>5

(* A new thread has overtaken nobody, and nobody has overtaken it.         *)
LEMMA SpawnTurn ==
  ASSUME PlaceInv, TurnInv, NEW prio \in Prio, NEW aspace \in Space,
         spawn(prio, aspace), UNCHANGED <<pc, running, overtaken>>
  PROVE  TurnInv'
<1> DEFINE new == [id |-> next_id + 1, ctx |-> 0, prio |-> prio,
                   wake_at |-> 0, aspace |-> aspace]
<1>1. /\ queue \in Seq(Thread) /\ next_id \in Nat /\ next_id + 1 \in Id
      /\ queue' = Append(queue, new) /\ next_id' = next_id + 1
  BY DEF PlaceInv, ValuesOK, spawn, Id
<1>2. new \in Thread
  BY <1>1 DEF Thread
<1>3. /\ Len(queue') = Len(queue) + 1 /\ Len(queue) \in Nat
      /\ DOMAIN queue' = 1 .. (Len(queue) + 1)
      /\ DOMAIN queue = 1 .. Len(queue)
      /\ \A i \in DOMAIN queue : queue'[i] = queue[i]
      /\ queue'[Len(queue) + 1] = new
  BY <1>1, <1>2
<1>4. new.id = next_id + 1
  OBVIOUS
<1> HIDE DEF new
<1>5. \A i \in DOMAIN queue' :
         \/ i \in DOMAIN queue /\ queue'[i] = queue[i]
         \/ i = Len(queue) + 1 /\ queue'[i].id = next_id + 1
  BY <1>3, <1>4
<1>6. \A i \in DOMAIN queue' : queue'[i] \in Thread
  BY <1>1, <1>2, <1>3
<1>7. \A i \in DOMAIN queue' : queue'[i].id \in Id
  BY <1>6 DEF Thread
<1>8. \A u, x \in Id : u = next_id + 1 \/ x = next_id + 1 => overtaken[u][x] = 0
  BY <1>1 DEF TurnInv, FreshUnmarked
<1>9. FreshUnmarked'
  BY <1>1 DEF TurnInv, FreshUnmarked, Id
<1>10. QueueAhead'
  <2> SUFFICES ASSUME NEW i \in DOMAIN queue', NEW j \in DOMAIN queue'
               PROVE  Ahead(i, j)'
    BY DEF QueueAhead
  <2>1. CASE i \in DOMAIN queue /\ j \in DOMAIN queue
    <3>1. Ahead(i, j)
      BY <2>1 DEF TurnInv, QueueAhead
    <3>2. QED
      BY <1>3, <2>1, <3>1 DEF Ahead
  <2>2. CASE queue'[i].id = next_id + 1 \/ queue'[j].id = next_id + 1
    <3>1. overtaken[queue'[i].id][queue'[j].id] = 0
      BY <1>7, <1>8, <2>2
    <3>2. QED
      BY <3>1 DEF Ahead
  <2>3. QED
    BY <1>5, <2>1, <2>2
<1>11. RunnerAhead'
  <2> SUFFICES ASSUME pc = "slice" PROVE RunnerAhead'
    BY DEF RunnerAhead
  <2>1. running \in Thread
    BY DEF PlaceInv, ValuesOK
  <2>2. running.id \in Id
    BY <2>1 DEF Thread
  <2>3. \A x \in Id : overtaken[running.id][x] = 0
    BY DEF TurnInv, RunnerAhead
  <2>4. ASSUME NEW i \in DOMAIN queue', running.prio >= queue'[i].prio
        PROVE  /\ overtaken[queue'[i].id][running.id] <= 1
               /\ overtaken[queue'[i].id][running.id] > 0
                    => running.prio = queue'[i].prio
    <3>1. CASE i \in DOMAIN queue /\ queue'[i] = queue[i]
      BY <2>4, <3>1 DEF TurnInv, RunnerAhead
    <3>2. CASE queue'[i].id = next_id + 1
      <4>1. overtaken[queue'[i].id][running.id] = 0
        BY <1>7, <1>8, <2>2, <3>2
      <4>2. QED
        BY <4>1
    <3>3. QED
      BY <1>5, <3>1, <3>2
  <2>5. QED
    BY <2>3, <2>4 DEF RunnerAhead
<1>12. QED
  BY <1>9, <1>10, <1>11 DEF TurnInv

LEMMA SleepTurn == PlaceInv /\ TurnInv /\ HostSleep => TurnInv'
<1> SUFFICES ASSUME PlaceInv, TurnInv, HostSleep PROVE TurnInv'
  OBVIOUS
<1>1. PICK i \in DOMAIN queue, ticks \in Ticks : sleep(i, ticks)
  BY DEF HostSleep
<1>2. ValuesOK
  BY DEF PlaceInv
<1>3. /\ DOMAIN queue' = DOMAIN queue
      /\ \A j \in DOMAIN queue : /\ queue'[j].id = queue[j].id
                                 /\ queue'[j].prio = queue[j].prio
  BY <1>1, <1>2, SleepElements
<1>4. UNCHANGED <<next_id, overtaken>> /\ pc' # "slice"
  BY DEF HostSleep, loopVars
<1>5. FreshUnmarked' /\ RunnerAhead'
  BY <1>4 DEF TurnInv, FreshUnmarked, RunnerAhead
<1>6. QueueAhead'
  BY <1>3, <1>4 DEF TurnInv, QueueAhead, Ahead
<1>7. QED
  BY <1>5, <1>6 DEF TurnInv

LEMMA SameTurn ==
  TurnInv /\ UNCHANGED <<queue, next_id, running, overtaken>>
    /\ (pc' = "slice" => pc = "slice") => TurnInv'
  BY DEF TurnInv, FreshUnmarked, QueueAhead, Ahead, RunnerAhead

LEMMA NextTurn == PlaceInv /\ TurnInv /\ [Next]_vars => TurnInv'
<1> SUFFICES ASSUME PlaceInv, TurnInv, [Next]_vars PROVE TurnInv'
  OBVIOUS
<1>1. CASE HostSpawn
  BY <1>1, SpawnTurn DEF HostSpawn, loopVars
<1>2. CASE HostSleep
  BY <1>2, SleepTurn
<1>3. CASE RunCall
  BY <1>3, SameTurn DEF RunCall
<1>4. CASE IdleJump
  BY <1>4, SameTurn DEF IdleJump, loopVars
<1>5. CASE PickSlice
  BY <1>5, PickTurn
<1>6. CASE EndSlice
  BY <1>6, EndTurn
<1>7. CASE RunReturn
  BY <1>7, SameTurn DEF RunReturn, Return
<1>8. CASE Insn \/ Fault \/ SvcStop \/ SvcExitProcess \/ SvcOther
  BY <1>8, SameTurn DEF Insn, Fault, SvcStop, SvcExitProcess, SvcOther, sliceVars
<1>9. CASE SvcCreateThread
  BY <1>9, SpawnTurn DEF SvcCreateThread, sliceVars
<1>10. CASE UNCHANGED vars
  BY <1>10, SameTurn DEF vars, loopVars
<1>11. QED
  BY <1>1, <1>2, <1>3, <1>4, <1>5, <1>6, <1>7, <1>8, <1>9, <1>10
     DEF Next, Host, Loop, Guest

(* Between two turns of a thread that waits awake, an equally urgent one   *)
(* runs at most once and a less urgent one never: no starvation by queue   *)
(* order, whatever is spawned, put to sleep or ended meanwhile.            *)
THEOREM NoDoubleOvertaking == Spec => []BoundedOvertaking
<1>1. Init => TurnInv
  <2>1. DOMAIN <<>> = {}
    OBVIOUS
  <2>2. QED
    BY <2>1 DEF Init, TurnInv, FreshUnmarked, QueueAhead, RunnerAhead
<1>2. PlaceInv /\ TurnInv /\ [Next]_vars => TurnInv'
  BY NextTurn
<1>3. PlaceInv /\ TurnInv => BoundedOvertaking
  BY TurnBound DEF PlaceInv
<1>4. QED
  BY PlaceInvariant, <1>1, <1>2, <1>3, PTL DEF Spec

-----------------------------------------------------------------------------
(* The clock of a run() call jumps only while everybody sleeps, and only   *)
(* as far as the earliest wake-up.                                         *)
THEOREM WakesOnTime == Spec => NoOversleep
<1>1. ValuesOK /\ [Next]_vars =>
        [elapsed' # elapsed /\ pc = "head" =>
           \A i \in DOMAIN queue : elapsed < queue[i].wake_at
                                   /\ elapsed' <= queue[i].wake_at]_vars
  <2> SUFFICES ASSUME ValuesOK, Next, elapsed' # elapsed, pc = "head",
                      NEW i \in DOMAIN queue
               PROVE  elapsed < queue[i].wake_at /\ elapsed' <= queue[i].wake_at
    OBVIOUS
  <2>1. IdleJump
    BY DEF Next, Host, HostSpawn, HostSleep, RunCall, Loop, PickSlice, EndSlice,
           RunReturn, Guest, Insn, Fault, SvcStop, SvcExitProcess,
           SvcCreateThread, SvcOther, Executing, sliceVars
  <2>2. queue[i] \in Thread
    BY DEF ValuesOK
  <2>3. queue[i].wake_at \in Nat /\ elapsed \in Nat
    BY <2>2 DEF Thread, ValuesOK
  <2>4. ~(queue[i].wake_at <= elapsed)
    BY <2>1 DEF IdleJump, Ready, Awake
  <2>5. elapsed' <= queue[i].wake_at
    BY <2>1 DEF IdleJump, WakesFirst
  <2>6. QED
    BY <2>3, <2>4, <2>5
<1>2. QED
  BY PlaceInvariant, <1>1, PTL DEF Spec, PlaceInv, NoOversleep

-----------------------------------------------------------------------------
(* The sum of a queue's contexts.  Running sums exist and are unique, for  *)
(* there is no first place where they would not; what an appended or an    *)
(* erased thread changes then follows from running sums written down.      *)

LEMMA FirstPlace ==
  ASSUME NEW S \in SUBSET Nat, S # {}
  PROVE  \E x \in S : \A y \in S : x <= y
<1>1. IsWellFoundedOn(OpToRel(<, Nat), Nat)
  BY NatLessThanWellFounded
<1>2. \E x \in S : \A y \in S : ~(<<y, x>> \in OpToRel(<, Nat))
  BY <1>1, WFMin
<1>3. PICK x \in S : \A y \in S : ~(<<y, x>> \in OpToRel(<, Nat))
  BY <1>2
<1>4. \A y \in S : ~(y < x)
  BY <1>3 DEF OpToRel
<1>5. QED
  BY <1>4

LEMMA CtxIsInt ==
  ASSUME NEW q \in Seq(Thread)
  PROVE  \A n \in 1 .. Len(q) : q[n].ctx \in Int
<1> SUFFICES ASSUME NEW n \in 1 .. Len(q) PROVE q[n].ctx \in Int
  OBVIOUS
<1>1. q[n] \in Thread
  OBVIOUS
<1>2. QED
  BY <1>1 DEF Thread

\* f holds the running sums of the first k contexts of q.
SumsTo(f, q, k) ==
  /\ f \in [0 .. k -> Int]
  /\ f[0] = 0
  /\ \A n \in 1 .. k : f[n] = f[n - 1] + q[n].ctx

LEMMA SumsExist ==
  ASSUME NEW q \in Seq(Thread), NEW l \in Nat, l <= Len(q)
  PROVE  \E f : SumsTo(f, q, l)
<1> DEFINE Bad == {k \in 0 .. Len(q) : ~\E f : SumsTo(f, q, k)}
<1> SUFFICES ASSUME Bad # {} PROVE FALSE
  OBVIOUS
<1>1. Len(q) \in Nat /\ \A n \in 1 .. Len(q) : q[n].ctx \in Int
  BY CtxIsInt
<1>2. Bad \in SUBSET Nat
  BY <1>1
<1>3. PICK k \in Bad : \A j \in Bad : k <= j
  BY <1>2, FirstPlace
<1>4. CASE k = 0
  <2>1. SumsTo([n \in 0 .. 0 |-> 0], q, 0)
    BY DEF SumsTo
  <2>2. QED
    BY <1>3, <1>4, <2>1
<1>5. CASE k # 0
  <2>1. k - 1 \in 0 .. Len(q) /\ ~(k <= k - 1) /\ k \in 1 .. Len(q)
    BY <1>1, <1>3, <1>5
  <2>2. PICK g : SumsTo(g, q, k - 1)
    BY <1>3, <2>1
  <2> DEFINE f == [n \in 0 .. k |-> IF n = k THEN g[k - 1] + q[k].ctx ELSE g[n]]
  <2>3. g[k - 1] \in Int /\ q[k].ctx \in Int
    BY <1>1, <2>1, <2>2 DEF SumsTo
  <2>4. \A n \in 0 .. k : n # k => n \in 0 .. k - 1 /\ g[n] \in Int
    BY <2>1, <2>2 DEF SumsTo
  <2>5. f \in [0 .. k -> Int]
    BY <2>3, <2>4
  <2>6. f[0] = 0
    BY <1>5, <2>1, <2>2 DEF SumsTo
  <2>7. \A n \in 0 .. k : n # k => f[n] = g[n]
    OBVIOUS
  <2>8. f[k] = g[k - 1] + q[k].ctx
    BY <2>1
  <2> HIDE DEF f
  <2>9. ASSUME NEW n \in 1 .. k PROVE f[n] = f[n - 1] + q[n].ctx
    <3>1. n - 1 \in 0 .. k /\ n - 1 # k /\ f[n - 1] = g[n - 1]
      BY <2>1, <2>7
    <3>2. CASE n = k
      BY <2>8, <3>1, <3>2
    <3>3. CASE n # k
      <4>1. n \in 1 .. k - 1 /\ f[n] = g[n]
        BY <2>1, <2>7, <3>3
      <4>2. QED
        BY <2>2, <3>1, <4>1 DEF SumsTo
    <3>4. QED
      BY <3>2, <3>3
  <2>10. SumsTo(f, q, k)
    BY <2>5, <2>6, <2>9 DEF SumsTo
  <2>11. QED
    BY <1>3, <2>10
<1>6. QED
  BY <1>4, <1>5

AreSums(f, q) ==
  f = [n \in 0 .. Len(q) |-> IF n = 0 THEN 0 ELSE f[n - 1] + q[n].ctx]

LEMMA SumIsLast ==
  ASSUME NEW q \in Seq(Thread), NEW f, SumsTo(f, q, Len(q))
  PROVE  SumCtx(q) = f[Len(q)]
<1>1. Len(q) \in Nat
  OBVIOUS
<1>2. AreSums(f, q)
  <2>1. f = [n \in 0 .. Len(q) |-> f[n]]
    BY DEF SumsTo
  <2>2. \A n \in 0 .. Len(q) : f[n] = IF n = 0 THEN 0 ELSE f[n - 1] + q[n].ctx
    BY <1>1 DEF SumsTo
  <2>3. f = [n \in 0 .. Len(q) |-> IF n = 0 THEN 0 ELSE f[n - 1] + q[n].ctx]
    BY <2>1, <2>2
  <2>4. QED
    BY <2>3, Zenon DEF AreSums
<1> DEFINE g == CHOOSE h : AreSums(h, q)
<1>3. AreSums(g, q)
  BY <1>2, Zenon
<1>4. SumCtx(q) = g[Len(q)]
  BY Zenon DEF SumCtx, AreSums
<1> HIDE DEF g
<1>5. \A n \in 0 .. Len(q) : g[n] = IF n = 0 THEN 0 ELSE g[n - 1] + q[n].ctx
  BY <1>3 DEF AreSums
<1> DEFINE Bad == {n \in 0 .. Len(q) : g[n] # f[n]}
<1>6. Bad = {}
  <2> SUFFICES ASSUME Bad # {} PROVE FALSE
    OBVIOUS
  <2>1. Bad \in SUBSET Nat
    BY <1>1
  <2>2. PICK n \in Bad : \A j \in Bad : n <= j
    BY <2>1, FirstPlace
  <2>3. CASE n = 0
    BY <1>5, <2>2, <2>3 DEF SumsTo
  <2>4. CASE n # 0
    <3>1. n - 1 \in 0 .. Len(q) /\ ~(n <= n - 1) /\ n \in 1 .. Len(q)
      BY <1>1, <2>2, <2>4
    <3>2. g[n - 1] = f[n - 1]
      BY <2>2, <3>1
    <3>3. g[n] = g[n - 1] + q[n].ctx
      BY <1>5, <2>4, <3>1
    <3>4. f[n] = f[n - 1] + q[n].ctx
      BY <3>1 DEF SumsTo
    <3>5. QED
      BY <2>2, <3>2, <3>3, <3>4
  <2>5. QED
    BY <2>3, <2>4
<1>7. QED
  BY <1>1, <1>4, <1>6

LEMMA SumIsInt ==
  ASSUME NEW q \in Seq(Thread)
  PROVE  SumCtx(q) \in Int
<1>1. PICK l \in Nat : l = Len(q)
  OBVIOUS
<1>2. PICK f : SumsTo(f, q, l)
  BY <1>1, SumsExist
<1>3. QED
  BY <1>1, <1>2, SumIsLast DEF SumsTo

LEMMA SumOfNone == SumCtx(<<>>) = 0
<1> DEFINE q == <<>>
<1>1. q \in Seq(Thread) /\ Len(q) = 0
  BY EmptySeq
<1>2. SumsTo([n \in 0 .. 0 |-> 0], q, 0)
  BY DEF SumsTo
<1>3. QED
  BY <1>1, <1>2, SumIsLast

\* Two queues with the same contexts, place by place, have the same sum.
LEMMA SumOfSame ==
  ASSUME NEW q \in Seq(Thread), NEW r \in Seq(Thread), Len(r) = Len(q),
         \A n \in 1 .. Len(q) : r[n].ctx = q[n].ctx
  PROVE  SumCtx(r) = SumCtx(q)
<1>1. Len(q) \in Nat
  OBVIOUS
<1>2. PICK f : SumsTo(f, q, Len(q))
  BY <1>1, SumsExist
<1>3. SumsTo(f, r, Len(r))
  BY <1>2 DEF SumsTo
<1>4. QED
  BY <1>2, <1>3, SumIsLast

LEMMA SumOfAppend ==
  ASSUME NEW q \in Seq(Thread), NEW t \in Thread
  PROVE  SumCtx(Append(q, t)) = SumCtx(q) + t.ctx
<1>1. PICK l \in Nat : l = Len(q)
  OBVIOUS
<1>2. PICK f : SumsTo(f, q, l)
  BY <1>1, SumsExist
<1>3. SumCtx(q) = f[l] /\ f[l] \in Int /\ t.ctx \in Int
  <2>1. t.ctx \in Int
    BY DEF Thread
  <2>2. SumCtx(q) = f[l]
    BY <1>1, <1>2, SumIsLast
  <2>3. f[l] \in Int
    BY <1>2 DEF SumsTo
  <2>4. QED
    BY <2>1, <2>2, <2>3
<1> DEFINE r == Append(q, t)
           g == [n \in 0 .. l + 1 |-> IF n = l + 1 THEN f[l] + t.ctx ELSE f[n]]
<1>4. /\ r \in Seq(Thread) /\ Len(r) = l + 1 /\ r[l + 1] = t
      /\ \A n \in 1 .. l : r[n] = q[n]
  BY <1>1, AppendProperties
<1>5. \A n \in 0 .. l + 1 : n # l + 1 => n \in 0 .. l /\ f[n] \in Int
  BY <1>2 DEF SumsTo
<1>6. g \in [0 .. l + 1 -> Int]
  BY <1>3, <1>5
<1>7. g[l + 1] = f[l] + t.ctx /\ \A n \in 0 .. l : g[n] = f[n]
  OBVIOUS
<1> HIDE DEF g, r
<1>8. g[0] = 0
  BY <1>2, <1>7 DEF SumsTo
<1>9. ASSUME NEW n \in 1 .. l + 1 PROVE g[n] = g[n - 1] + r[n].ctx
  <2>1. g[n - 1] = f[n - 1]
    BY <1>7
  <2>2. CASE n = l + 1
    BY <1>4, <1>7, <2>1, <2>2
  <2>3. CASE n # l + 1
    <3>1. n \in 1 .. l
      BY <2>3
    <3>2. f[n] = f[n - 1] + q[n].ctx
      BY <1>2, <3>1 DEF SumsTo
    <3>3. r[n] = q[n] /\ g[n] = f[n]
      BY <1>4, <1>7, <3>1
    <3>4. QED
      BY <2>1, <3>2, <3>3
  <2>4. QED
    BY <2>2, <2>3
<1>10. SumsTo(g, r, Len(r))
  BY <1>4, <1>6, <1>8, <1>9 DEF SumsTo
<1>11. SumCtx(r) = g[l + 1]
  BY <1>4, <1>10, SumIsLast
<1>12. QED
  BY <1>3, <1>7, <1>11 DEF r

LEMMA SumOfTaken ==
  ASSUME NEW q \in Seq(Thread), NEW p \in DOMAIN q
  PROVE  SumCtx(q) = SumCtx(RemoveAt(q, p)) + q[p].ctx
<1>1. PICK l \in Nat : l = Len(q)
  OBVIOUS
<1>2. PICK f : SumsTo(f, q, l)
  BY <1>1, SumsExist
<1>a. p \in 1 .. l /\ q[p].ctx \in Int
  BY <1>1, CtxIsInt
<1>3. SumCtx(q) = f[l] /\ f[l] \in Int
  BY <1>1, <1>2, SumIsLast DEF SumsTo
<1>4. PICK r : r = RemoveAt(q, p)
  OBVIOUS
<1>5. PICK c \in Int : c = q[p].ctx
  BY <1>a
<1>6. /\ r \in Seq(Thread) /\ Len(r) = l - 1
      /\ \A n \in 1 .. l - 1 : r[n] = IF n < p THEN q[n] ELSE q[n + 1]
  BY <1>1, <1>4, RemoveAtElements
<1> DEFINE g == [n \in 0 .. l - 1 |-> IF n < p THEN f[n] ELSE f[n + 1] - c]
<1>7. \A n \in 0 .. l : f[n] \in Int
  BY <1>2 DEF SumsTo
<1>8. \A n \in 0 .. l - 1 : n \in 0 .. l /\ n + 1 \in 0 .. l
  BY <1>a
<1>9. g \in [0 .. l - 1 -> Int]
  BY <1>7, <1>8
<1>10. \A n \in 0 .. l - 1 : g[n] = IF n < p THEN f[n] ELSE f[n + 1] - c
  OBVIOUS
<1> HIDE DEF g
<1>11. f[p] = f[p - 1] + c
  BY <1>2, <1>a, <1>5 DEF SumsTo
<1>b. f[p - 1] \in Int /\ f[p] \in Int
  BY <1>7, <1>a
<1>12. g[0] = 0
  BY <1>2, <1>10, <1>a DEF SumsTo
<1>13. ASSUME NEW n \in 1 .. l - 1 PROVE g[n] = g[n - 1] + r[n].ctx
  <2>1. n - 1 \in 0 .. l - 1 /\ n \in 0 .. l - 1 /\ n \in 1 .. l /\ n + 1 \in 1 .. l
    BY <1>a
  <2>2. /\ f[n] = f[n - 1] + q[n].ctx /\ f[n + 1] = f[n] + q[n + 1].ctx
        /\ f[n] \in Int /\ f[n + 1] \in Int /\ q[n + 1].ctx \in Int
    <3>1. f[n + 1] = f[(n + 1) - 1] + q[n + 1].ctx /\ (n + 1) - 1 = n
      BY <1>2, <2>1 DEF SumsTo
    <3>2. f[n] = f[n - 1] + q[n].ctx
      BY <1>2, <2>1 DEF SumsTo
    <3>3. f[n] \in Int /\ f[n + 1] \in Int
      BY <1>7, <2>1
    <3>4. q[n + 1] \in Thread
      BY <1>1, <2>1
    <3>5. QED
      BY <3>1, <3>2, <3>3, <3>4 DEF Thread
  <2>3. CASE n < p
    BY <1>6, <1>10, <2>1, <2>2, <2>3, <1>a
  <2>4. CASE n = p
    <3>1. g[n - 1] = f[n - 1] /\ g[n] = f[n + 1] - c /\ r[n] = q[n + 1]
      <4>1. n - 1 \in 0 .. l - 1 /\ n \in 0 .. l - 1 /\ n - 1 < p /\ ~(n < p)
        BY <2>1, <2>4, <1>a
      <4>2. g[n - 1] = f[n - 1]
        BY <1>10, <4>1
      <4>3. g[n] = f[n + 1] - c
        BY <1>10, <4>1
      <4>4. r[n] = q[n + 1]
        BY <1>6, <2>1, <4>1
      <4>5. QED
        BY <4>2, <4>3, <4>4
    <3>2. PICK u \in Int : u = f[n - 1] /\ f[n] = u + c
      BY <1>11, <1>b, <2>4
    <3>3. PICK x \in Int : x = q[n + 1].ctx /\ f[n + 1] = (u + c) + x
      BY <2>2, <3>2
    <3>4. (u + c) + x - c = u + x
      OBVIOUS
    <3>5. g[n] = u + x /\ g[n - 1] = u /\ r[n].ctx = x
      BY <3>1, <3>2, <3>3, <3>4
    <3>6. QED
      BY <3>5
  <2>5. CASE n > p
    <3>1. g[n - 1] = f[(n - 1) + 1] - c /\ (n - 1) + 1 = n
      BY <1>10, <2>1, <2>5, <1>a
    <3>2. g[n] = f[n + 1] - c /\ r[n] = q[n + 1]
      BY <1>6, <1>10, <2>1, <2>5, <1>a
    <3>3. QED
      BY <2>2, <3>1, <3>2
  <2>6. QED
    BY <2>3, <2>4, <2>5, <1>a
<1>14. SumsTo(g, r, Len(r))
  BY <1>6, <1>9, <1>12, <1>13 DEF SumsTo
<1>15. SumCtx(r) = g[l - 1]
  BY <1>6, <1>14, SumIsLast
<1>16. g[l - 1] = f[l] - c
  <2>1. l - 1 \in 0 .. l - 1 /\ (l - 1) + 1 = l
    BY <1>a
  <2>2. CASE p = l
    BY <1>10, <1>11, <1>a, <1>b, <2>1, <2>2
  <2>3. CASE p # l
    <3>1. ~(l - 1 < p)
      BY <1>a, <2>3
    <3>2. QED
      BY <1>10, <2>1, <3>1
  <2>4. QED
    BY <2>2, <2>3
<1>17. QED
  BY <1>3, <1>4, <1>5, <1>15, <1>16

-----------------------------------------------------------------------------
(* The clock.  Outside a slice no context is loaded and nothing is         *)
(* executed that the clock has not been told of.                           *)

ClockInv == ValuesOK /\ ClockIsWork /\ (pc # "slice" => cpu = 0 /\ got = 0)

LEMMA SpawnClock ==
  ASSUME ValuesOK, NEW prio \in Prio, NEW aspace \in Space, spawn(prio, aspace)
  PROVE  SumCtx(queue') = SumCtx(queue)
<1> DEFINE new == [id |-> next_id + 1, ctx |-> 0, prio |-> prio,
                   wake_at |-> 0, aspace |-> aspace]
<1>1. queue \in Seq(Thread) /\ queue' = Append(queue, new)
  BY DEF ValuesOK, spawn
<1>2. new \in Thread /\ new.ctx = 0
  BY DEF ValuesOK, spawn, Thread, Id
<1> HIDE DEF new
<1>3. SumCtx(queue') = SumCtx(queue) + 0
  BY <1>1, <1>2, SumOfAppend
<1>4. QED
  BY <1>1, <1>3, SumIsInt

LEMMA SleepClock ==
  ASSUME ValuesOK, NEW i \in DOMAIN queue, NEW ticks \in Ticks, sleep(i, ticks)
  PROVE  SumCtx(queue') = SumCtx(queue)
<1>1. queue \in Seq(Thread) /\ DOMAIN queue = 1 .. Len(queue)
  BY DEF ValuesOK
<1>2. QED
  BY <1>1, SleepElements, SumOfSame

LEMMA NextClock == ClockInv /\ [Next]_vars => ClockInv'
<1> SUFFICES ASSUME ClockInv, [Next]_vars
             PROVE  (ClockIsWork /\ (pc # "slice" => cpu = 0 /\ got = 0))'
  BY NextValues DEF ClockInv
<1>0. /\ queue \in Seq(Thread)
      /\ elapsed \in Nat /\ got \in Nat /\ cpu \in Nat /\ spent \in Nat
      /\ elapsed + got = SumCtx(queue) + cpu + spent
      /\ pc # "slice" => cpu = 0 /\ got = 0
  BY DEF ClockInv, ClockIsWork, ValuesOK
<1>v. ValuesOK
  BY DEF ClockInv
<1>s. SumCtx(queue) \in Int
  BY <1>0, SumIsInt
<1>g. ASSUME UNCHANGED <<queue, elapsed, spent, pc>>, pc = "slice",
             \/ got' = got /\ cpu' = cpu
             \/ Executed
      PROVE  (ClockIsWork /\ (pc # "slice" => cpu = 0 /\ got = 0))'
  BY <1>0, <1>g, <1>s DEF ClockIsWork, Executed
<1>h. ASSUME SumCtx(queue') = SumCtx(queue),
             UNCHANGED <<elapsed, spent, pc, got, cpu>>
      PROVE  (ClockIsWork /\ (pc # "slice" => cpu = 0 /\ got = 0))'
  BY <1>0, <1>h DEF ClockIsWork
<1>1. CASE HostSpawn
  <2>1. PICK prio \in Prio, aspace \in Space : spawn(prio, aspace)
    BY <1>1 DEF HostSpawn
  <2>2. SumCtx(queue') = SumCtx(queue)
    BY <1>v, <2>1, SpawnClock
  <2>3. QED
    BY <1>1, <1>h, <2>2 DEF HostSpawn, loopVars
<1>2. CASE HostSleep
  <2>1. PICK i \in DOMAIN queue, ticks \in Ticks : sleep(i, ticks)
    BY <1>2 DEF HostSleep
  <2>2. SumCtx(queue') = SumCtx(queue)
    BY <1>v, <2>1, SleepClock
  <2>3. QED
    BY <1>2, <1>h, <2>2 DEF HostSleep, loopVars
<1>3. CASE RunCall \/ RunReturn
  BY <1>0, <1>3 DEF RunCall, RunReturn, Return, ClockIsWork
<1>4. CASE IdleJump
  <2>1. PICK i \in DOMAIN queue : elapsed' = queue[i].wake_at
    BY <1>4 DEF IdleJump
  <2>2. queue[i] \in Thread
    BY <1>0
  <2>3. elapsed' \in Nat
    BY <2>1, <2>2 DEF Thread
  <2>4. spent' = spent + (elapsed' - elapsed)
    BY <1>4 DEF IdleJump
  <2>5. UNCHANGED <<queue, pc, cpu, got>>
    BY <1>4 DEF IdleJump, loopVars
  <2>6. elapsed' + got = SumCtx(queue) + cpu + spent'
    <3>1. PICK now \in Nat : now = elapsed'
      BY <2>3
    <3>2. PICK sum \in Int : sum = SumCtx(queue)
      BY <1>s
    <3>3. now + got = sum + cpu + (spent + (now - elapsed))
      <4>1. elapsed \in Nat /\ got \in Nat /\ cpu \in Nat /\ spent \in Nat
        BY <1>0
      <4>2. elapsed + got = sum + cpu + spent
        BY <1>0, <3>2
      <4>3. QED
        BY <3>1, <3>2, <4>1, <4>2
    <3>4. QED
      BY <2>4, <3>1, <3>2, <3>3
  <2>7. QED
    BY <1>0, <2>5, <2>6 DEF ClockIsWork
<1>5. CASE PickSlice
  <2>1. PICK p \in DOMAIN queue : queue' = RemoveAt(queue, p) /\ cpu' = queue[p].ctx
    BY <1>5 DEF PickSlice, Taken
  <2>2. SumCtx(queue) = SumCtx(queue') + cpu'
    BY <1>0, <2>1, SumOfTaken
  <2>3. SumCtx(queue') \in Int /\ cpu' \in Int
    <3>1. queue' \in Seq(Thread) /\ queue[p] \in Thread
      BY <1>0, <2>1, RemoveAtElements
    <3>2. queue[p].ctx \in Int
      BY <3>1 DEF Thread
    <3>3. QED
      BY <2>1, <3>1, <3>2, SumIsInt
  <2>4. /\ pc = "head" /\ pc' = "slice" /\ got' = 0
        /\ UNCHANGED <<elapsed, spent>>
    BY <1>5 DEF PickSlice, AtHead
  <2>5. elapsed' + got' = SumCtx(queue') + cpu' + spent'
    BY <1>0, <2>2, <2>3, <2>4
  <2>6. QED
    BY <2>4, <2>5 DEF ClockIsWork
<1>6. CASE EndSlice
  <2>1. /\ elapsed' = elapsed + got /\ cpu' = 0 /\ got' = 0 /\ pc' # "slice"
        /\ pc = "slice" /\ running \in Thread
    BY <1>6, <1>v DEF EndSlice, ScopeLeft, Return, ValuesOK
  <2>2. \/ queue' = queue /\ spent' = spent + cpu
        \/ queue' = Append(queue, Saved) /\ spent' = spent
    BY <1>6, Zenon DEF EndSlice
  <2>3. Saved \in Thread /\ Saved.ctx = cpu
    BY <1>0, <2>1 DEF Saved, Thread
  <2>4. SumCtx(Append(queue, Saved)) = SumCtx(queue) + cpu
    <3>1. SumCtx(Append(queue, Saved)) = SumCtx(queue) + Saved.ctx
      BY <1>0, <2>3, SumOfAppend
    <3>2. QED
      BY <2>3, <3>1
  <2>5. SumCtx(queue') + spent' = SumCtx(queue) + cpu + spent
    <3>1. CASE queue' = queue /\ spent' = spent + cpu
      BY <1>0, <1>s, <3>1
    <3>2. CASE queue' = Append(queue, Saved) /\ spent' = spent
      BY <1>0, <1>s, <2>4, <3>2
    <3>3. QED
      BY <2>2, <3>1, <3>2
  <2>6. SumCtx(queue') \in Int /\ spent' \in Int
    <3>1. queue' \in Seq(Thread) /\ spent' \in Nat
      BY <1>v, NextValues DEF ValuesOK
    <3>2. QED
      BY <3>1, SumIsInt
  <2>7. elapsed' + got' = SumCtx(queue') + cpu' + spent'
    BY <1>0, <1>s, <2>1, <2>5, <2>6
  <2>8. QED
    BY <2>1, <2>7 DEF ClockIsWork
<1>7. CASE Insn \/ Fault \/ SvcStop \/ SvcExitProcess \/ SvcOther
  BY <1>7, <1>g DEF Insn, Fault, SvcStop, SvcExitProcess, SvcOther, SvcReturn,
                    Executing, sliceVars
<1>8. CASE SvcCreateThread
  <2>1. SumCtx(queue') = SumCtx(queue)
    BY <1>8, <1>v, SpawnClock DEF SvcCreateThread
  <2>2. Executed /\ pc = "slice" /\ UNCHANGED <<elapsed, spent, pc>>
    BY <1>8 DEF SvcCreateThread, SvcReturn, Executing, sliceVars
  <2>3. QED
    BY <1>0, <1>s, <2>1, <2>2 DEF ClockIsWork, Executed
<1>9. CASE UNCHANGED vars
  BY <1>0, <1>9 DEF vars, loopVars, ClockIsWork
<1>10. QED
  BY <1>1, <1>2, <1>3, <1>4, <1>5, <1>6, <1>7, <1>8, <1>9
     DEF Next, Host, Loop, Guest

(* However slices end, in whatever order threads are picked, and whatever  *)
(* is spawned or put to sleep meanwhile, the clock stands at the           *)
(* instructions all threads executed plus the ticks it jumped: load and    *)
(* save lose no context and charge none twice.                             *)
THEOREM ClockKeepsCount == Spec => []ClockIsWork
<1>1. Init => ClockInv
  <2>1. Init => ClockIsWork
    BY SumOfNone DEF Init, ClockIsWork
  <2>2. QED
    BY InitType, <2>1 DEF Init, ClockInv, TypeOK
<1>2. ClockInv /\ [Next]_vars => ClockInv'
  BY NextClock
<1>3. ClockInv => ClockIsWork
  BY DEF ClockInv
<1>4. QED
  BY <1>1, <1>2, <1>3, PTL DEF Spec

=============================================================================
