------------------------------ MODULE SaveState ------------------------------
(***************************************************************************)
(* Emulator::snapshot and Emulator::restore over the kernel's tables:      *)
(* threads (hos/Thread.h), handles and mutexes (module KernelSync) and     *)
(* sessions (hos/ServiceManager.h).  The host takes and restores snapshots *)
(* between calls of runThreads, so currentThreadId() is 0 when it does,    *)
(* and each is one action.                                                 *)
(*                                                                         *)
(* A snapshot copies the handle table and the queue of threads; it copies  *)
(* neither the mutex table nor the counters of threads and sessions, and   *)
(* of the services only what allSessions() gives under each port the guest *)
(* made.  The guest's registers and RAM are restored, so what a thread     *)
(* believes (inside, of KernelSync) is restored too.                       *)
(*                                                                         *)
(* Left out: the order of the queue and who sleeps (module Scheduler; a    *)
(* restored thread is awake), events (kept out of snapshots like mutexes), *)
(* processes, applets, world and frame counters, which are copied and put  *)
(* back whole.                                                             *)
(***************************************************************************)
EXTENDS Naturals, FiniteSets, FiniteSetsExt

CONSTANTS
  MaxThread,    \* bound: ids of threads
  MaxHandles,   \* bound: handle numbers (KernelSync) and mutexes ever made
  TagSize,      \* (KernelSync)
  Absent,       \* (KernelSync)
  Booted,       \* ports published by bootServices
  GuestPorts,   \* ports the guest makes with svcCreatePort
  MaxSessions,  \* max_sessions of a port
  MaxObject     \* bound: Session objects ever made

VARIABLES
  handles, next_handle, owners, next_mutex, inside,   \* KernelSync's
  queue,         \* Scheduler::queue_: how many queued threads bear each id
  next_id,       \* Scheduler::next_id_
  current,       \* PortRegistry::ports_: a port's current_sessions, or Absent
  made,          \* the names in port_max_sessions_
  sessions,      \* ServiceManager::sessions_
  next_session,  \* ServiceManager::next_session_
  objects,       \* numbers the Session objects
  saved          \* the Snapshot the host keeps

Thread == 1 .. MaxThread
Name == Booted \cup GuestPorts
SessionId == 1 .. MaxObject
NoSession == [i \in SessionId |-> Absent]
Session == [object : 1 .. MaxObject, service : Name]

\* No event is ever made here.
K == INSTANCE KernelSync
       WITH flags <- <<>>, next_event <- 1, released <- <<>>, told <- <<>>

ASSUME SaveAssumption ==
  /\ MaxThread \in Nat /\ MaxObject \in Nat /\ MaxSessions \in Nat
  /\ MaxHandles \in Nat /\ TagSize \in Nat \ {0}
  /\ Absent \notin Session

mutexVars == <<handles, next_handle, owners, next_mutex, inside>>
threadVars == <<queue, next_id>>
sessionVars == <<current, made, sessions, next_session, objects>>
vars == <<mutexVars, threadVars, sessionVars, saved>>

NoSnapshot == Absent

Init ==
  /\ handles = [h \in 1 .. MaxHandles |-> Absent] /\ next_handle = 1
  /\ owners = [m \in 0 .. MaxHandles |-> Absent] /\ next_mutex = 1
  /\ inside = {}
  /\ queue = [t \in Thread |-> 0] /\ next_id = 0
  /\ current = [n \in Name |-> IF n \in Booted THEN 0 ELSE Absent] /\ made = {}
  /\ sessions = NoSession /\ next_session = 1
  /\ objects = 0
  /\ saved = NoSnapshot

-----------------------------------------------------------------------------
(* The program between snapshots.                                          *)

spawn ==
  /\ next_id < MaxThread
  /\ next_id' = next_id + 1
  /\ queue' = [queue EXCEPT ![next_id + 1] = @ + 1]
  /\ UNCHANGED <<mutexVars, sessionVars, saved>>

\* A thread stops and is not queued again.
finish(t) ==
  /\ queue[t] > 0
  /\ queue' = [queue EXCEPT ![t] = @ - 1]
  /\ UNCHANGED <<next_id, mutexVars, sessionVars, saved>>

\* A thread that runs makes an SVC on a mutex.
mutexSvc ==
  /\ \E t \in Thread :
       /\ queue[t] > 0
       /\ \/ next_mutex <= MaxHandles /\ K!svcCreateMutex
          \/ \E h \in K!Given("mutex") :
               K!svcLockMutex(t, h) \/ K!svcUnlockMutex(t, h) \/ K!svcCloseMutex(h)
               \/ K!svcCloseHandle(h)
  /\ UNCHANGED <<threadVars, sessionVars, saved>>

svcCreatePort(n) ==
  /\ current' = [current EXCEPT ![n] = IF @ = Absent THEN 0 ELSE @]
  /\ made' = made \cup {n}
  /\ UNCHANGED <<sessions, next_session, objects>>
  /\ UNCHANGED <<mutexVars, threadVars, saved>>

HasRoom(n) == current[n] # Absent /\ current[n] < MaxSessions

connectService(n) ==
  /\ objects < MaxObject
  /\ HasRoom(n)
  /\ current' = [current EXCEPT ![n] = @ + 1]
  /\ objects' = objects + 1
  /\ sessions' = [sessions EXCEPT ![next_session] =
                    [object |-> objects + 1, service |-> n]]
  /\ next_session' = next_session + 1
  /\ UNCHANGED <<made, mutexVars, threadVars, saved>>

-----------------------------------------------------------------------------
(* Snapshot and restore.                                                   *)

\* The threads of the queue; the counter of ids is not among what is saved.
getThreadsForSnapshot == queue

\* Each port the guest made, and under each of them every session.
getServicesForSnapshot == IF made = {} THEN NoSession ELSE sessions

snapshot ==
  /\ saved' = [handles |-> handles, next_handle |-> next_handle,
               queue |-> getThreadsForSnapshot, inside |-> inside,
               made |-> made, sessions |-> getServicesForSnapshot]
  /\ UNCHANGED <<mutexVars, threadVars, sessionVars>>

\* Mutant: next_id_ is set to the next free id, as next_session_ is.
FirstFreeThread(q) == Max({0} \cup {t \in Thread : q[t] > 0}) + 1

\* Mutant: next_id_ starts over.
NoThreadSeen(q) == 0

HighestThread(q) == Max({0} \cup {t \in Thread : q[t] > 0})

restoreThreads ==
  /\ queue' = saved.queue
  /\ next_id' = HighestThread(saved.queue)

\* Mutant: the mutex table starts over.
ClearedMutexes == owners' = [m \in DOMAIN owners |-> Absent] /\ next_mutex' = 1

\* The mutex table is in no snapshot.
keptMutexes == UNCHANGED <<owners, next_mutex>>

restoreHandles ==
  /\ handles' = saved.handles /\ next_handle' = saved.next_handle
  /\ inside' = saved.inside
  /\ keptMutexes

Used(table) == {i \in SessionId : table[i] # Absent}

\* Mutant: the highest id is handed out again.
HighestSession(table) == Max({1} \cup Used(table))

FirstFree(table) == Max({0} \cup Used(table)) + 1

\* Every session comes back under the name of the last port; with no port of
\* the guest's own there is none.  The ports and their counts stay.
restoreServices ==
  /\ made' = saved.made
  /\ \/ saved.made = {} /\ sessions' = NoSession
     \/ \E last \in saved.made :
          sessions' = [i \in SessionId |->
            IF saved.sessions[i] = Absent THEN Absent
            ELSE [saved.sessions[i] EXCEPT !.service = last]]
  /\ next_session' = FirstFree(sessions')
  /\ UNCHANGED <<current, objects>>

restore ==
  /\ saved # NoSnapshot
  /\ restoreHandles /\ restoreThreads /\ restoreServices
  /\ UNCHANGED saved

Next ==
  \/ spawn
  \/ \E t \in Thread : finish(t)
  \/ mutexSvc
  \/ \E n \in GuestPorts : svcCreatePort(n)
  \/ \E n \in Name : connectService(n)
  \/ snapshot
  \/ restore

Spec == Init /\ [][Next]_vars

-----------------------------------------------------------------------------
(* Properties.                                                             *)

(* Types, and no port ever counts more sessions than its limit.            *)
TypeOK ==
  /\ handles \in [1 .. MaxHandles -> K!Tag \cup {Absent}]
  /\ owners \in [0 .. MaxHandles -> Thread \cup {0, Absent}]
  /\ next_handle \in 1 .. MaxHandles + 1 /\ next_mutex \in 1 .. MaxHandles + 1
  /\ inside \subseteq Thread \X (1 .. MaxHandles)
  /\ queue \in [Thread -> Nat] /\ next_id \in 0 .. MaxThread
  /\ current \in [Name -> (0 .. MaxSessions) \cup {Absent}] /\ made \subseteq GuestPorts
  /\ sessions \in [SessionId -> Session \cup {Absent}]
  /\ next_session \in 1 .. MaxObject + 1 /\ objects \in 0 .. MaxObject

(* No two queued threads bear the same id, although a restore rolls back   *)
(* the queue, and the ids of threads that are gone are given out again     *)
(* (Thread.h: next_id_ from the restored queue; sleep() and the mutexes    *)
(* know a thread by its id).                                               *)
ThreadIdsDistinct == \A t \in Thread : queue[t] <= 1

(* Two live handles never name the same mutex, although a restore rolls    *)
(* back the handles and not the mutexes.                                   *)
NoSharedMutex ==
  \A g, h \in 1 .. MaxHandles :
    K!Live(g) /\ K!Live(h) /\ handles[g] = handles[h] => g = h

(* A session that is opened never takes the place of a live one, although  *)
(* a restore recomputes next_session_ (ServiceManager.h).                  *)
NoSessionReplaced ==
  [][objects' # objects =>
       \A i \in SessionId : sessions[i] # Absent => sessions'[i] = sessions[i]]_vars

(* Threads still exclude each other from a mutex after a restore, if the   *)
(* save state freezes the kernel (Emulator.h:180).  It does not: the mutex *)
(* table is not in it, TLC finds two threads inside, and no configuration  *)
(* lists this.                                                             *)
MutualExclusion == K!MutualExclusion

=============================================================================
