------------------------------ MODULE KernelSync ------------------------------
(***************************************************************************)
(* Handles, mutexes and events as the guest reaches them: the handle table *)
(* of hos/Kernel.h, hos/Mutex.h, hos/Event.h and SVCs 0x13 and 0x16-0x1E.  *)
(*                                                                         *)
(* An SVC runs to completion on the host's only thread, so it is one       *)
(* action; which guest thread makes the next one is the scheduler's choice *)
(* (module Scheduler) and is left open here.  A handle's tag is a kind in  *)
(* its high bits and the object's id in its low bits; the SVCs read only   *)
(* the low bits.                                                           *)
(*                                                                         *)
(* The guest modelled passes a mutex handle to mutex SVCs and an event     *)
(* handle to event SVCs, live or stale, and names no other thread as the   *)
(* owner.  Otherwise it may do anything: lock twice, unlock what it does   *)
(* not hold, close what another thread uses.                               *)
(***************************************************************************)
EXTENDS Naturals

CONSTANTS
  Thread,      \* what currentThreadId() answers: 0 outside Scheduler::run
  MaxHandles,  \* bound: handles ever created
  TagSize,     \* the low bits of a tag tell this many ids apart (0x1000)
  Absent       \* an id or a handle that is not in its table

VARIABLES
  handles,      \* handles_: what each live handle is tagged with
  next_handle,  \* next_handle_
  owners,       \* MutexTable::owners_
  next_mutex,   \* MutexTable::next_id_
  flags,        \* EventTable::flags_
  next_event    \* EventTable::next_id_

(* History variables.                                                      *)
VARIABLES
  inside,    \* <<t, h>>: t locked h and has not unlocked it since
  released,  \* [e]: waits EventTable answered true since the last signal
  told       \* [e]: waits the guest was told RESULT_OK since then

tables == <<handles, next_handle, owners, next_mutex, flags, next_event>>
vars == <<tables, inside, released, told>>

Handle == 1 .. MaxHandles
ObjectId == 0 .. MaxHandles
Kind == {"mutex", "event"}
Tag == [kind : Kind, low : ObjectId]
Event == [signaled : BOOLEAN, manual_reset : BOOLEAN]

ASSUME SyncAssumption ==
  /\ Thread \subseteq Nat
  /\ MaxHandles \in Nat /\ TagSize \in Nat \ {0}
  /\ Absent \notin Nat /\ Absent \notin Event

Init ==
  /\ handles = [h \in Handle |-> Absent] /\ next_handle = 1
  /\ owners = [m \in ObjectId |-> Absent] /\ next_mutex = 1
  /\ flags = [e \in ObjectId |-> Absent] /\ next_event = 1
  /\ inside = {}
  /\ released = [e \in ObjectId |-> 1]
  /\ told = [e \in ObjectId |-> 1]

-----------------------------------------------------------------------------
(* The handle table.                                                       *)

Live(h) == handles[h] # Absent

\* Mutant: the number of a closed handle is given out again.
ReuseNumber(kind, id) ==
  \E h \in Handle :
    /\ ~Live(h) /\ \A g \in Handle : g < h => Live(g)
    /\ handles' = [handles EXCEPT ![h] = [kind |-> kind, low |-> id % TagSize]]
    /\ next_handle' = next_handle + 1

\* Mutant: the next handle gets the same number.
SameNumber(kind, id) ==
  /\ handles' = [handles EXCEPT ![next_handle] =
                   [kind |-> kind, low |-> id % TagSize]]
  /\ UNCHANGED next_handle

createHandle(kind, id) ==
  /\ handles' = [handles EXCEPT ![next_handle] =
                   [kind |-> kind, low |-> id % TagSize]]
  /\ next_handle' = next_handle + 1

closeHandle(h) ==
  /\ handles' = [handles EXCEPT ![h] = Absent]
  /\ UNCHANGED next_handle

\* What the modelled guest passes to an SVC on objects of this kind.
Given(kind) ==
  {h \in Handle : h < next_handle /\ (Live(h) => handles[h].kind = kind)}

MoreHandles == next_handle <= MaxHandles

\* A handle that is not in the table: RESULT_INVALID_HANDLE, nothing changes.
Invalid(h) == ~Live(h) /\ UNCHANGED vars

-----------------------------------------------------------------------------
(* Mutexes.                                                                *)

mutexVars == <<owners, next_mutex>>
eventVars == <<flags, next_event, released, told>>

svcCreateMutex ==
  /\ MoreHandles
  /\ owners' = [owners EXCEPT ![next_mutex] = 0]
  /\ next_mutex' = next_mutex + 1
  /\ createHandle("mutex", next_mutex)
  /\ UNCHANGED <<inside, eventVars>>

\* Mutant: the mutex is taken over from its owner.
Takes(m, t) == owners[m] # Absent

\* MutexTable::lock succeeds on a mutex that is free or already the thread's.
Locks(m, t) == owners[m] \in {0, t}

svcLockMutex(t, h) ==
  \/ Invalid(h)
  \/ /\ Live(h)
     /\ LET m == handles[h].low
        IN \/ /\ Locks(m, t)
              /\ owners' = [owners EXCEPT ![m] = t]
              /\ inside' = inside \cup {<<t, h>>}
           \/ ~Locks(m, t) /\ UNCHANGED <<owners, inside>>
     /\ UNCHANGED <<handles, next_handle, next_mutex, eventVars>>

svcUnlockMutex(t, h) ==
  \/ Invalid(h)
  \/ /\ Live(h)
     /\ LET m == handles[h].low
        IN \/ /\ owners[m] = t
              /\ owners' = [owners EXCEPT ![m] = 0]
              /\ inside' = inside \ {<<t, h>>}
           \/ owners[m] # t /\ UNCHANGED <<owners, inside>>
     /\ UNCHANGED <<handles, next_handle, next_mutex, eventVars>>

\* Mutant: the handle of the closed mutex stays in the table.
CloseKeepsHandle(h) ==
  \/ Invalid(h)
  \/ /\ Live(h)
     /\ owners' = [owners EXCEPT ![handles[h].low] = Absent]
     /\ UNCHANGED <<handles, next_handle, next_mutex, inside, eventVars>>

\* Anyone may close a mutex, whoever owns it.
svcCloseMutex(h) ==
  \/ Invalid(h)
  \/ /\ Live(h)
     /\ LET m == handles[h].low
        IN \/ /\ owners[m] # Absent
              /\ owners' = [owners EXCEPT ![m] = Absent]
              /\ closeHandle(h)
           \/ owners[m] = Absent /\ UNCHANGED <<owners, handles, next_handle>>
     /\ UNCHANGED <<next_mutex, inside, eventVars>>

-----------------------------------------------------------------------------
(* Events.                                                                 *)

\* create(manual_reset): never initially set.
svcCreateEvent ==
  /\ MoreHandles
  /\ \E manual \in BOOLEAN :
       flags' = [flags EXCEPT ![next_event] =
                   [signaled |-> FALSE, manual_reset |-> manual]]
  /\ next_event' = next_event + 1
  /\ createHandle("event", next_event)
  /\ UNCHANGED <<mutexVars, inside, released, told>>

\* The handle or its event is gone: nothing changes.
NoEvent(h) ==
  \/ Invalid(h)
  \/ Live(h) /\ flags[handles[h].low] = Absent /\ UNCHANGED vars

OnEvent(h) ==
  /\ Live(h) /\ flags[handles[h].low] # Absent
  /\ UNCHANGED <<handles, next_handle, mutexVars, next_event, inside>>

signal(e) ==
  /\ flags' = [flags EXCEPT ![e].signaled = TRUE]
  /\ released' = [released EXCEPT ![e] = 0]
  /\ told' = [told EXCEPT ![e] = 0]

clear(e) ==
  /\ flags' = [flags EXCEPT ![e].signaled = FALSE]
  /\ UNCHANGED <<released, told>>

\* Mutant: the manual-reset events are the ones consumed.
ConsumesManual(e) == flags[e].manual_reset

Consumes(e) == ~flags[e].manual_reset

OneMore(count, e) == [count EXCEPT ![e] = IF @ < 2 THEN @ + 1 ELSE @]

\* A wait is a query and never blocks; the SVC drops its answer and always
\* returns RESULT_OK.
wait(e) ==
  /\ \/ /\ flags[e].signaled
        /\ flags' = IF Consumes(e) THEN [flags EXCEPT ![e].signaled = FALSE] ELSE flags
        /\ released' = OneMore(released, e)
     \/ ~flags[e].signaled /\ UNCHANGED <<flags, released>>
  /\ told' = OneMore(told, e)

svcSignalEvent(h) == NoEvent(h) \/ (OnEvent(h) /\ signal(handles[h].low))
svcClearEvent(h) == NoEvent(h) \/ (OnEvent(h) /\ clear(handles[h].low))
svcWaitEvent(h) == NoEvent(h) \/ (OnEvent(h) /\ wait(handles[h].low))

svcCloseEvent(h) ==
  \/ Invalid(h)
  \/ /\ Live(h)
     /\ flags' = [flags EXCEPT ![handles[h].low] = Absent]
     /\ closeHandle(h)
     /\ UNCHANGED <<mutexVars, next_event, inside, released, told>>

-----------------------------------------------------------------------------
\* SVC 0x13 closes the handle and leaves its object in its table.
svcCloseHandle(h) ==
  \/ Invalid(h)
  \/ Live(h) /\ closeHandle(h) /\ UNCHANGED <<mutexVars, inside, eventVars>>

MutexSvc ==
  \/ svcCreateMutex
  \/ \E h \in Given("mutex") :
       \/ \E t \in Thread : svcLockMutex(t, h) \/ svcUnlockMutex(t, h)
       \/ svcCloseMutex(h)

EventSvc ==
  \/ svcCreateEvent
  \/ \E h \in Given("event") :
       svcSignalEvent(h) \/ svcClearEvent(h) \/ svcWaitEvent(h) \/ svcCloseEvent(h)

HandleSvc == \E h \in Handle : h < next_handle /\ svcCloseHandle(h)

Next == MutexSvc \/ EventSvc \/ HandleSvc

Spec == Init /\ [][Next]_vars

-----------------------------------------------------------------------------
(* Properties.                                                             *)

(* The tables hold what their C++ types allow.                             *)
TypeOK ==
  /\ handles \in [Handle -> Tag \cup {Absent}]
  /\ next_handle \in 1 .. MaxHandles + 1
  /\ owners \in [ObjectId -> Thread \cup {0, Absent}]
  /\ next_mutex \in 1 .. next_handle
  /\ flags \in [ObjectId -> Event \cup {Absent}]
  /\ next_event \in 1 .. next_handle
  /\ inside \subseteq Thread \X Handle
  /\ released \in [ObjectId -> 0 .. 2] /\ told \in [ObjectId -> 0 .. 2]

(* Two threads are never inside the same mutex, whatever is re-locked,     *)
(* closed or unlocked out of turn (Mutex.h: the owner locks, the other     *)
(* waits, the owner unlocks).                                              *)
MutualExclusion ==
  \A a, b \in inside : a[2] = b[2] => a[1] = b[1]

(* A live handle names an object that exists, and no other handle of its   *)
(* kind names it: closing through one handle cannot pull an object from    *)
(* under another.                                                          *)
HandlesNameObjects ==
  \A h \in Handle : Live(h) =>
    /\ handles[h].kind = "mutex" => owners[handles[h].low] # Absent
    /\ handles[h].kind = "event" => flags[handles[h].low] # Absent
    /\ \A g \in Handle : Live(g) /\ handles[g] = handles[h] => g = h

(* A handle that was closed stays invalid: a stale handle can never reach  *)
(* an object created later.                                                *)
NoHandleReuse ==
  [][\A h \in Handle :
       h < next_handle /\ ~Live(h) => handles'[h] = Absent]_vars

(* Between two signals an auto-reset event releases one wait at most, from *)
(* whichever threads the waits come (Event.h: consumed if auto_reset).     *)
OneReleasePerSignal ==
  \A e \in ObjectId :
    flags[e] # Absent /\ ~flags[e].manual_reset => released[e] <= 1

(* The same of the answers the guest gets (Kernel.h: a timeout of 0 waits  *)
(* for ever, so an OK means the event was signalled).                      *)
OneOkPerSignal ==
  \A e \in ObjectId :
    flags[e] # Absent /\ ~flags[e].manual_reset => told[e] <= 1

=============================================================================
