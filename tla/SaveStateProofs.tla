--------------------------- MODULE SaveStateProofs ---------------------------
(***************************************************************************)
(* What survives a restore, for every number of threads, handles, mutexes  *)
(* and sessions.                                                           *)
(***************************************************************************)
EXTENDS SaveState, WellFoundedInduction, TLAPS

USE SaveAssumption DEF SaveAssumption

-----------------------------------------------------------------------------
(* A set of naturals with a bound has a greatest element, so Max is one.   *)

LEMMA GreatestExists ==
  ASSUME NEW N \in Nat, NEW S, S \subseteq 0 .. N, S # {}
  PROVE  \E x \in S : \A y \in S : x >= y
<1> DEFINE T == {n \in 0 .. N : N - n \in S}
<1>1. T \subseteq Nat
  OBVIOUS
<1>2. T # {}
  <2>1. PICK x \in S : TRUE
    OBVIOUS
  <2>2. N - x \in 0 .. N /\ N - (N - x) = x
    BY <2>1
  <2>3. QED
    BY <2>1, <2>2
<1>3. \E n \in T : \A m \in T : ~ (<<m, n>> \in OpToRel(<, Nat))
  BY <1>1, <1>2, NatLessThanWellFounded, WFMin
<1>4. PICK n \in T : \A m \in T : ~ (<<m, n>> \in OpToRel(<, Nat))
  BY <1>3
<1>5. \A m \in T : ~ (m < n)
  BY <1>1, <1>4 DEF OpToRel
<1>6. ASSUME NEW y \in S PROVE N - n >= y
  <2>1. N - y \in 0 .. N /\ N - (N - y) = y
    BY <1>6
  <2>2. N - y \in T
    BY <2>1
  <2>3. ~ (N - y < n) /\ n \in 0 .. N /\ y \in 0 .. N
    BY <1>4, <1>5, <1>6, <2>2
  <2>4. QED
    BY <2>3
<1>7. QED
  BY <1>4, <1>6

LEMMA MaxIsGreatest ==
  ASSUME NEW N \in Nat, NEW S, S \subseteq 0 .. N, S # {}
  PROVE  Max(S) \in S /\ \A y \in S : Max(S) >= y
BY GreatestExists DEF Max

-----------------------------------------------------------------------------
(* Threads: next_id_ is at least every queued id, also after a restore.    *)

ThreadsInv ==
  /\ queue \in [Thread -> 0 .. 1] /\ next_id \in 0 .. MaxThread
  /\ \A t \in Thread : queue[t] > 0 => t <= next_id
  /\ saved # NoSnapshot => saved.queue \in [Thread -> 0 .. 1]

LEMMA HighestThreadBounds ==
  ASSUME NEW q \in [Thread -> 0 .. 1]
  PROVE  /\ HighestThread(q) \in 0 .. MaxThread
         /\ \A t \in Thread : q[t] > 0 => t <= HighestThread(q)
<1> DEFINE S == {0} \cup {t \in Thread : q[t] > 0}
<1>1. S \subseteq 0 .. MaxThread /\ S # {}
  BY DEF Thread
<1>2. Max(S) \in S /\ \A y \in S : Max(S) >= y
  BY <1>1, MaxIsGreatest
<1>3. HighestThread(q) = Max(S)
  BY DEF HighestThread
<1> HIDE DEF S
<1>4. HighestThread(q) \in 0 .. MaxThread
  BY <1>1, <1>2, <1>3
<1>5. ASSUME NEW t \in Thread, q[t] > 0 PROVE t <= HighestThread(q)
  <2>1. t \in S /\ Max(S) \in Nat /\ t \in Nat
    BY <1>1, <1>2, <1>5 DEF S, Thread
  <2>2. QED
    BY <1>2, <1>3, <2>1
<1>6. QED
  BY <1>4, <1>5

LEMMA InitThreads == Init => ThreadsInv
BY DEF Init, ThreadsInv, NoSnapshot, Thread

LEMMA NextThreads == ThreadsInv /\ [Next]_vars => ThreadsInv'
<1> SUFFICES ASSUME ThreadsInv, [Next]_vars PROVE ThreadsInv'
  OBVIOUS
<1>1. CASE spawn
  <2>1. /\ next_id + 1 \in Thread /\ next_id' = next_id + 1
        /\ queue' = [queue EXCEPT ![next_id + 1] = @ + 1] /\ saved' = saved
    BY <1>1 DEF spawn, ThreadsInv, Thread
  <2>2. queue[next_id + 1] = 0
    BY <2>1 DEF ThreadsInv
  <2>3. queue' \in [Thread -> 0 .. 1]
    BY <2>1, <2>2 DEF ThreadsInv
  <2>4. ASSUME NEW t \in Thread, queue'[t] > 0 PROVE t <= next_id'
    BY <2>1, <2>4 DEF ThreadsInv, Thread
  <2>5. next_id' \in 0 .. MaxThread
    BY <2>1 DEF Thread
  <2>6. QED
    BY <2>1, <2>3, <2>4, <2>5 DEF ThreadsInv, NoSnapshot
<1>2. ASSUME NEW t \in Thread, finish(t) PROVE ThreadsInv'
  <2>1. /\ queue' = [queue EXCEPT ![t] = queue[t] - 1] /\ queue[t] > 0
        /\ next_id' = next_id /\ saved' = saved
    BY <1>2 DEF finish
  <2>2. queue[t] - 1 \in 0 .. 1
    BY <2>1 DEF ThreadsInv
  <2>3. queue' \in [Thread -> 0 .. 1]
    BY <2>1, <2>2 DEF ThreadsInv
  <2>4. ASSUME NEW s \in Thread, queue'[s] > 0 PROVE s <= next_id'
    BY <2>1, <2>4 DEF ThreadsInv
  <2>5. QED
    BY <2>1, <2>3, <2>4 DEF ThreadsInv, NoSnapshot
<1>3. CASE snapshot
  BY <1>3 DEF snapshot, getThreadsForSnapshot, ThreadsInv, threadVars
<1>4. CASE restore
  <2>1. /\ saved.queue \in [Thread -> 0 .. 1] /\ queue' = saved.queue
        /\ next_id' = HighestThread(saved.queue) /\ saved' = saved
    BY <1>4 DEF restore, restoreThreads, ThreadsInv
  <2>2. QED
    BY <2>1, HighestThreadBounds DEF ThreadsInv
<1>5. CASE UNCHANGED <<threadVars, saved>>
  BY <1>5 DEF threadVars, ThreadsInv, NoSnapshot
<1>6. QED
  BY <1>1, <1>2, <1>3, <1>4, <1>5
     DEF Next, mutexSvc, svcCreatePort, connectService, vars

(* Thread ids stay distinct through every restore: no mutex and no sleep() *)
(* can take one thread for another that is queued.                         *)
THEOREM ThreadsStayDistinct == Spec => []ThreadIdsDistinct
<1>1. ThreadsInv => ThreadIdsDistinct
  BY DEF ThreadsInv, ThreadIdsDistinct
<1>2. QED
  BY InitThreads, NextThreads, <1>1, PTL DEF Spec

-----------------------------------------------------------------------------
(* Sessions: next_session_ is above every id in sessions_.                 *)

SessionsInv ==
  /\ next_session \in Nat
  /\ \A i \in SessionId : sessions[i] # Absent => i < next_session

LEMMA FirstFreeIsFree ==
  ASSUME NEW table
  PROVE  /\ FirstFree(table) \in Nat
         /\ \A i \in SessionId : table[i] # Absent => i < FirstFree(table)
<1> DEFINE S == {0} \cup Used(table)
<1>1. S \subseteq 0 .. MaxObject /\ S # {}
  BY DEF Used, SessionId
<1>2. Max(S) \in S /\ \A y \in S : Max(S) >= y
  BY <1>1, MaxIsGreatest
<1>3. FirstFree(table) = Max(S) + 1
  BY DEF FirstFree
<1>4. \A i \in SessionId : table[i] # Absent => i \in S
  BY DEF Used
<1> HIDE DEF S
<1>5. Max(S) \in Nat
  <2>1. Max(S) \in 0 .. MaxObject
    BY <1>1, <1>2, Zenon
  <2>2. QED
    BY <2>1
<1>6. ASSUME NEW i \in SessionId, table[i] # Absent PROVE i < FirstFree(table)
  <2>1. i \in S /\ i \in Nat
    BY <1>4, <1>6 DEF SessionId
  <2>2. QED
    BY <1>2, <1>3, <1>5, <2>1
<1>7. QED
  BY <1>3, <1>5, <1>6

LEMMA InitSessions == Init => SessionsInv
BY DEF Init, SessionsInv, SessionId, NoSession

LEMMA NextSessions == SessionsInv /\ [Next]_vars => SessionsInv'
<1> SUFFICES ASSUME SessionsInv, [Next]_vars PROVE SessionsInv'
  OBVIOUS
<1>1. ASSUME NEW n \in Name, connectService(n) PROVE SessionsInv'
  <2>1. /\ next_session' = next_session + 1
        /\ \A i \in SessionId : i # next_session => sessions'[i] = sessions[i]
    BY <1>1 DEF connectService, SessionsInv
  <2>2. QED
    BY <2>1 DEF SessionsInv, SessionId
<1>2. CASE restore
  <2>1. next_session' = FirstFree(sessions')
    BY <1>2 DEF restore, restoreServices
  <2>2. QED
    BY <2>1, FirstFreeIsFree DEF SessionsInv
<1>3. CASE UNCHANGED <<sessions, next_session>>
  BY <1>3 DEF SessionsInv
<1>4. QED
  BY <1>1, <1>2, <1>3
     DEF Next, spawn, finish, mutexSvc, svcCreatePort, snapshot, vars, sessionVars

(* GetService never replaces a live session, also where a restore has      *)
(* recomputed next_session_.                                               *)
THEOREM SessionsStay == Spec => NoSessionReplaced
<1>1. SessionsInv /\ [Next]_vars =>
        [objects' # objects =>
          \A i \in SessionId : sessions[i] # Absent => sessions'[i] = sessions[i]]_vars
  <2> SUFFICES ASSUME SessionsInv, [Next]_vars, objects' # objects,
                      NEW i \in SessionId, sessions[i] # Absent
               PROVE  sessions'[i] = sessions[i]
    BY Zenon
  <2>1. PICK n \in Name : connectService(n)
    BY DEF Next, spawn, finish, mutexSvc, svcCreatePort, snapshot, restore,
           restoreServices, vars, sessionVars
  <2>2. i # next_session
    BY DEF SessionsInv, SessionId
  <2>3. QED
    BY <2>1, <2>2 DEF connectService
<1>2. QED
  BY InitSessions, NextSessions, <1>1, PTL DEF Spec, NoSessionReplaced

-----------------------------------------------------------------------------
(* Mutexes: every handle, live or saved, names a mutex that was made, and  *)
(* the ids of mutexes are never rolled back.                               *)

(* The guest makes fewer mutexes than a tag can tell apart.                *)
NoAlias == MaxHandles < TagSize

NamesMade(table) ==
  /\ table \in [1 .. MaxHandles -> K!Tag \cup {Absent}]
  /\ \A g \in 1 .. MaxHandles : table[g] # Absent => table[g].low < next_mutex
  /\ \A g, h \in 1 .. MaxHandles :
       table[g] # Absent /\ table[h] # Absent /\ table[g] = table[h] => g = h

MutexInv ==
  /\ next_mutex \in 1 .. MaxHandles + 1
  /\ next_handle \in 1 .. MaxHandles + 1
  /\ NamesMade(handles)
  /\ saved # NoSnapshot =>
       NamesMade(saved.handles) /\ saved.next_handle \in 1 .. MaxHandles + 1

LEMMA InitMutexes == Init => MutexInv
BY DEF Init, MutexInv, NamesMade, NoSnapshot

LEMMA OlderNames ==
  ASSUME next_mutex \in Nat, next_mutex' \in Nat, next_mutex' >= next_mutex,
         NEW table, NamesMade(table)
  PROVE  /\ table \in [1 .. MaxHandles -> K!Tag \cup {Absent}]
         /\ \A g \in 1 .. MaxHandles : table[g] # Absent => table[g].low < next_mutex'
         /\ \A g, h \in 1 .. MaxHandles :
              table[g] # Absent /\ table[h] # Absent /\ table[g] = table[h] => g = h
<1>1. ASSUME NEW g \in 1 .. MaxHandles, table[g] # Absent
      PROVE  table[g].low < next_mutex'
  <2>1. table[g] \in K!Tag /\ table[g].low < next_mutex
    BY <1>1 DEF NamesMade
  <2>2. table[g].low \in Nat
    BY <2>1 DEF K!Tag, K!ObjectId
  <2>3. QED
    BY <2>1, <2>2
<1>2. QED
  BY <1>1 DEF NamesMade

(* Closing a handle, and leaving all as it is.                             *)
LEMMA FewerNames ==
  ASSUME MutexInv, next_mutex' = next_mutex, saved' = saved,
         \/ UNCHANGED <<handles, next_handle>>
         \/ \E h \in 1 .. MaxHandles : K!closeHandle(h)
  PROVE  MutexInv'
<1>1. CASE UNCHANGED <<handles, next_handle>>
  BY <1>1 DEF MutexInv, NamesMade, NoSnapshot
<1>2. ASSUME NEW h \in 1 .. MaxHandles, K!closeHandle(h) PROVE MutexInv'
  <2>1. handles' = [handles EXCEPT ![h] = Absent] /\ next_handle' = next_handle
    BY <1>2 DEF K!closeHandle
  <2>2. NamesMade(handles)'
    BY <2>1 DEF MutexInv, NamesMade
  <2>3. QED
    BY <2>1, <2>2 DEF MutexInv, NamesMade, NoSnapshot
<1>3. QED
  BY <1>1, <1>2

LEMMA CreateNames ==
  ASSUME NoAlias, MutexInv, next_mutex <= MaxHandles, K!svcCreateMutex,
         saved' = saved
  PROVE  MutexInv'
<1> DEFINE tag == [kind |-> "mutex", low |-> next_mutex]
<1>1. next_mutex % TagSize = next_mutex
  BY SMT DEF NoAlias, MutexInv
<1>2. /\ next_handle \in 1 .. MaxHandles
      /\ handles' = [handles EXCEPT ![next_handle] = tag]
      /\ next_handle' = next_handle + 1 /\ next_mutex' = next_mutex + 1
  <2>1. /\ K!MoreHandles /\ next_mutex' = next_mutex + 1
        /\ K!createHandle("mutex", next_mutex)
    BY Zenon DEF K!svcCreateMutex
  <2>2. /\ handles' = [handles EXCEPT ![next_handle] =
                         [kind |-> "mutex", low |-> next_mutex % TagSize]]
        /\ next_handle' = next_handle + 1
    BY <2>1, Zenon DEF K!createHandle
  <2>3. next_handle \in 1 .. MaxHandles
    BY <2>1 DEF K!MoreHandles, MutexInv
  <2>4. QED
    BY <1>1, <2>1, <2>2, <2>3
<1>3. tag \in K!Tag
  BY DEF K!Tag, K!Kind, K!ObjectId, MutexInv
<1> HIDE DEF tag
<1>4. /\ next_mutex \in Nat /\ next_mutex' = next_mutex + 1
      /\ tag.low = next_mutex
  BY <1>2 DEF tag, MutexInv
<1>5. handles' \in [1 .. MaxHandles -> K!Tag \cup {Absent}]
  BY <1>2, <1>3 DEF MutexInv, NamesMade
<1>6. \A g \in 1 .. MaxHandles : handles[g] # Absent =>
        handles[g].low \in Nat /\ handles[g].low < next_mutex
  BY DEF MutexInv, NamesMade, K!Tag, K!ObjectId
<1>7. ASSUME NEW g \in 1 .. MaxHandles, handles'[g] # Absent
      PROVE  handles'[g].low < next_mutex'
  <2>1. CASE g = next_handle
    BY <1>2, <1>4, <2>1 DEF MutexInv, NamesMade
  <2>2. CASE g # next_handle
    BY <1>2, <1>4, <1>6, <1>7, <2>2 DEF MutexInv, NamesMade
  <2>3. QED
    BY <2>1, <2>2
<1>8. ASSUME NEW g \in 1 .. MaxHandles, handles[g] # Absent PROVE handles[g] # tag
  BY <1>4, <1>6, <1>8
<1>9. ASSUME NEW g \in 1 .. MaxHandles, NEW h \in 1 .. MaxHandles,
             handles'[g] # Absent, handles'[h] # Absent, handles'[g] = handles'[h]
      PROVE  g = h
  <2>1. \A k \in 1 .. MaxHandles :
          handles'[k] = IF k = next_handle THEN tag ELSE handles[k]
    BY <1>2 DEF MutexInv, NamesMade
  <2>2. QED
    BY <1>8, <1>9, <2>1 DEF MutexInv, NamesMade
<1>10. NamesMade(handles)'
  BY <1>5, <1>7, <1>9 DEF NamesMade
<1>11. next_mutex' \in 1 .. MaxHandles + 1 /\ next_handle' \in 1 .. MaxHandles + 1
  BY <1>2 DEF MutexInv
<1>12. saved # NoSnapshot => NamesMade(saved.handles)'
  <2>1. SUFFICES ASSUME saved # NoSnapshot PROVE NamesMade(saved.handles)'
    OBVIOUS
  <2>2. NamesMade(saved.handles) /\ next_mutex' \in Nat /\ next_mutex' >= next_mutex
    BY <1>4, <2>1 DEF MutexInv
  <2>3. QED
    BY <1>4, <2>2, OlderNames DEF NamesMade
<1>13. QED
  BY <1>10, <1>11, <1>12 DEF MutexInv, NoSnapshot

LEMMA NextMutexes == ASSUME NoAlias PROVE MutexInv /\ [Next]_vars => MutexInv'
<1> SUFFICES ASSUME MutexInv, [Next]_vars PROVE MutexInv'
  OBVIOUS
<1>1. CASE mutexSvc
  <2>1. PICK t \in Thread :
          \/ next_mutex <= MaxHandles /\ K!svcCreateMutex
          \/ \E h \in K!Given("mutex") :
               \/ K!svcLockMutex(t, h) \/ K!svcUnlockMutex(t, h)
               \/ K!svcCloseMutex(h) \/ K!svcCloseHandle(h)
    BY <1>1, Zenon DEF mutexSvc
  <2>2. saved' = saved
    BY <1>1 DEF mutexSvc
  <2>3. CASE next_mutex <= MaxHandles /\ K!svcCreateMutex
    BY <2>2, <2>3, CreateNames
  <2>4. ASSUME NEW h \in K!Given("mutex"),
               \/ K!svcLockMutex(t, h) \/ K!svcUnlockMutex(t, h)
               \/ K!svcCloseMutex(h) \/ K!svcCloseHandle(h)
        PROVE  MutexInv'
    <3>1. h \in 1 .. MaxHandles
      BY DEF K!Given, K!Handle
    <3>2. next_mutex' = next_mutex
      BY <2>4 DEF K!svcLockMutex, K!svcUnlockMutex, K!svcCloseMutex,
         K!svcCloseHandle, K!Invalid, K!vars, K!tables, K!mutexVars
    <3>3. K!closeHandle(h) \/ UNCHANGED <<handles, next_handle>>
      BY <2>4 DEF K!svcLockMutex, K!svcUnlockMutex, K!svcCloseMutex,
         K!svcCloseHandle, K!Invalid, K!vars, K!tables
    <3>4. QED
      BY <2>2, <3>1, <3>2, <3>3, FewerNames
  <2>5. QED
    BY <2>1, <2>3, <2>4
<1>2. CASE snapshot
  <2>1. /\ saved'.handles = handles /\ saved'.next_handle = next_handle
        /\ UNCHANGED <<handles, next_handle, next_mutex>>
    BY <1>2 DEF snapshot, mutexVars
  <2>2. QED
    BY <2>1 DEF MutexInv, NamesMade
<1>3. CASE restore
  <2>1. /\ saved # NoSnapshot /\ handles' = saved.handles
        /\ next_handle' = saved.next_handle
        /\ next_mutex' = next_mutex /\ saved' = saved
    BY <1>3 DEF restore, restoreHandles, keptMutexes
  <2>2. QED
    BY <2>1 DEF MutexInv, NamesMade
<1>4. CASE UNCHANGED <<handles, next_handle, next_mutex, saved>>
  BY <1>4, FewerNames
<1>5. QED
  BY <1>1, <1>2, <1>3, <1>4
     DEF Next, spawn, finish, svcCreatePort, connectService, vars, mutexVars

(* Two live handles never name the same mutex: what is closed or unlocked  *)
(* through one is not under another, through any number of restores.       *)
THEOREM MutexesStayApart == ASSUME NoAlias PROVE Spec => []NoSharedMutex
<1>1. MutexInv => NoSharedMutex
  BY DEF MutexInv, NamesMade, NoSharedMutex, K!Live
<1>2. MutexInv /\ [Next]_vars => MutexInv'
  BY NextMutexes
<1>3. QED
  BY InitMutexes, <1>1, <1>2, PTL DEF Spec

=============================================================================
