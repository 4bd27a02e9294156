---------------------------- MODULE NvFenceProofs ----------------------------
(***************************************************************************)
(* Theorems about NvFence, for any number of channels and fences, and      *)
(* about NvGpu, for any commands, resources and length of a buffer.        *)
(***************************************************************************)
EXTENDS NvGpu, SequenceTheorems, WellFoundedInduction, TLAPS

USE FenceAssumption DEF FenceAssumption

-----------------------------------------------------------------------------
(* The slot a running wait may still read outside the vector holds a fence *)
(* that was submitted.                                                     *)
LoopOK == call.stale < next_fence /\ (MoreSlots \/ call.it = call.end + 1)

IInv == TypeOK /\ PendingIsTheRest /\ LoopOK

LEMMA InitOK == Init => IInv
<1> SUFFICES ASSUME Init PROVE IInv
  OBVIOUS
<1>1. call = NoLoop /\ NoLoop \in Loop
  BY DEF Init, NoLoop, Loop
<1>2. pending \in Seq(Fence) /\ Len(pending) = 0
  BY EmptySeq DEF Init
<1>3. TypeOK
  BY <1>1, <1>2 DEF Init, TypeOK
<1>4. PendingIsTheRest
  BY <1>2 DEF Init, PendingIsTheRest
<1>5. LoopOK
  BY <1>1 DEF Init, LoopOK, NoLoop, MoreSlots
<1>6. QED
  BY <1>3, <1>4, <1>5 DEF IInv

(* Completing up to a submitted fence, or to one that is complete already, *)
(* removes from pending_ what is now complete and nothing else.            *)
LEMMA Completion ==
  ASSUME pending \in Seq(Fence), completed_fence \in 0 .. MaxFence,
         next_fence \in 1 .. MaxFence + 1, PendingIsTheRest,
         NEW f \in 0 .. MaxFence, f < next_fence,
         completeUpTo(f), next_fence' = next_fence
  PROVE  /\ pending' \in Seq(Fence)
         /\ completed_fence' \in 0 .. MaxFence
         /\ completed_fence' \in {completed_fence, f}
         /\ PendingIsTheRest'
<1> DEFINE d == Later(f)
<1>1. /\ d \in 0 .. MaxFence /\ d \in {completed_fence, f}
      /\ d >= completed_fence /\ d < next_fence
  BY DEF Later, PendingIsTheRest
<1>2. /\ completed_fence < next_fence
      /\ Len(pending) = next_fence - 1 - completed_fence
      /\ \A i \in 1 .. Len(pending) : pending[i] = completed_fence + i
  BY DEF PendingIsTheRest
<1>3. completed_fence' = d
  BY DEF completeUpTo
<1>4. PICK n \in 0 .. Len(pending) :
        /\ \A k \in 1 .. n : pending[k] <= d
        /\ n < Len(pending) => ~(pending[n + 1] <= d)
        /\ pending' = SubSeq(pending, n + 1, Len(pending))
  BY DEF completeUpTo, Done
<1> HIDE DEF d
<1>5. n = d - completed_fence
  <2>1. n > 0 => completed_fence + n <= d
    <3>1. n > 0 => pending[n] <= d /\ pending[n] = completed_fence + n
      BY <1>2, <1>4
    <3>2. QED
      BY <3>1
  <2>2. n < Len(pending) => completed_fence + n + 1 > d
    <3>1. n < Len(pending) => n + 1 \in 1 .. Len(pending)
      BY <1>2
    <3>2. n < Len(pending) => pending[n + 1] = completed_fence + (n + 1)
      BY <1>2, <3>1
    <3>3. QED
      BY <1>1, <1>2, <1>4, <3>2
  <2>3. QED
    BY <1>1, <1>2, <2>1, <2>2
<1>6. /\ pending' \in Seq(Fence)
      /\ Len(pending') = Len(pending) - n
      /\ \A i \in 1 .. Len(pending) - n : pending'[i] = pending[n + i]
  <2>1. /\ Len(pending) \in Nat
        /\ \A i \in 1 .. Len(pending) : pending[i] \in Fence
    BY ElementOfSeq, LenProperties
  <2>2. n + 1 \in Int /\ Len(pending) \in Int
        /\ \A i \in n + 1 .. Len(pending) : pending[i] \in Fence
    BY <2>1
  <2> DEFINE q == SubSeq(pending, n + 1, Len(pending))
  <2>3. /\ q \in Seq(Fence)
        /\ Len(q) = IF n + 1 <= Len(pending) THEN Len(pending) - (n + 1) + 1 ELSE 0
        /\ \A i \in 1 .. Len(pending) - (n + 1) + 1 : q[i] = pending[(n + 1) + i - 1]
    BY <2>2, SubSeqProperties
  <2> HIDE DEF q
  <2>4. Len(q) = Len(pending) - n
    BY <2>1, <2>3
  <2>5. \A i \in 1 .. Len(pending) - n : q[i] = pending[n + i]
    BY <2>1, <2>3
  <2>6. pending' = q
    BY <1>4 DEF q
  <2>7. QED
    BY <2>3, <2>4, <2>5, <2>6
<1>7. PendingIsTheRest'
  <2>1. \A i \in 1 .. Len(pending) - n : pending'[i] = completed_fence + n + i
    BY <1>1, <1>2, <1>6
  <2>2. QED
    BY <1>1, <1>2, <1>3, <1>5, <1>6, <2>1 DEF PendingIsTheRest
<1>8. QED
  BY <1>1, <1>3, <1>6, <1>7

(* A slot the running wait reads is 0 or the number of a submitted fence.  *)
LEMMA SlotRange ==
  ASSUME IInv PROVE Slot \in 0 .. MaxFence /\ Slot < next_fence
<1>1. CASE call.it <= Len(pending)
  <2>1. call.it \in 1 .. Len(pending) /\ pending \in Seq(Fence)
    BY <1>1 DEF IInv, TypeOK, Loop
  <2>2. pending[call.it] \in Fence /\ pending[call.it] = completed_fence + call.it
    BY <2>1, ElementOfSeq DEF IInv, PendingIsTheRest
  <2>3. pending[call.it] < next_fence
    BY <2>1, <2>2 DEF IInv, TypeOK, PendingIsTheRest
  <2>4. QED
    BY <1>1, <2>2, <2>3 DEF Slot, Fence
<1>2. CASE ~(call.it <= Len(pending))
  BY <1>2 DEF Slot, IInv, LoopOK, TypeOK, Loop
<1>3. QED
  BY <1>1, <1>2

LEMMA NextOK == IInv /\ [Next]_vars => IInv'
<1> SUFFICES ASSUME IInv, [Next]_vars PROVE IInv'
  OBVIOUS
<1>a. TypeOK /\ PendingIsTheRest /\ LoopOK
  BY DEF IInv
<1>b. call \in Loop /\ NoLoop \in Loop /\ NoLoop.stale = 0
      /\ NoLoop.it = NoLoop.end + 1
  BY <1>a DEF TypeOK, NoLoop, Loop
<1>1. CASE OpenChannel
  BY <1>a, <1>1 DEF OpenChannel, fenceVars, IInv, TypeOK, Channel,
     PendingIsTheRest, LoopOK, MoreSlots
<1>2. ASSUME NEW id \in Channel, CloseChannel(id) PROVE IInv'
  BY <1>a, <1>2 DEF CloseChannel, fenceVars, IInv, TypeOK, PendingIsTheRest,
     LoopOK, MoreSlots
<1>3. ASSUME NEW id \in Channel, Submit(id) PROVE IInv'
  <2>1. /\ next_fence \in Fence /\ next_fence' = next_fence + 1
        /\ pending' = Append(pending, next_fence)
        /\ UNCHANGED <<channels, next_channel, completed_fence, call, waited>>
    BY <1>a, <1>3 DEF Submit, channelVars, TypeOK, Fence
  <2>2. /\ pending' \in Seq(Fence) /\ Len(pending') = Len(pending) + 1
        /\ \A i \in 1 .. Len(pending) : pending'[i] = pending[i]
        /\ pending'[Len(pending) + 1] = next_fence
    BY <1>a, <2>1, AppendProperties DEF TypeOK
  <2>3. TypeOK'
    BY <1>a, <2>1, <2>2 DEF TypeOK, Fence
  <2>4. PendingIsTheRest'
    BY <1>a, <2>1, <2>2 DEF TypeOK, PendingIsTheRest
  <2>5. LoopOK'
    BY <1>a, <1>b, <2>1 DEF LoopOK, MoreSlots, TypeOK, Loop
  <2>6. QED
    BY <2>3, <2>4, <2>5 DEF IInv
<1>4. ASSUME NEW f \in 0 .. MaxFence, WaitFence(f) PROVE IInv'
  <2> DEFINE last == IF pending = <<>> THEN 0 ELSE pending[Len(pending)]
  <2>1. /\ call' = [op |-> "wait", it |-> 1, end |-> Len(pending), upto |-> f,
                    stale |-> last]
        /\ UNCHANGED <<channels, next_channel, pending, completed_fence,
                       next_fence, waited>>
    BY <1>4 DEF WaitFence, channelVars, fenceVars
  <2>2. last \in 0 .. MaxFence /\ last < next_fence
    <3>1. CASE pending = <<>>
      BY <1>a, <3>1 DEF TypeOK
    <3>2. CASE pending # <<>>
      <4>1. Len(pending) \in 1 .. Len(pending)
        BY <1>a, <3>2, EmptySeq, LenProperties DEF TypeOK
      <4>2. pending[Len(pending)] \in Fence
            /\ pending[Len(pending)] = completed_fence + Len(pending)
        BY <1>a, <4>1, ElementOfSeq DEF TypeOK, PendingIsTheRest
      <4>3. QED
        BY <1>a, <3>2, <4>1, <4>2 DEF TypeOK, PendingIsTheRest, Fence
    <3>3. QED
      BY <3>1, <3>2
  <2>3. Len(pending) \in 0 .. MaxFence
    BY <1>a DEF TypeOK, PendingIsTheRest
  <2> HIDE DEF last
  <2>4. call' \in Loop
    BY <2>1, <2>2, <2>3 DEF Loop
  <2>5. TypeOK' /\ PendingIsTheRest'
    BY <1>a, <2>1, <2>4 DEF TypeOK, PendingIsTheRest
  <2>6. LoopOK'
    BY <2>1, <2>2, <2>3 DEF LoopOK, MoreSlots
  <2>7. QED
    BY <2>5, <2>6 DEF IInv
<1>5. CASE WaitIteration
  <2>1. /\ call.op = "wait" /\ call.it <= call.end
        /\ call' = [call EXCEPT !.it = call.it + 1]
        /\ UNCHANGED <<channels, next_channel, next_fence, waited>>
    BY <1>5 DEF WaitIteration, MoreSlots, channelVars
  <2>2. call' \in Loop /\ call'.stale = call.stale /\ LoopOK'
    BY <1>a, <1>b, <2>1 DEF Loop, LoopOK, MoreSlots
  <2>3. Slot \in 0 .. MaxFence /\ Slot < next_fence
    BY SlotRange
  <2>4. /\ pending' \in Seq(Fence) /\ completed_fence' \in 0 .. MaxFence
        /\ PendingIsTheRest'
    <3>1. CASE completeUpTo(Slot)
      BY <1>a, <2>1, <2>3, <3>1, Completion DEF TypeOK
    <3>2. CASE UNCHANGED fenceVars
      BY <1>a, <2>1, <3>2 DEF TypeOK, fenceVars, PendingIsTheRest
    <3>3. QED
      BY <1>5, <3>1, <3>2 DEF WaitIteration
  <2>5. TypeOK'
    BY <1>a, <2>1, <2>2, <2>4 DEF TypeOK
  <2>6. QED
    BY <2>2, <2>4, <2>5 DEF IInv
<1>6. CASE WaitReturn
  <2>1. /\ call' = NoLoop /\ waited' \subseteq waited \cup Fence
        /\ UNCHANGED <<channels, next_channel, pending, completed_fence, next_fence>>
    BY <1>6 DEF WaitReturn, channelVars, fenceVars
  <2>2. QED
    BY <1>a, <1>b, <2>1 DEF IInv, TypeOK, PendingIsTheRest, LoopOK, MoreSlots
<1>7. CASE renderFrameNative
  <2>1. /\ call' = [NoLoop EXCEPT !.op = "drain"]
        /\ UNCHANGED <<channels, next_channel, pending, completed_fence,
                       next_fence, waited>>
    BY <1>7 DEF renderFrameNative, channelVars, fenceVars
  <2>2. call' \in Loop /\ call'.stale = 0 /\ call'.it = call'.end + 1
    BY <2>1 DEF NoLoop, Loop
  <2>3. QED
    BY <1>a, <2>1, <2>2 DEF IInv, TypeOK, PendingIsTheRest, LoopOK, MoreSlots
<1>8. CASE DrainIteration
  <2>1. /\ pending # <<>> /\ completeUpTo(Head(pending))
        /\ UNCHANGED <<channels, next_channel, next_fence, call, waited>>
    BY <1>8 DEF DrainIteration, channelVars
  <2>2. Head(pending) \in 0 .. MaxFence /\ Head(pending) < next_fence
    <3>1. pending \in Seq(Fence) /\ Len(pending) >= 1
      BY <1>a, <2>1, EmptySeq, LenProperties DEF TypeOK
    <3>2. Head(pending) = pending[1] /\ Head(pending) \in Fence
      BY <2>1, <3>1, HeadTailProperties
    <3>3. pending[1] = completed_fence + 1
      BY <1>a, <3>1 DEF PendingIsTheRest
    <3>4. QED
      BY <1>a, <3>1, <3>2, <3>3 DEF TypeOK, PendingIsTheRest, Fence
  <2>3. /\ pending' \in Seq(Fence) /\ completed_fence' \in 0 .. MaxFence
        /\ PendingIsTheRest'
    BY <1>a, <2>1, <2>2, Completion DEF TypeOK
  <2>4. QED
    BY <1>a, <2>1, <2>3 DEF IInv, TypeOK, LoopOK, MoreSlots
<1>9. CASE DrainReturn
  BY <1>a, <1>b, <1>9 DEF DrainReturn, channelVars, fenceVars, IInv, TypeOK,
     PendingIsTheRest, LoopOK, MoreSlots
<1>10. CASE UNCHANGED vars
  BY <1>a, <1>10 DEF vars, channelVars, fenceVars, IInv, TypeOK,
     PendingIsTheRest, LoopOK, MoreSlots
<1>11. QED
  BY <1>1, <1>2, <1>3, <1>4, <1>5, <1>6, <1>7, <1>8, <1>9, <1>10
     DEF Next, Command, InLoop

LEMMA Invariant == Spec => []IInv
  BY InitOK, NextOK, PTL DEF Spec

(* Every variable keeps its type and its bound.                            *)
THEOREM FenceTypes == Spec => []TypeOK
  BY Invariant, PTL DEF IInv

(* No submitted fence is lost, doubled or reordered, though WaitFence      *)
(* erases from the vector it iterates over.                                *)
THEOREM NoFenceLost == Spec => []PendingIsTheRest
  BY Invariant, PTL DEF IInv

-----------------------------------------------------------------------------
(* How far a wait gets.                                                    *)

\* What was complete when the wait was called.
Before == (next_fence - 1) - call.end

\* A wait for an older fence has gone up to the k-th triangular number, and
\* is there for good or goes to the next with the next slot.
AtTriangle(k) ==
  /\ completed_fence = Before + Triangle(k)
  /\ k > 0 => completed_fence <= call.upto
  /\ k = call.it - 1 \/ call.upto < Before + Triangle(k + 1)

\* How far a wait has got.  Once the newest fence was read, also from the
\* slot past the end that still holds it, nothing is pending.
WaitOK ==
  call.op = "wait" =>
    /\ call.end < next_fence
    /\ call.end > 0 => call.stale = next_fence - 1
    /\ call.it = 1 => completed_fence = Before
    /\ IF call.upto >= next_fence - 1
       THEN /\ call.it > 1 => completed_fence > Before
            /\ call.it > 1 /\ ~MoreSlots => pending = <<>>
       ELSE \E k \in 0 .. call.it - 1 : AtTriangle(k)

LEMMA TriangleNext ==
  ASSUME NEW k \in Nat
  PROVE  /\ Triangle(k) \in Nat /\ Triangle(k + 1) = Triangle(k) + (k + 1)
         /\ Triangle(k) >= k /\ (k > 1 => Triangle(k) > k)
<1>1. \A m \in Nat : m * (m + 1) \in Nat /\ (m + 1) * ((m + 1) + 1) = m * (m + 1) + 2 * (m + 1)
  OBVIOUS
<1>2. PICK x \in Nat : x = k * (k + 1) /\ (k + 1) * ((k + 1) + 1) = x + 2 * (k + 1)
  BY <1>1
<1>3. x >= 2 * k /\ (k > 1 => x > 2 * k + 1)
  <2>1. k = 0 => x >= 2 * k
    BY <1>2
  <2>2. k >= 1 => k * (k + 1) >= 1 * (k + 1) + 0
    OBVIOUS
  <2>3. k >= 1 => x >= 2 * k
    <3>1. CASE k = 1
      BY <1>2, <3>1
    <3>2. CASE k >= 2
      <4>1. k * (k + 1) >= 2 * (k + 1)
        BY <3>2
      <4>2. QED
        BY <1>2, <4>1
    <3>3. QED
      BY <3>1, <3>2
  <2>4. k > 1 => k * (k + 1) >= 2 * (k + 1)
    OBVIOUS
  <2>5. QED
    BY <1>2, <2>1, <2>3, <2>4
<1>4. x \div 2 \in Nat /\ (x + 2 * (k + 1)) \div 2 = x \div 2 + (k + 1)
      /\ x \div 2 >= k /\ (k > 1 => x \div 2 > k)
  BY <1>3
<1>5. QED
  BY <1>2, <1>4 DEF Triangle

\* What the next slot holds, in the vector or past its end.
LEMMA SlotIs ==
  ASSUME IInv, WaitOK, call.op = "wait", MoreSlots
  PROVE  /\ Slot = IF call.it <= Len(pending) THEN completed_fence + call.it
                   ELSE next_fence - 1
         /\ Len(pending) = (next_fence - 1) - completed_fence
<1>1. call.it \in Nat /\ call.it > 0 /\ call.it <= call.end /\ call.end \in Nat
  BY DEF IInv, TypeOK, Loop, MoreSlots
<1>2. call.stale = next_fence - 1
  BY <1>1 DEF WaitOK
<1>3. Len(pending) = (next_fence - 1) - completed_fence
  BY DEF IInv, PendingIsTheRest
<1>4. call.it <= Len(pending) => pending[call.it] = completed_fence + call.it
  <2>1. Len(pending) \in Nat
    BY LenProperties DEF IInv, TypeOK
  <2>2. QED
    BY <1>1, <2>1 DEF IInv, PendingIsTheRest
<1>5. QED
  BY <1>2, <1>3, <1>4 DEF Slot

\* One iteration of the loop.
LEMMA WaitGoesOn ==
  ASSUME IInv, IInv', WaitOK, WaitIteration
  PROVE  WaitOK'
<1>1. /\ call.op = "wait" /\ MoreSlots /\ call \in Loop
      /\ call' = [call EXCEPT !.it = call.it + 1] /\ next_fence' = next_fence
  BY DEF WaitIteration, IInv, TypeOK
<1>2. /\ call'.op = "wait" /\ call'.it = call.it + 1 /\ call'.end = call.end
      /\ call'.upto = call.upto /\ call'.stale = call.stale
  BY <1>1 DEF Loop
<1>3. /\ call.it \in Nat /\ call.it > 0 /\ call.it <= call.end /\ call.end \in Nat
      /\ call.upto \in Nat /\ next_fence \in Nat /\ completed_fence \in Nat
      /\ call.end < next_fence /\ completed_fence < next_fence
      /\ Before \in Nat /\ Before' = Before
  <2>1. /\ call.it \in Nat /\ call.it > 0 /\ call.it <= call.end /\ call.end \in Nat
        /\ call.upto \in Nat
    BY <1>1 DEF Loop, MoreSlots
  <2>2. /\ next_fence \in Nat /\ completed_fence \in Nat /\ completed_fence < next_fence
    BY DEF IInv, TypeOK, PendingIsTheRest
  <2>3. call.end < next_fence
    BY <1>1 DEF WaitOK
  <2>4. Before \in Nat
    BY <2>1, <2>2, <2>3 DEF Before
  <2>5. Before' = Before
    BY <1>1, <1>2, Zenon DEF Before
  <2>6. QED
    BY <2>1, <2>2, <2>3, <2>4, <2>5
<1>4. PICK l \in Nat : l = Len(pending) /\ l = (next_fence - 1) - completed_fence
  BY <1>1, <1>3, SlotIs
<1>5. Slot = IF call.it <= l THEN completed_fence + call.it ELSE next_fence - 1
  BY <1>1, <1>4, SlotIs
<1>6. PICK x \in Nat : x = Slot
  BY <1>3, <1>5
<1>7. completed_fence' = IF x <= call.upto /\ x > completed_fence THEN x ELSE completed_fence
  BY <1>6 DEF WaitIteration, SlotCounts, completeUpTo, Later, fenceVars
<1>8. /\ call'.end < next_fence' /\ (call'.end > 0 => call'.stale = next_fence' - 1)
      /\ call'.it # 1
  BY <1>1, <1>2, <1>3 DEF WaitOK
<1>9. CASE call.upto >= next_fence - 1
  <2>1. (call.it > 1 => completed_fence > Before) /\ (call.it = 1 => completed_fence = Before)
    BY <1>1, <1>9 DEF WaitOK
  <2>2. Before = (next_fence - 1) - call.end
    BY DEF Before
  <2>3. x <= call.upto /\ x > Before
    BY <1>3, <1>4, <1>5, <1>6, <1>9, <2>1, <2>2
  <2>4. completed_fence' > Before
    BY <1>3, <1>7, <2>1, <2>3
  <2>5. ~MoreSlots' => completed_fence' = next_fence - 1
    <3>1. ~MoreSlots' => call.it = call.end
      BY <1>2, <1>3 DEF MoreSlots
    <3>2. call.it = call.end => x = next_fence - 1
      BY <1>3, <1>4, <1>5, <1>6, <2>1, <2>2
    <3>3. QED
      BY <1>3, <1>7, <1>9, <3>1, <3>2
  <2>6. ~MoreSlots' => pending' = <<>>
    <3>1. Len(pending') = (next_fence' - 1) - completed_fence' /\ pending' \in Seq(Fence)
      BY DEF IInv, TypeOK, PendingIsTheRest
    <3>2. ~MoreSlots' => Len(pending') = 0
      BY <1>1, <1>3, <2>5, <3>1
    <3>3. QED
      BY <3>1, <3>2, EmptySeq
  <2>7. QED
    BY <1>1, <1>2, <1>3, <1>8, <1>9, <2>4, <2>6 DEF WaitOK
<1>10. CASE ~(call.upto >= next_fence - 1)
  <2>1. PICK k \in 0 .. call.it - 1 : AtTriangle(k)
    BY <1>1, <1>10 DEF WaitOK
  <2>2. k \in Nat /\ k + 1 \in Nat
    BY <1>3
  <2>3. PICK t \in Nat : t = Triangle(k)
    BY <2>2, TriangleNext
  <2>4. Triangle(k + 1) = t + (k + 1)
    BY <2>2, <2>3, TriangleNext
  <2>5. /\ completed_fence = Before + t
        /\ k > 0 => completed_fence <= call.upto
        /\ k = call.it - 1 \/ call.upto < Before + (t + (k + 1))
    BY <2>1, <2>3, <2>4 DEF AtTriangle
  <2>6. CASE k = call.it - 1 /\ x <= call.upto
    <3>1. call.it <= l
      BY <1>3, <1>5, <1>6, <1>10, <2>6
    <3>2. x = completed_fence + call.it
      BY <1>5, <1>6, <3>1
    <3>3. completed_fence' = Before + (t + (k + 1))
      BY <1>3, <1>7, <2>2, <2>5, <2>6, <3>2
    <3>4. completed_fence' <= call.upto
      BY <1>3, <1>7, <2>6, <3>2
    <3>5. k + 1 = call'.it - 1 /\ k + 1 \in 0 .. call'.it - 1
      BY <1>2, <1>3, <2>6
    <3>6. AtTriangle(k + 1)'
      BY <1>2, <1>3, <2>4, <3>3, <3>4, <3>5 DEF AtTriangle, Triangle
    <3>7. QED
      BY <1>1, <1>2, <1>8, <1>10, <3>5, <3>6 DEF WaitOK
  <2>7. CASE ~(k = call.it - 1 /\ x <= call.upto)
    <3>1. x > call.upto /\ call.upto < Before + (t + (k + 1))
      BY <1>3, <1>4, <1>5, <1>6, <1>10, <2>2, <2>5, <2>7
    <3>2. completed_fence' = completed_fence
      BY <1>3, <1>7, <3>1
    <3>3. k \in 0 .. call'.it - 1
      BY <1>2, <1>3
    <3>4. AtTriangle(k)'
      BY <1>2, <1>3, <2>3, <2>4, <2>5, <3>1, <3>2 DEF AtTriangle, Triangle
    <3>5. QED
      BY <1>1, <1>2, <1>8, <1>10, <3>3, <3>4 DEF WaitOK
  <2>8. QED
    BY <2>6, <2>7
<1>11. QED
  BY <1>9, <1>10

LEMMA WaitStep ==
  ASSUME IInv, IInv', WaitOK, [Next]_vars
  PROVE  WaitOK'
<1>1. CASE WaitIteration
  BY <1>1, WaitGoesOn
<1>2. ASSUME NEW f \in 0 .. MaxFence, WaitFence(f) PROVE WaitOK'
  <2>1. /\ call'.op = "wait" /\ call'.it = 1 /\ call'.end = Len(pending)
        /\ call'.upto = f
        /\ call'.stale = IF pending = <<>> THEN 0 ELSE pending[Len(pending)]
        /\ UNCHANGED <<next_fence, completed_fence, pending>>
    BY <1>2 DEF WaitFence, fenceVars
  <2>2. /\ Len(pending) \in Nat /\ Len(pending) = (next_fence - 1) - completed_fence
        /\ completed_fence \in Nat /\ next_fence \in Nat /\ completed_fence < next_fence
        /\ \A i \in 1 .. Len(pending) : pending[i] = completed_fence + i
    BY LenProperties DEF IInv, TypeOK, PendingIsTheRest
  <2>3. Len(pending) > 0 => pending # <<>> /\ pending[Len(pending)] = next_fence - 1
    BY <2>2
  <2>4. Triangle(0) = 0
    BY DEF Triangle
  <2>5. /\ call'.end < next_fence' /\ (call'.end > 0 => call'.stale = next_fence' - 1)
        /\ completed_fence' = Before'
    BY <2>1, <2>2, <2>3 DEF Before
  <2>6. AtTriangle(0)'
    <3>1. Triangle(0)' = 0
      BY DEF Triangle
    <3>2. Before' = completed_fence'
      BY <2>5
    <3>3. completed_fence' = Before' + 0 /\ 0 = call'.it - 1
      BY <2>1, <2>2, <3>2
    <3>4. QED
      BY <3>1, <3>3 DEF AtTriangle
  <2>7. 0 \in 0 .. call'.it - 1
    BY <2>1
  <2>8. QED
    BY <2>1, <2>5, <2>6, <2>7 DEF WaitOK
<1>3. CASE UNCHANGED vars
  BY <1>3 DEF vars, fenceVars, WaitOK, AtTriangle, Before, MoreSlots
<1>4. CASE /\ OpenChannel \/ (\E id \in Channel : CloseChannel(id) \/ Submit(id))
              \/ renderFrameNative \/ WaitReturn \/ DrainIteration \/ DrainReturn
  <2>1. call'.op # "wait"
    BY <1>4 DEF OpenChannel, CloseChannel, Submit, renderFrameNative, WaitReturn,
       DrainIteration, DrainReturn, Idle, NoLoop
  <2>2. QED
    BY <2>1 DEF WaitOK
<1>5. QED
  BY <1>1, <1>2, <1>3, <1>4 DEF Next, Command, InLoop

(* However the loop of WaitFence moves the elements it has still to read,   *)
(* what it completes is fixed by what was pending: all for the newest       *)
(* fence, else up to the last triangular number not beyond its fence.       *)
THEOREM WaitsGoByTriangles == Spec => []WaitGoesByTriangles
<1>1. Init => WaitOK
  BY DEF Init, NoLoop, WaitOK
<1>2. IInv /\ IInv' /\ WaitOK /\ [Next]_vars => WaitOK'
  BY WaitStep
<1>3. IInv /\ WaitOK => WaitGoesByTriangles
  <2> SUFFICES ASSUME IInv, WaitOK, call.op = "wait", ~MoreSlots
               PROVE  IF call.upto >= next_fence - 1 THEN pending = <<>>
                      ELSE \E k \in 0 .. call.end :
                             /\ completed_fence = Before + Triangle(k)
                             /\ k > 0 => completed_fence <= call.upto
                             /\ call.upto < Before + Triangle(k + 1)
    BY DEF WaitGoesByTriangles, Before
  <2>1. /\ call.end \in Nat /\ call.upto \in Nat /\ call.it = call.end + 1
        /\ next_fence \in Nat /\ completed_fence \in Nat /\ call.end < next_fence
        /\ Len(pending) = (next_fence - 1) - completed_fence /\ pending \in Seq(Fence)
    BY DEF IInv, TypeOK, LoopOK, Loop, WaitOK, PendingIsTheRest
  <2>2. Before \in Nat /\ Before = (next_fence - 1) - call.end
    BY <2>1 DEF Before
  <2>3. CASE call.upto >= next_fence - 1
    <3>1. CASE call.end = 0
      <4>1. completed_fence = next_fence - 1
        BY <2>1, <2>2, <3>1 DEF WaitOK
      <4>2. Len(pending) = 0
        BY <2>1, <4>1
      <4>3. QED
        BY <2>1, <2>3, <4>2, EmptySeq
    <3>2. CASE call.end # 0
      BY <2>1, <2>3, <3>2 DEF WaitOK
    <3>3. QED
      BY <3>1, <3>2
  <2>4. CASE ~(call.upto >= next_fence - 1)
    <3>1. PICK k \in 0 .. call.it - 1 : AtTriangle(k)
      BY <2>4 DEF WaitOK
    <3>2. k \in Nat /\ k \in 0 .. call.end
      BY <2>1
    <3>3. PICK t \in Nat : t = Triangle(k) /\ t >= k /\ (k > 1 => t > k)
      BY <3>2, TriangleNext
    <3>4. Triangle(k + 1) = t + (k + 1)
      BY <3>2, <3>3, TriangleNext
    <3>5. /\ completed_fence = Before + t
          /\ k > 0 => completed_fence <= call.upto
          /\ k = call.it - 1 \/ call.upto < Before + Triangle(k + 1)
      BY <3>1, <3>3 DEF AtTriangle
    <3>6. ASSUME k = call.it - 1 PROVE call.upto < Before + (t + (k + 1))
      <4>1. k = call.end /\ Before + k = next_fence - 1 /\ call.upto < next_fence - 1
        BY <2>1, <2>2, <2>4, <3>2, <3>6
      <4>2. PICK a \in Nat, u \in Nat : a = Before /\ u = call.upto
        BY <2>1, <2>2
      <4>3. u < a + k /\ a + k <= a + t /\ a + t <= a + (t + (k + 1))
        BY <3>2, <3>3, <4>1, <4>2
      <4>4. u < a + (t + (k + 1))
        BY <3>2, <4>3
      <4>5. QED
        BY <4>2, <4>4
    <3>7. QED
      BY <2>4, <3>2, <3>3, <3>4, <3>5, <3>6
  <2>5. QED
    BY <2>3, <2>4
<1>4. QED
  BY <1>1, <1>2, <1>3, Invariant, PTL DEF Spec

-----------------------------------------------------------------------------
(* The decoder.  What commands do one after the other, and where their     *)
(* words lie in a buffer, are recursive functions: that they have values   *)
(* follows from there being no first place where they fail.                *)
LEMMA FirstPlace ==
  ASSUME NEW S \in SUBSET Nat, S # {}
  PROVE  \E x \in S : \A y \in S : x <= y
<1>1. IsWellFoundedOn(OpToRel(<, Nat), Nat)
  BY NatLessThanWellFounded
<1>2. \E x \in S : \A y \in S : ~(<<y, x>> \in OpToRel(<, Nat))
  BY <1>1, WFMin
<1>3. PICK x \in S : \A y \in S : ~(<<y, x>> \in OpToRel(<, Nat))
  BY <1>2
<1>4. \A y \in S : ~(y < x)
  BY <1>3 DEF OpToRel
<1>5. QED
  BY <1>4

-----------------------------------------------------------------------------
(* What commands are and do.                                               *)

\* What the decoder reads from a header.
LEMMA HeaderParts ==
  ASSUME NEW o \in Nat, o < 65536, NEW s \in Nat, NEW x, x = Gpu!Header(o, s)
  PROVE  x % 65536 = o /\ x \div 65536 = s /\ (x < 65536 <=> s = 0)
<1>1. x = o + 65536 * s
  BY DEF Gpu!Header
<1>2. QED
  BY <1>1

LEMMA OperandsBound ==
  ASSUME NEW op \in Nat
  PROVE  Gpu!Operands(op) \in 0 .. 4 /\ Gpu!Optional(op) \in 0 .. 1
  BY DEF Gpu!Operands, Gpu!Optional

LEMMA CommandIs ==
  ASSUME NEW c \in Commands
  PROVE  /\ c.op \in Nat /\ c.op < 65536 /\ c.operands \in Seq(Nat)
         /\ Len(c.operands) \in Nat
         /\ Len(c.operands) = Gpu!Operands(c.op) + Gpu!Optional(c.op)
<1>1. /\ c.op \in Nat /\ c.op < 65536 /\ c.operands \in Seq(Nat)
      /\ Len(c.operands) = Gpu!Operands(c.op) + Gpu!Optional(c.op)
  BY CommandsAssumption DEF CommandsAssumption
<1>2. QED
  BY <1>1

\* An opcode without operands binds and counts nothing.
LEMMA NoEffect ==
  ASSUME NEW op \in Nat, Gpu!Operands(op) = 0, NEW w
  PROVE  /\ \A b : Gpu!Binding(b, op, w) = b
         /\ \A k : Gpu!Counting(k, op, w) = k
<1>1. op \notin {134, 135, 192, 193, 194, 195, 196, 197, 201, 202, 203, 207, 206}
  BY DEF Gpu!Operands
<1>2. Gpu!Target(op, w) = Gpu!Nowhere
  BY <1>1 DEF Gpu!Target
<1>3. QED
  BY <1>1, <1>2 DEF Gpu!Binding, Gpu!Counting

Counts == [draw : Nat, dispatch : Nat]

Plus(t, k) == [draw |-> t.draw + k.draw, dispatch |-> t.dispatch + k.dispatch]

\* What is counted may be added to the totals before or after a command.
LEMMA CountingAdds ==
  ASSUME NEW op \in Nat, NEW w \in Seq(Nat), Len(w) = Gpu!Operands(op) + Gpu!Optional(op),
         NEW t \in Counts, NEW k \in Counts
  PROVE  /\ Gpu!Counting(k, op, w) \in Counts
         /\ Gpu!Counting(Plus(t, k), op, w) = Plus(t, Gpu!Counting(k, op, w))
<1>2. k = [draw |-> k.draw, dispatch |-> k.dispatch]
  BY DEF Counts
<1>b. t.draw \in Nat /\ t.dispatch \in Nat /\ k.draw \in Nat /\ k.dispatch \in Nat
  BY DEF Counts
<1>3. CASE op \in {134, 135}
  <2>1. Len(w) >= 2
    BY <1>3 DEF Gpu!Operands, Gpu!Optional
  <2>2. w[2] \in Nat
    BY <2>1
  <2>3. PICK x \in Nat : x = IF w[2] > 0 THEN w[2] ELSE 1
    BY <2>2
  <2>4. \A a : Gpu!Counting(a, op, w) = [a EXCEPT !.draw = a.draw + x]
    BY <1>3, <2>3 DEF Gpu!Counting
  <2>5. Gpu!Counting(k, op, w) = [draw |-> k.draw + x, dispatch |-> k.dispatch]
    BY <1>2, <2>4
  <2>6. Gpu!Counting(Plus(t, k), op, w)
          = [draw |-> (t.draw + k.draw) + x, dispatch |-> t.dispatch + k.dispatch]
    BY <2>4 DEF Plus
  <2>7. (t.draw + k.draw) + x = t.draw + (k.draw + x) /\ k.draw + x \in Nat
    <3>1. PICK y \in Nat, z \in Nat : y = t.draw /\ z = k.draw
      BY <1>b
    <3>2. (y + z) + x = y + (z + x) /\ z + x \in Nat
      OBVIOUS
    <3>3. QED
      BY <3>1, <3>2
  <2>8. QED
    BY <1>2, <2>5, <2>6, <2>7 DEF Counts, Plus
<1>4. CASE op = 206
  <2>1. Len(w) >= 3
    BY <1>4 DEF Gpu!Operands, Gpu!Optional
  <2>2. w[1] \in Nat /\ w[2] \in Nat /\ w[3] \in Nat
    BY <2>1
  <2>3. PICK x \in Nat : x = w[1] * w[2] * w[3]
    BY <2>2
  <2>4. \A a : Gpu!Counting(a, op, w) = [a EXCEPT !.dispatch = a.dispatch + x]
    BY <1>4, <2>3 DEF Gpu!Counting
  <2>5. Gpu!Counting(k, op, w) = [draw |-> k.draw, dispatch |-> k.dispatch + x]
    <3>1. PICK y, z : k = [draw |-> y, dispatch |-> z]
      BY <1>2
    <3>2. [k EXCEPT !.dispatch = k.dispatch + x] = [draw |-> k.draw, dispatch |-> k.dispatch + x]
      BY <3>1
    <3>3. QED
      BY <2>4, <3>2
  <2>6. Gpu!Counting(Plus(t, k), op, w)
          = [draw |-> t.draw + k.draw, dispatch |-> (t.dispatch + k.dispatch) + x]
    BY <2>4 DEF Plus
  <2>7. /\ (t.dispatch + k.dispatch) + x = t.dispatch + (k.dispatch + x)
        /\ k.dispatch + x \in Nat
    <3>1. PICK y \in Nat, z \in Nat : y = t.dispatch /\ z = k.dispatch
      BY <1>b
    <3>2. (y + z) + x = y + (z + x) /\ z + x \in Nat
      OBVIOUS
    <3>3. QED
      BY <3>1, <3>2
  <2>8. QED
    BY <1>2, <2>5, <2>6, <2>7 DEF Counts, Plus
<1>5. CASE op \notin {134, 135, 206}
  BY <1>5 DEF Gpu!Counting
<1>6. QED
  BY <1>3, <1>4, <1>5

\* What commands do depends on the resources there are.
LEMMA SameEffect ==
  ASSUME UNCHANGED <<shaders, textures, samplers, render_targets>>
  PROVE  \A e, c : Gpu!AskedFor(e, c)' = Gpu!AskedFor(e, c)
<1>1. ASSUME NEW op, NEW w PROVE Gpu!Target(op, w)' = Gpu!Target(op, w)
  BY DEF Gpu!Target, Gpu!computeShader, Gpu!Nowhere
<1>2. QED
  BY <1>1 DEF Gpu!AskedFor, Gpu!Binding, Gpu!Counting

-----------------------------------------------------------------------------
(* The words of a buffer.                                                  *)

\* f holds the first k of the sequences s laid one after the other.
AreLaid(f, s, k) ==
  f = [i \in 1 .. k |-> IF i = 1 THEN s[i] ELSE f[i - 1] \o s[i]]

LEMMA LaidExist ==
  ASSUME NEW s, NEW l \in Nat
  PROVE  \E f : AreLaid(f, s, l)
<1> DEFINE Bad == {k \in Nat : ~\E f : AreLaid(f, s, k)}
<1> SUFFICES ASSUME Bad # {} PROVE FALSE
  OBVIOUS
<1>1. PICK k \in Bad : \A j \in Bad : k <= j
  BY FirstPlace
<1>2. CASE k = 0
  <2> DEFINE f == [i \in 1 .. 0 |-> s]
  <2>1. \A i \in 1 .. 0 : FALSE
    OBVIOUS
  <2>2. f = [i \in 1 .. 0 |-> IF i = 1 THEN s[i] ELSE f[i - 1] \o s[i]]
    BY <2>1
  <2>3. AreLaid(f, s, 0)
    BY <2>2, Zenon DEF AreLaid
  <2>4. QED
    BY <1>1, <1>2, <2>3
<1>3. CASE k # 0
  <2>1. k - 1 \in Nat /\ ~(k <= k - 1) /\ k \in Nat
    BY <1>1, <1>3
  <2>2. PICK g : AreLaid(g, s, k - 1)
    BY <1>1, <2>1
  <2> DEFINE f == [i \in 1 .. k |-> IF i = k THEN (IF k = 1 THEN s[k] ELSE g[k - 1] \o s[k])
                                    ELSE g[i]]
  <2>3. \A i \in 1 .. k - 1 : g[i] = IF i = 1 THEN s[i] ELSE g[i - 1] \o s[i]
    BY <2>2 DEF AreLaid
  <2>4. \A i \in 1 .. k : i # 1 => i - 1 \in 1 .. k /\ i - 1 # k /\ f[i - 1] = g[i - 1]
    BY <2>1
  <2>5. \A i \in 1 .. k : f[i] = IF i = 1 THEN s[i] ELSE f[i - 1] \o s[i]
    <3> SUFFICES ASSUME NEW i \in 1 .. k
                 PROVE  f[i] = IF i = 1 THEN s[i] ELSE f[i - 1] \o s[i]
      OBVIOUS
    <3>1. CASE i = k
      BY <2>1, <2>4, <3>1
    <3>2. CASE i # k
      <4>1. i \in 1 .. k - 1 /\ f[i] = g[i]
        BY <2>1, <3>2
      <4>2. QED
        BY <2>3, <2>4, <4>1
    <3>3. QED
      BY <3>1, <3>2
  <2>6. f = [i \in 1 .. k |-> f[i]]
    OBVIOUS
  <2> HIDE DEF f
  <2>7. f = [i \in 1 .. k |-> IF i = 1 THEN s[i] ELSE f[i - 1] \o s[i]]
    BY <2>5, <2>6
  <2>8. AreLaid(f, s, k)
    BY <2>7, Zenon DEF AreLaid
  <2>9. QED
    BY <1>1, <2>8
<1>4. QED
  BY <1>2, <1>3

\* The first k sequences of s are laid in w, and e says where each ends.
Laid(w, e, s, k) ==
  /\ w \in Seq(Nat) /\ Len(w) = e[k]
  /\ \A i \in 1 .. k :
       /\ e[i - 1] \in Nat /\ e[i] = e[i - 1] + Len(s[i]) /\ e[i] <= e[k]
       /\ \A m \in 1 .. Len(s[i]) : w[e[i - 1] + m] = s[i][m]

\* One sequence more.
LEMMA LaidNext ==
  ASSUME NEW s, NEW k \in Nat, NEW w, NEW e, Laid(w, e, s, k), e[k] \in Nat,
         s[k + 1] \in Seq(Nat), e[k + 1] = Len(w \o s[k + 1])
  PROVE  Laid(w \o s[k + 1], e, s, k + 1)
<1>1. PICK a \in Seq(Nat) : a = w
  BY DEF Laid
<1>2. PICK b \in Seq(Nat) : b = s[k + 1]
  OBVIOUS
<1>3. /\ a \o b \in Seq(Nat) /\ Len(a \o b) = Len(a) + Len(b)
      /\ \A x \in 1 .. Len(a) + Len(b) :
           (a \o b)[x] = IF x <= Len(a) THEN a[x] ELSE b[x - Len(a)]
  BY ConcatProperties
<1>4. \A x \in 1 .. Len(a) : (a \o b)[x] = a[x]
  BY <1>3
<1>5. \A x \in 1 .. Len(b) : (a \o b)[Len(a) + x] = b[x]
  BY <1>3
<1>6. /\ e[k] = Len(a) /\ Len(a) \in Nat /\ Len(b) \in Nat
      /\ e[k + 1] = e[k] + Len(b)
  BY <1>1, <1>2, <1>3 DEF Laid
<1>7. ASSUME NEW i \in 1 .. k + 1
      PROVE  /\ e[i - 1] \in Nat /\ e[i] = e[i - 1] + Len(s[i]) /\ e[i] <= e[k + 1]
             /\ \A m \in 1 .. Len(s[i]) : (a \o b)[e[i - 1] + m] = s[i][m]
  <2>1. CASE i = k + 1
    <3>1. i - 1 = k /\ e[i - 1] = e[k] /\ s[i] = b /\ e[i] = e[k + 1]
      BY <1>2, <2>1
    <3>2. \A m \in 1 .. Len(s[i]) : (a \o b)[e[k] + m] = s[i][m]
      <4>1. \A m \in 1 .. Len(b) : (a \o b)[e[k] + m] = b[m]
        BY <1>5, <1>6
      <4>2. QED
        BY <3>1, <4>1, Zenon
    <3>3. e[k] \in Nat /\ e[i] = e[k] + Len(s[i]) /\ e[i] <= e[k + 1]
      BY <1>6, <3>1
    <3>4. QED
      BY <3>1, <3>2, <3>3, Zenon
  <2>2. CASE i # k + 1
    <3>1. i \in 1 .. k
      BY <2>2
    <3>2. /\ e[i - 1] \in Nat /\ e[i] = e[i - 1] + Len(s[i]) /\ e[i] <= e[k]
          /\ \A m \in 1 .. Len(s[i]) : a[e[i - 1] + m] = s[i][m]
      BY <1>1, <3>1 DEF Laid
    <3>3. Len(s[i]) \in Nat /\ e[i] \in Nat
      <4>1. i = 1 \/ i # 1
        OBVIOUS
      <4>2. QED
        BY <3>2, <4>1
    <3>4. \A m \in 1 .. Len(s[i]) : e[i - 1] + m \in 1 .. Len(a)
      <4>1. PICK x \in Nat : x = e[i - 1]
        BY <3>2
      <4>2. PICK z \in Nat : z = Len(s[i])
        BY <3>3
      <4>3. x + z <= Len(a)
        BY <1>6, <3>2, <4>1, <4>2
      <4>4. \A m \in 1 .. z : x + m \in 1 .. Len(a)
        BY <1>6, <4>3
      <4>5. QED
        BY <4>1, <4>2, <4>4
    <3>5. \A m \in 1 .. Len(s[i]) : (a \o b)[e[i - 1] + m] = a[e[i - 1] + m]
      BY <1>4, <3>4, Zenon
    <3>6. e[i] <= e[k + 1]
      <4>1. PICK x \in Nat : x = e[i]
        BY <3>3
      <4>2. x <= Len(a)
        BY <1>6, <3>2, <4>1
      <4>3. x <= Len(a) + Len(b)
        BY <1>6, <4>2
      <4>4. QED
        BY <1>6, <4>1, <4>3
    <3>7. QED
      BY <3>2, <3>5, <3>6, Zenon
  <2>3. QED
    BY <2>1, <2>2
<1>8. QED
  BY <1>1, <1>2, <1>3, <1>6, <1>7 DEF Laid

\* FlattenSeq lays its sequences one after the other.
LEMMA FlatIs ==
  ASSUME NEW s \in Seq(Seq(Nat)), Len(s) > 0
  PROVE  \E e \in [0 .. Len(s) -> Nat] :
            e[0] = 0 /\ Laid(Gpu!FlattenSeq(s), e, s, Len(s))
<1> DEFINE g == CHOOSE f : AreLaid(f, s, Len(s))
<1>1. PICK l \in Nat : l = Len(s) /\ l > 0
  OBVIOUS
<1>2. AreLaid(g, s, l)
  BY <1>1, LaidExist, Zenon
<1>3. Gpu!FlattenSeq(s) = g[l]
  <2>1. Len(s) # 0
    BY <1>1
  <2>2. QED
    BY <1>1, <2>1, Zenon DEF Gpu!FlattenSeq, AreLaid
<1> HIDE DEF g
<1>4. \A i \in 1 .. l : g[i] = IF i = 1 THEN s[i] ELSE g[i - 1] \o s[i]
  BY <1>2 DEF AreLaid
<1>5. \A i \in 1 .. l : s[i] \in Seq(Nat) /\ Len(s[i]) \in Nat
  BY <1>1
<1> DEFINE e == [i \in 0 .. l |-> IF i = 0 THEN 0 ELSE Len(g[i])]
<1>6. /\ e[0] = 0 /\ \A i \in 1 .. l : e[i] = Len(g[i])
      /\ e = [i \in 0 .. l |-> e[i]]
  OBVIOUS
<1> HIDE DEF e
<1> DEFINE Bad == {k \in 1 .. l : ~(Laid(g[k], e, s, k) /\ e[k] \in Nat)}
<1>7. Bad = {}
  <2> SUFFICES ASSUME Bad # {} PROVE FALSE
    OBVIOUS
  <2>1. Bad \in SUBSET Nat
    BY <1>1
  <2>2. PICK k \in Bad : \A j \in Bad : k <= j
    BY <2>1, FirstPlace
  <2>3. k \in 1 .. l /\ ~(Laid(g[k], e, s, k) /\ e[k] \in Nat)
    OBVIOUS
  <2>4. \A j \in 1 .. l : j < k => Laid(g[j], e, s, j) /\ e[j] \in Nat
    BY <1>1, <2>2
  <2> HIDE DEF Bad
  <2>5. CASE k = 1
    <3>1. g[1] = s[1] /\ s[1] \in Seq(Nat) /\ Len(s[1]) \in Nat /\ e[1] = Len(s[1])
      BY <1>4, <1>5, <1>6, <2>3, <2>5
    <3>2. Laid(g[1], e, s, 1) /\ e[1] \in Nat
      BY <1>6, <3>1 DEF Laid
    <3>3. QED
      BY <2>3, <2>5, <3>2
  <2>6. CASE k # 1
    <3>1. k - 1 \in 1 .. l /\ k - 1 < k /\ k - 1 \in Nat /\ (k - 1) + 1 = k
      BY <2>3, <2>6
    <3>2. Laid(g[k - 1], e, s, k - 1) /\ e[k - 1] \in Nat
      BY <2>4, <3>1
    <3>3. g[k] = g[k - 1] \o s[k] /\ s[k] \in Seq(Nat) /\ e[k] = Len(g[k])
      BY <1>4, <1>5, <1>6, <2>3, <2>6
    <3>4. Laid(g[k], e, s, k)
      BY <3>1, <3>2, <3>3, LaidNext
    <3>5. e[k] \in Nat
      <4>1. PICK w \in Seq(Nat) : w = g[k]
        BY <3>4, Zenon DEF Laid
      <4>2. Len(w) \in Nat
        OBVIOUS
      <4>3. QED
        BY <3>3, <4>1, <4>2, Zenon
    <3>6. QED
      BY <2>3, <3>4, <3>5
  <2>7. QED
    BY <2>5, <2>6
<1>8. \A k \in 1 .. l : Laid(g[k], e, s, k) /\ e[k] \in Nat
  BY <1>7
<1>9. e \in [0 .. l -> Nat]
  <2>1. \A i \in 0 .. l : i = 0 \/ i \in 1 .. l
    OBVIOUS
  <2>2. \A i \in 1 .. l : e[i] \in Nat
    <3>1. ASSUME NEW i \in 1 .. l PROVE Laid(g[i], e, s, i) /\ e[i] \in Nat
      BY <1>8, Zenon
    <3>2. QED
      BY <3>1
  <2>3. \A i \in 0 .. l : e[i] \in Nat
    <3>1. e[0] \in Nat
      BY <1>6
    <3>2. QED
      BY <2>1, <2>2, <3>1, Zenon
  <2>4. QED
    BY <1>6, <2>3
<1>10. l \in 1 .. l
  BY <1>1
<1>11. Laid(Gpu!FlattenSeq(s), e, s, l)
  BY <1>3, <1>8, <1>10, Zenon
<1>12. QED
  BY <1>1, <1>6, <1>9, <1>11, Zenon

\* A header, and the operands after it.
LEMMA WordsAre ==
  ASSUME NEW c \in Commands, NEW plain \in BOOLEAN
  PROVE  /\ Gpu!Words(c, plain) \in Seq(Nat)
         /\ Len(Gpu!Words(c, plain)) = Len(c.operands) + 1
         /\ Gpu!Words(c, plain)[1]
              = Gpu!Header(c.op, IF plain THEN 0 ELSE Len(c.operands) + 1)
         /\ \A m \in 1 .. Len(c.operands) : Gpu!Words(c, plain)[m + 1] = c.operands[m]
<1>1. PICK w \in Seq(Nat) : w = c.operands
  BY CommandIs
<1>2. PICK h : h = Gpu!Header(c.op, IF plain THEN 0 ELSE Len(c.operands) + 1)
  OBVIOUS
<1>3. h \in Nat
  <2>1. ASSUME NEW size \in Nat PROVE Gpu!Header(c.op, size) \in Nat
    <3>1. c.op \in Nat /\ c.op < 65536
      BY CommandIs
    <3>2. QED
      BY <3>1 DEF Gpu!Header
  <2>2. 0 \in Nat /\ Len(c.operands) + 1 \in Nat
    BY CommandIs
  <2>3. QED
    BY <1>2, <2>1, <2>2, Zenon
<1>4. <<h>> \in Seq(Nat) /\ Len(<<h>>) = 1 /\ <<h>>[1] = h
  BY <1>3
<1>5. Gpu!Words(c, plain) = <<h>> \o w
  BY <1>1, <1>2, Zenon DEF Gpu!Words
<1>6. /\ <<h>> \o w \in Seq(Nat) /\ Len(<<h>> \o w) = 1 + Len(w)
      /\ \A x \in 1 .. 1 + Len(w) :
           (<<h>> \o w)[x] = IF x <= 1 THEN <<h>>[x] ELSE w[x - 1]
  BY <1>4, ConcatProperties
<1>7. PICK v : v = <<h>> \o w
  OBVIOUS
<1>8. Len(w) \in Nat
  OBVIOUS
<1>9. v[1] = h /\ \A m \in 1 .. Len(w) : v[m + 1] = w[m]
  <2>1. \A x \in 1 .. 1 + Len(w) : v[x] = IF x <= 1 THEN <<h>>[x] ELSE w[x - 1]
    BY <1>6, <1>7
  <2>2. \A m \in 1 .. Len(w) : m + 1 \in 1 .. 1 + Len(w) /\ ~(m + 1 <= 1) /\ (m + 1) - 1 = m
    BY <1>8
  <2>3. 1 \in 1 .. 1 + Len(w)
    BY <1>8
  <2>4. v[1] = <<h>>[1]
    BY <2>1, <2>3
  <2>5. \A m \in 1 .. Len(w) : v[m + 1] = w[(m + 1) - 1]
    BY <2>1, <2>2
  <2>6. QED
    BY <1>4, <2>2, <2>4, <2>5
<1>10. /\ v \in Seq(Nat) /\ Len(v) = Len(w) + 1
  BY <1>6, <1>7, <1>8
<1>11. QED
  BY <1>1, <1>2, <1>5, <1>7, <1>9, <1>10, Zenon

\* W are the words of the commands cs, and e says where each ends.
Stream(W, e, cs, plain) ==
  /\ W \in Seq(Nat) /\ e[0] = 0 /\ e[Len(cs)] = Len(W)
  /\ \A i \in 1 .. Len(cs) :
       /\ e[i - 1] \in Nat /\ e[i] \in Nat
       /\ e[i] = (e[i - 1] + 1) + Len(cs[i].operands) /\ e[i] <= Len(W)
       /\ W[e[i - 1] + 1]
            = Gpu!Header(cs[i].op, IF plain THEN 0 ELSE Len(cs[i].operands) + 1)
       /\ \A m \in 1 .. Len(cs[i].operands) :
            W[(e[i - 1] + 1) + m] = cs[i].operands[m]

LEMMA StreamExists ==
  ASSUME NEW cs \in Seq(Commands), Len(cs) > 0, NEW plain \in BOOLEAN, NEW W,
         W = Gpu!AllWords(cs, plain)
  PROVE  \E e : Stream(W, e, cs, plain)
<1> DEFINE s == [i \in 1 .. Len(cs) |-> Gpu!Words(cs[i], plain)]
<1>1. PICK n \in Nat : n = Len(cs) /\ n > 0
  OBVIOUS
<1>2. \A i \in 1 .. n : cs[i] \in Commands
  BY <1>1
<1>3. \A i \in 1 .. n : s[i] = Gpu!Words(cs[i], plain)
  BY <1>1
<1>4. \A i \in 1 .. n : s[i] \in Seq(Nat)
  <2>1. ASSUME NEW i \in 1 .. n PROVE Gpu!Words(cs[i], plain) \in Seq(Nat)
    BY <1>2, WordsAre, Zenon
  <2>2. QED
    BY <1>3, <2>1, Zenon
<1>5. s = [i \in 1 .. n |-> s[i]]
  BY <1>1
<1>6. DOMAIN cs = 1 .. n
  BY <1>1
<1>7. W = Gpu!FlattenSeq(s)
  BY <1>1, <1>6, Zenon DEF Gpu!AllWords
<1> HIDE DEF s
<1>8. s \in Seq(Seq(Nat)) /\ Len(s) = n
  <2>1. s \in [1 .. n -> Seq(Nat)]
    BY <1>4, <1>5
  <2>2. s \in Seq(Seq(Nat))
    <3>1. \E m \in Nat : s \in [1 .. m -> Seq(Nat)]
      BY <2>1
    <3>2. s \in UNION {[1 .. m -> Seq(Nat)] : m \in Nat}
      BY <3>1, Zenon
    <3>3. QED
      BY <3>2, SeqDef, Zenon
  <2>3. DOMAIN s = 1 .. n
    BY <2>1, Zenon
  <2>4. Len(s) \in Nat /\ DOMAIN s = 1 .. Len(s)
    BY <2>2, LenProperties, Zenon
  <2>5. Len(s) = n
    BY <1>1, <2>3, <2>4
  <2>6. QED
    BY <2>2, <2>5
<1>9. PICK e \in [0 .. n -> Nat] : e[0] = 0 /\ Laid(W, e, s, n)
  <2>1. Len(s) > 0
    BY <1>1, <1>8
  <2>2. QED
    BY <1>7, <1>8, <2>1, FlatIs, Zenon
<1>10. W \in Seq(Nat) /\ Len(W) = e[n]
  BY <1>9, Zenon DEF Laid
<1>11. \A i \in 1 .. n :
         /\ e[i - 1] \in Nat /\ e[i] = e[i - 1] + Len(s[i]) /\ e[i] <= e[n]
         /\ \A m \in 1 .. Len(s[i]) : W[e[i - 1] + m] = s[i][m]
  BY <1>9, Zenon DEF Laid
<1>12. ASSUME NEW i \in 1 .. n
       PROVE  /\ e[i - 1] \in Nat /\ e[i] \in Nat
              /\ e[i] = (e[i - 1] + 1) + Len(cs[i].operands) /\ e[i] <= Len(W)
              /\ W[e[i - 1] + 1]
                   = Gpu!Header(cs[i].op, IF plain THEN 0 ELSE Len(cs[i].operands) + 1)
              /\ \A m \in 1 .. Len(cs[i].operands) :
                   W[(e[i - 1] + 1) + m] = cs[i].operands[m]
  <2>1. PICK c \in Commands : c = cs[i]
    BY <1>2
  <2>2. PICK l \in Nat : l = Len(c.operands)
    BY CommandIs
  <2>3. /\ Len(s[i]) = l + 1
        /\ s[i][1] = Gpu!Header(c.op, IF plain THEN 0 ELSE l + 1)
        /\ \A m \in 1 .. l : s[i][m + 1] = c.operands[m]
    <3>1. s[i] = Gpu!Words(c, plain)
      BY <1>3, <2>1, Zenon
    <3>2. QED
      BY <2>2, <3>1, WordsAre, Zenon
  <2>4. PICK x \in Nat : x = e[i - 1]
    BY <1>11
  <2>5. e[i] = x + (l + 1) /\ e[i] <= e[n] /\ e[i] \in Nat
    <3>1. i \in 0 .. n
      OBVIOUS
    <3>2. QED
      BY <1>11, <2>3, <2>4, <3>1
  <2>6. \A m \in 1 .. l + 1 : W[x + m] = s[i][m]
    BY <1>11, <2>3, <2>4, Zenon
  <2>7. W[x + 1] = s[i][1]
    BY <2>6
  <2>8. \A m \in 1 .. l : W[(x + 1) + m] = s[i][m + 1]
    <3>1. \A m \in 1 .. l : m + 1 \in 1 .. l + 1 /\ x + (m + 1) = (x + 1) + m
      OBVIOUS
    <3>2. QED
      BY <2>6, <3>1
  <2>9. /\ W[x + 1] = Gpu!Header(c.op, IF plain THEN 0 ELSE l + 1)
        /\ \A m \in 1 .. l : W[(x + 1) + m] = c.operands[m]
    BY <2>3, <2>7, <2>8, Zenon
  <2>10. e[i] = (x + 1) + l
    BY <2>5
  <2>11. e[i] <= Len(W)
    BY <1>10, <2>5
  <2>12. QED
    BY <2>1, <2>2, <2>4, <2>5, <2>9, <2>10, <2>11, Zenon
<1>13. e[0] = 0 /\ e[Len(cs)] = Len(W) /\ 1 .. n = 1 .. Len(cs)
  BY <1>1, <1>9, <1>10, Zenon
<1>14. Stream(W, e, cs, plain)
  BY <1>10, <1>12, <1>13, Zenon DEF Stream
<1>15. QED
  BY <1>14

\* The commands end one after the other.
LEMMA Ascending ==
  ASSUME NEW cs \in Seq(Commands), NEW plain, NEW W, NEW e, Stream(W, e, cs, plain),
         NEW i \in 0 .. Len(cs), NEW j \in 0 .. Len(cs), i <= j
  PROVE  e[i] \in Nat /\ e[j] \in Nat /\ e[i] <= e[j]
<1>1. PICK n \in Nat : n = Len(cs)
  OBVIOUS
<1>2. \A m \in 1 .. n : e[m - 1] \in Nat /\ e[m] \in Nat /\ e[m - 1] < e[m]
  <2> SUFFICES ASSUME NEW m \in 1 .. n
               PROVE  e[m - 1] \in Nat /\ e[m] \in Nat /\ e[m - 1] < e[m]
    OBVIOUS
  <2>1. cs[m] \in Commands
    BY <1>1
  <2>2. PICK k \in Nat : k = Len(cs[m].operands)
    BY <2>1, CommandIs
  <2>3. e[m - 1] \in Nat /\ e[m] \in Nat /\ e[m] = (e[m - 1] + 1) + k
    BY <1>1, <2>2 DEF Stream
  <2>4. QED
    BY <2>3
<1>3. \A m \in 0 .. n : e[m] \in Nat
  <2>1. e[0] \in Nat
    BY DEF Stream
  <2>2. \A m \in 0 .. n : m = 0 \/ m \in 1 .. n
    OBVIOUS
  <2>3. QED
    BY <1>2, <2>1, <2>2
<1> DEFINE Bad == {m \in Nat : m <= n /\ i <= m /\ ~(e[i] <= e[m])}
<1>4. Bad = {}
  <2> SUFFICES ASSUME Bad # {} PROVE FALSE
    OBVIOUS
  <2>1. PICK m \in Bad : \A y \in Bad : m <= y
    BY FirstPlace
  <2>2. m # i /\ m \in 1 .. n /\ m - 1 \in Nat /\ m - 1 <= n /\ i <= m - 1
    BY <1>1, <1>3, <2>1
  <2>3. e[i] <= e[m - 1]
    <3>1. m - 1 \notin Bad
      BY <2>1, <2>2
    <3>2. QED
      BY <2>2, <3>1
  <2>4. e[i] \in Nat /\ e[m - 1] \in Nat /\ e[m] \in Nat /\ e[m - 1] < e[m]
    BY <1>1, <1>2, <1>3, <2>2
  <2>5. e[i] <= e[m]
    BY <2>3, <2>4
  <2>6. QED
    BY <2>1, <2>5
<1>5. QED
  BY <1>1, <1>3, <1>4

\* Where the first n commands end.
LEMMA EndIs ==
  ASSUME NEW cs \in Seq(Commands), NEW plain \in BOOLEAN, NEW W, NEW e,
         Stream(W, e, cs, plain), NEW n \in 0 .. Len(cs)
  PROVE  Gpu!End(cs, plain, n) = e[n]
<1>1. PICK s \in Seq(Commands) : s = SubSeq(cs, 1, n)
  <2>1. PICK z \in Nat : z = Len(cs) /\ n \in Nat /\ n <= z
    OBVIOUS
  <2>2. \A i \in 1 .. n : cs[i] \in Commands
    BY <2>1
  <2>3. SubSeq(cs, 1, n) \in Seq(Commands)
    BY <2>1, <2>2, SubSeqProperties
  <2>4. QED
    BY <2>3
<1>2. Len(s) = n /\ \A i \in 1 .. n : s[i] = cs[i]
  BY <1>1
<1>3. Gpu!End(cs, plain, n) = Len(Gpu!AllWords(s, plain))
  BY <1>1 DEF Gpu!End
<1>4. CASE n = 0
  <2>1. s = <<>>
    BY <1>2, <1>4, EmptySeq
  <2> DEFINE v == [i \in DOMAIN s |-> Gpu!Words(s[i], plain)]
  <2>2. v = <<>> /\ Len(v) = 0
    BY <2>1
  <2>3. Gpu!AllWords(s, plain) = Gpu!FlattenSeq(v)
    BY Zenon DEF Gpu!AllWords
  <2> HIDE DEF v
  <2>4. Gpu!FlattenSeq(v) = v
    BY <2>2, Zenon DEF Gpu!FlattenSeq
  <2>5. e[0] = 0
    BY DEF Stream
  <2>6. QED
    BY <1>3, <1>4, <2>2, <2>3, <2>4, <2>5, Zenon
<1>5. CASE n # 0
  <2>1. Len(s) > 0
    BY <1>2, <1>5
  <2>2. PICK f : Stream(Gpu!AllWords(s, plain), f, s, plain)
    BY <2>1, StreamExists
  <2>3. f[0] = 0 /\ f[n] = Len(Gpu!AllWords(s, plain)) /\ e[0] = 0
    BY <1>2, <2>2 DEF Stream
  <2>4. \A i \in 1 .. n : /\ f[i] = (f[i - 1] + 1) + Len(cs[i].operands)
                         /\ e[i] = (e[i - 1] + 1) + Len(cs[i].operands)
    <3>1. \A i \in 1 .. n : f[i] = (f[i - 1] + 1) + Len(s[i].operands)
      BY <1>2, <2>2 DEF Stream
    <3>2. \A i \in 1 .. n : e[i] = (e[i - 1] + 1) + Len(cs[i].operands)
      BY DEF Stream
    <3>3. QED
      BY <1>2, <3>1, <3>2
  <2> DEFINE Bad == {m \in Nat : m <= n /\ f[m] # e[m]}
  <2>5. Bad = {}
    <3> SUFFICES ASSUME Bad # {} PROVE FALSE
      OBVIOUS
    <3>1. PICK m \in Bad : \A y \in Bad : m <= y
      BY FirstPlace
    <3>2. m # 0 /\ m \in 1 .. n /\ m - 1 \in Nat /\ m - 1 <= n /\ ~(m <= m - 1)
      BY <2>3, <3>1
    <3>3. f[m - 1] = e[m - 1]
      BY <3>1, <3>2
    <3>4. f[m] = e[m]
      BY <2>4, <3>2, <3>3
    <3>5. QED
      BY <3>1, <3>4
  <2>6. f[n] = e[n]
    BY <2>5
  <2>7. QED
    BY <1>3, <2>3, <2>6
<1>6. QED
  BY <1>4, <1>5

\* What has been asked for after each command.
\* g holds what has been asked for after each of the first n commands.
AreAsked(g, e0, cs, n) ==
  g = [i \in 0 .. n |-> IF i = 0 THEN e0 ELSE Gpu!AskedFor(g[i - 1], cs[i])]

LEMMA AskedExists ==
  ASSUME NEW e0, NEW cs, NEW n \in Nat
  PROVE  \E g : AreAsked(g, e0, cs, n)
<1> DEFINE Bad == {k \in Nat : ~\E g : AreAsked(g, e0, cs, k)}
<1> SUFFICES ASSUME Bad # {} PROVE FALSE
  OBVIOUS
<1>1. PICK k \in Bad : \A j \in Bad : k <= j
  BY FirstPlace
<1>2. CASE k = 0
  <2> DEFINE f == [i \in 0 .. 0 |-> e0]
  <2>1. f = [i \in 0 .. 0 |-> IF i = 0 THEN e0 ELSE Gpu!AskedFor(f[i - 1], cs[i])]
    OBVIOUS
  <2>2. AreAsked(f, e0, cs, 0)
    BY <2>1, Zenon DEF AreAsked
  <2>3. QED
    BY <1>1, <1>2, <2>2
<1>3. CASE k # 0
  <2>1. k - 1 \in Nat /\ ~(k <= k - 1) /\ k \in Nat
    BY <1>1, <1>3
  <2>2. PICK g : AreAsked(g, e0, cs, k - 1)
    BY <1>1, <2>1
  <2> DEFINE f == [i \in 0 .. k |-> IF i = k THEN Gpu!AskedFor(g[k - 1], cs[k]) ELSE g[i]]
  <2>3. \A i \in 0 .. k - 1 : g[i] = IF i = 0 THEN e0 ELSE Gpu!AskedFor(g[i - 1], cs[i])
    BY <2>2 DEF AreAsked
  <2>4. \A i \in 0 .. k : i # 0 => i - 1 \in 0 .. k /\ i - 1 # k /\ f[i - 1] = g[i - 1]
    BY <2>1
  <2>5. \A i \in 0 .. k : f[i] = IF i = 0 THEN e0 ELSE Gpu!AskedFor(f[i - 1], cs[i])
    <3> SUFFICES ASSUME NEW i \in 0 .. k
                 PROVE  f[i] = IF i = 0 THEN e0 ELSE Gpu!AskedFor(f[i - 1], cs[i])
      OBVIOUS
    <3>1. CASE i = k
      BY <1>3, <2>1, <2>4, <3>1
    <3>2. CASE i # k
      <4>1. i \in 0 .. k - 1 /\ f[i] = g[i]
        BY <2>1, <3>2
      <4>2. QED
        BY <2>3, <2>4, <4>1
    <3>3. QED
      BY <3>1, <3>2
  <2>6. f = [i \in 0 .. k |-> f[i]]
    OBVIOUS
  <2> HIDE DEF f
  <2>7. f = [i \in 0 .. k |-> IF i = 0 THEN e0 ELSE Gpu!AskedFor(f[i - 1], cs[i])]
    BY <2>5, <2>6
  <2>8. AreAsked(f, e0, cs, k)
    BY <2>7, Zenon DEF AreAsked
  <2>9. QED
    BY <1>1, <2>8
<1>4. QED
  BY <1>2, <1>3

\* It starts with what was asked for before, and ends with AskedForAll.
LEMMA AskedForAllIs ==
  ASSUME NEW e0, NEW cs, Len(cs) \in Nat
  PROVE  \E g : /\ g[0] = e0 /\ g[Len(cs)] = Gpu!AskedForAll(e0, cs)
                /\ \A i \in 1 .. Len(cs) : g[i] = Gpu!AskedFor(g[i - 1], cs[i])
<1> DEFINE h == CHOOSE g : AreAsked(g, e0, cs, Len(cs))
<1>1. AreAsked(h, e0, cs, Len(cs))
  <2>1. \E g : AreAsked(g, e0, cs, Len(cs))
    BY AskedExists
  <2>2. QED
    BY <2>1, Zenon
<1>2. Gpu!AskedForAll(e0, cs) = h[Len(cs)]
  BY Zenon DEF Gpu!AskedForAll, AreAsked
<1> HIDE DEF h
<1>3. /\ h[0] = e0
      /\ \A i \in 1 .. Len(cs) : h[i] = Gpu!AskedFor(h[i - 1], cs[i])
  <2>1. \A i \in 0 .. Len(cs) : h[i] = IF i = 0 THEN e0 ELSE Gpu!AskedFor(h[i - 1], cs[i])
    BY <1>1 DEF AreAsked
  <2>2. QED
    BY <2>1
<1>4. QED
  BY <1>2, <1>3

-----------------------------------------------------------------------------
(* The invariant of the decoder.                                           *)

\* What is bound, and what is drawn or counted for the end of the buffer.
Effects == [bound |-> bound, total |-> Plus(total, counted)]

\* What was submitted: the commands cs, of which kept words are kept and n
\* commands are whole, and what should have been done after each of these.
Submitted(W, e, cs, plain, kept, n, g) ==
  /\ cs \in Seq(Commands) /\ plain \in BOOLEAN /\ kept \in Nat /\ kept <= Len(W)
  /\ n \in 0 .. Len(cs) /\ e[n] <= kept /\ (n < Len(cs) => kept < e[n + 1])
  /\ plain => /\ \A i \in 1 .. Len(cs) : Gpu!Harmless(cs[i])
              /\ n < Len(cs) => Gpu!Optional(cs[n + 1].op) = 0
  /\ Stream(W, e, cs, plain)
  /\ \A i \in 1 .. n : g[i] = Gpu!AskedFor(g[i - 1], cs[i])
  /\ expected = g[n]

\* What is left are the words from p on.
LeftFrom(W, kept, p) ==
  /\ p \in Nat /\ p <= kept
  /\ buffer \in Seq(Nat) /\ Len(buffer) = kept - p
  /\ \A j \in 1 .. Len(buffer) : buffer[j] = W[p + j]

\* The decoder has begun d commands, and is before the next or, without
\* lengths, among the operands of the last it began.
Decoding(W, e, cs, plain, kept, n, g, d, p) ==
  /\ LeftFrom(W, kept, p)
  /\ d \in 0 .. Len(cs) /\ d <= n + 1
  /\ p = e[d] \/ (plain /\ d # 0 /\ e[d - 1] < p /\ p < e[d])
  /\ Effects = g[IF d <= n THEN d ELSE n]

\* A turn that takes size words leaves the buffer from p + size on.
LEMMA RestIs ==
  ASSUME NEW W, NEW kept \in Nat, NEW p, LeftFrom(W, kept, p),
         NEW size \in Nat, size <= Len(buffer),
         buffer' = SubSeq(buffer, size + 1, Len(buffer))
  PROVE  LeftFrom(W, kept, p + size)'
<1>1. PICK b \in Seq(Nat) : b = buffer
  BY DEF LeftFrom
<1>2. PICK l \in Nat : l = Len(b)
  OBVIOUS
<1>3. PICK v \in Seq(Nat) : v = SubSeq(b, size + 1, l)
  <2>1. \A i \in size + 1 .. l : b[i] \in Nat
    BY <1>2
  <2>2. SubSeq(b, size + 1, l) \in Seq(Nat)
    BY <1>2, <2>1, SubSeqProperties
  <2>3. QED
    BY <2>2
<1>4. Len(v) = l - size /\ \A j \in 1 .. l - size : v[j] = b[size + j]
  <2>1. v = SubSeq(b, size + 1, l)
    BY <1>3
  <2>2. size <= l
    BY <1>1, <1>2
  <2>3. QED
    BY <1>2, <2>1, <2>2
<1>5. buffer' = v
  BY <1>1, <1>2, <1>3
<1>6. /\ p \in Nat /\ p <= kept /\ l = kept - p /\ size <= l
      /\ \A j \in 1 .. l : b[j] = W[p + j]
  BY <1>1, <1>2 DEF LeftFrom
<1>7. \A j \in 1 .. l - size : v[j] = W[(p + size) + j]
  <2>1. \A j \in 1 .. l - size : size + j \in 1 .. l /\ p + (size + j) = (p + size) + j
    BY <1>6
  <2>2. QED
    BY <1>4, <1>6, <2>1
<1>9. p + size \in Nat /\ p + size <= kept /\ l - size = kept - (p + size)
  BY <1>6
<1>10. \A j \in 1 .. Len(v) : v[j] = W[(p + size) + j]
  BY <1>4, <1>7, Zenon
<1>11. QED
  BY <1>4, <1>5, <1>9, <1>10, Zenon DEF LeftFrom

\* The operands a command takes are those it was submitted with.
LEMMA OperandsRead ==
  ASSUME NEW b \in Seq(Nat), NEW w \in Seq(Nat), Len(w) + 1 <= Len(b),
         \A m \in 1 .. Len(w) : b[m + 1] = w[m]
  PROVE  SubSeq(b \o <<0>>, 2, Len(w) + 1) = w
<1>1. PICK k \in Nat : k = Len(w)
  OBVIOUS
<1>2. PICK l \in Nat : l = Len(b)
  BY LenProperties
<1>3. PICK y \in Seq(Nat) : y = <<0>> /\ Len(y) = 1
  <2>1. <<0>> \in Seq(Nat) /\ Len(<<0>>) = 1
    OBVIOUS
  <2>2. QED
    BY <2>1
<1>4. PICK z \in Seq(Nat) : z = b \o <<0>> /\ \A x \in 1 .. l : z[x] = b[x]
  <2>1. /\ b \o y \in Seq(Nat)
        /\ \A x \in 1 .. l + 1 : (b \o y)[x] = IF x <= l THEN b[x] ELSE y[x - l]
    BY <1>2, <1>3, ConcatProperties
  <2>2. \A x \in 1 .. l : x \in 1 .. l + 1 /\ x <= l
    OBVIOUS
  <2>3. \A x \in 1 .. l : (b \o y)[x] = b[x]
    BY <2>1, <2>2
  <2>4. QED
    BY <1>3, <2>1, <2>3
<1>5. \A m \in 1 .. k : m + 1 \in 1 .. l /\ z[m + 1] = w[m]
  <2>1. k + 1 <= l
    BY <1>1, <1>2
  <2>2. \A m \in 1 .. k : m + 1 \in 1 .. l
    BY <2>1
  <2>3. \A m \in 1 .. k : b[m + 1] = w[m]
    BY <1>1
  <2>4. QED
    BY <1>4, <2>2, <2>3
<1>6. PICK v : v = SubSeq(z, 2, k + 1)
  OBVIOUS
<1>7. v \in Seq(Nat) /\ Len(v) = k /\ \A m \in 1 .. k : v[m] = z[m + 1]
  <2>1. \A i \in 2 .. k + 1 : z[i] \in Nat
    <3>1. \A i \in 2 .. k + 1 : i - 1 \in 1 .. k /\ (i - 1) + 1 = i
      OBVIOUS
    <3>2. \A m \in 1 .. k : w[m] \in Nat
      BY <1>1
    <3>3. QED
      BY <1>5, <3>1, <3>2
  <2>2. /\ v \in Seq(Nat)
        /\ Len(v) = IF 2 <= k + 1 THEN ((k + 1) - 2) + 1 ELSE 0
        /\ \A i \in 1 .. ((k + 1) - 2) + 1 : v[i] = z[(2 + i) - 1]
    BY <1>6, <2>1, SubSeqProperties
  <2>3. \A m \in 1 .. k : m \in 1 .. ((k + 1) - 2) + 1 /\ (2 + m) - 1 = m + 1
    OBVIOUS
  <2>4. QED
    BY <2>2, <2>3
<1>8. \A m \in 1 .. k : v[m] = w[m]
  BY <1>5, <1>7
<1>9. v = w
  BY <1>1, <1>7, <1>8, SeqEqual
<1>10. QED
  BY <1>1, <1>4, <1>6, <1>9

\* The decoder reads the header of the next command.
LEMMA AtHeader ==
  ASSUME NEW W, NEW e, NEW cs, NEW plain, NEW kept, NEW n, NEW g, NEW d, NEW p,
         Submitted(W, e, cs, plain, kept, n, g), LeftFrom(W, kept, p),
         d \in 0 .. Len(cs), p = e[d], buffer # <<>>
  PROVE  /\ d < Len(cs) /\ cs[d + 1] \in Commands
         /\ Gpu!Opcode = cs[d + 1].op
         /\ Gpu!Size = IF plain THEN 1 ELSE Len(cs[d + 1].operands) + 1
         /\ e[d + 1] = (p + 1) + Len(cs[d + 1].operands)
         /\ \A m \in 1 .. Len(cs[d + 1].operands) :
              m < Len(buffer) => buffer[m + 1] = cs[d + 1].operands[m]
<1>1. PICK z \in Nat : z = Len(cs)
  BY DEF Submitted
<1>2. PICK l \in Nat : l = Len(W) /\ e[z] = l /\ kept \in Nat /\ kept <= l
  BY <1>1 DEF Submitted, Stream
<1>3. PICK b \in Seq(Nat) : b = buffer
  BY DEF LeftFrom
<1>4. PICK k \in Nat : k = Len(b)
  OBVIOUS
<1>5. k # 0
  BY <1>3, <1>4
<1>6. /\ p \in Nat /\ p <= kept /\ k = kept - p
      /\ \A j \in 1 .. k : b[j] = W[p + j]
  BY <1>2, <1>3, <1>4 DEF LeftFrom
<1>7. d \in 0 .. z /\ d # z
  BY <1>1, <1>2, <1>5, <1>6
<1>8. d + 1 \in 1 .. z /\ (d + 1) - 1 = d /\ d < z
  BY <1>7
<1>9. PICK c \in Commands : c = cs[d + 1]
  BY <1>1, <1>8 DEF Submitted
<1>10. PICK a \in Nat : a = Len(c.operands)
  BY CommandIs
<1>11. /\ e[d + 1] = (p + 1) + a
       /\ W[p + 1] = Gpu!Header(c.op, IF plain THEN 0 ELSE a + 1)
       /\ \A m \in 1 .. a : W[(p + 1) + m] = c.operands[m]
  BY <1>1, <1>8, <1>9, <1>10 DEF Submitted, Stream
<1>12. b[1] = W[p + 1] /\ Head(b) = b[1]
  BY <1>4, <1>5, <1>6
<1>13. PICK x : x = Head(buffer)
  OBVIOUS
<1>14. x = Gpu!Header(c.op, IF plain THEN 0 ELSE a + 1)
  BY <1>3, <1>11, <1>12, <1>13
<1>15. c.op \in Nat /\ c.op < 65536
  BY CommandIs
<1>16. /\ x % 65536 = c.op
       /\ (IF x < 65536 THEN 1 ELSE x \div 65536) = IF plain THEN 1 ELSE a + 1
  <2>1. PICK o \in Nat : o = c.op /\ o < 65536
    BY <1>15
  <2>2. PICK s \in Nat : s = IF plain THEN 0 ELSE a + 1
    OBVIOUS
  <2>3. x = Gpu!Header(o, s)
    BY <1>14, <2>1, <2>2
  <2>4. x % 65536 = o /\ x \div 65536 = s /\ (x < 65536 <=> s = 0)
    BY <2>1, <2>3, HeaderParts
  <2>5. (IF x < 65536 THEN 1 ELSE x \div 65536) = IF s = 0 THEN 1 ELSE s
    BY <2>4
  <2>6. (IF s = 0 THEN 1 ELSE s) = IF plain THEN 1 ELSE a + 1
    BY <2>2
  <2>7. QED
    BY <2>1, <2>4, <2>5, <2>6
<1>17. \A m \in 1 .. a : m < k => b[m + 1] = c.operands[m]
  <2>1. \A m \in 1 .. a : m < k => m + 1 \in 1 .. k /\ p + (m + 1) = (p + 1) + m
    <3>1. p \in Nat
      BY <1>6
    <3>2. QED
      BY <3>1
  <2>2. ASSUME NEW m \in 1 .. a, m < k PROVE b[m + 1] = W[p + (m + 1)]
    BY <1>6, <2>1, <2>2, Zenon
  <2>3. QED
    BY <1>11, <2>1, <2>2, Zenon
<1>18. QED
  BY <1>1, <1>3, <1>4, <1>8, <1>9, <1>10, <1>11, <1>13, <1>16, <1>17
     DEF Gpu!Opcode, Gpu!Size

\* Without lengths, the decoder reads an operand as a header.
LEMMA AtOperand ==
  ASSUME NEW W, NEW e, NEW cs, NEW plain, NEW kept, NEW n, NEW g, NEW d, NEW p,
         Submitted(W, e, cs, plain, kept, n, g), LeftFrom(W, kept, p), plain,
         d \in 0 .. Len(cs), d # 0, e[d - 1] < p, p < e[d], buffer # <<>>
  PROVE  Gpu!Opcode \in Nat /\ Gpu!Operands(Gpu!Opcode) = 0 /\ Gpu!Size = 1
<1>1. PICK z \in Nat : z = Len(cs)
  BY DEF Submitted
<1>2. PICK b \in Seq(Nat) : b = buffer
  BY DEF LeftFrom
<1>3. p \in Nat /\ 1 \in 1 .. Len(b) /\ b[1] = W[p + 1]
  BY <1>2 DEF LeftFrom
<1>4. d \in 1 .. z
  BY <1>1
<1>5. PICK c \in Commands : c = cs[d]
  BY <1>1, <1>4 DEF Submitted
<1>6. PICK a \in Nat : a = Len(c.operands)
  BY CommandIs
<1>7. /\ e[d - 1] \in Nat /\ e[d] = (e[d - 1] + 1) + a
      /\ \A m \in 1 .. a : W[(e[d - 1] + 1) + m] = c.operands[m]
  BY <1>1, <1>4, <1>5, <1>6 DEF Submitted, Stream
<1>8. PICK m \in 1 .. a : p + 1 = (e[d - 1] + 1) + m
  <2>1. p - e[d - 1] \in 1 .. a /\ p + 1 = (e[d - 1] + 1) + (p - e[d - 1])
    <3>1. PICK q \in Nat : q = e[d - 1]
      BY <1>7
    <3>2. p \in Nat /\ q < p /\ p < (q + 1) + a
      BY <1>3, <1>7, <3>1
    <3>3. p - q \in 1 .. a /\ p + 1 = (q + 1) + (p - q)
      BY <3>2
    <3>4. QED
      BY <3>1, <3>3
  <2>2. QED
    BY <2>1
<1>9. PICK x : x = c.operands[m]
  OBVIOUS
<1>10. x \in Nat
  BY <1>6, <1>8, <1>9, CommandIs
<1>11. x < 65536 /\ Gpu!Operands(x) = 0
  <2>1. m \in 1 .. Len(c.operands)
    BY <1>6, <1>8
  <2>2. c.operands[m] < 65536 /\ Gpu!Operands(c.operands[m]) = 0
    BY <1>1, <1>4, <1>5, <2>1 DEF Submitted, Gpu!Harmless, Gpu!NoCommand
  <2>3. QED
    BY <1>9, <2>2
<1>12. Head(buffer) = x
  <2>1. Head(b) = b[1]
    BY <1>3
  <2>2. QED
    BY <1>2, <1>3, <1>7, <1>8, <1>9, <2>1
<1>13. x % 65536 = x
  BY <1>10, <1>11
<1>14. QED
  BY <1>10, <1>11, <1>12, <1>13 DEF Gpu!Opcode, Gpu!Size

\* A buffer of which something is promised is, while it is decoded, the rest
\* of one that was submitted, and what it has done is what the commands begun
\* ask for, one that is cut aside.
GpuInv ==
  /\ total \in Counts /\ counted \in Counts /\ busy \in BOOLEAN /\ buffer \in Seq(Nat)
  /\ ~busy => /\ counted = Gpu!NoCounts
              /\ promised => expected = [bound |-> bound, total |-> total]
  /\ busy /\ promised =>
       \E W, e, cs, plain, kept, n, g, d, p :
         /\ Submitted(W, e, cs, plain, kept, n, g)
         /\ Decoding(W, e, cs, plain, kept, n, g, d, p)

LEMMA NoneCounted ==
  ASSUME NEW t \in Counts
  PROVE  Gpu!NoCounts \in Counts /\ Plus(t, Gpu!NoCounts) = t
<1>1. t = [draw |-> t.draw, dispatch |-> t.dispatch] /\ t.draw \in Nat /\ t.dispatch \in Nat
  BY DEF Counts
<1>2. t.draw + 0 = t.draw /\ t.dispatch + 0 = t.dispatch
  BY <1>1
<1>3. QED
  BY <1>1, <1>2 DEF Counts, Plus, Gpu!NoCounts

\* A command takes effect.
LEMMA Effect ==
  ASSUME total \in Counts, counted \in Counts, NEW c \in Commands,
         bound' = Gpu!Binding(bound, c.op, c.operands),
         counted' = Gpu!Counting(counted, c.op, c.operands), total' = total
  PROVE  counted' \in Counts /\ Effects' = Gpu!AskedFor(Effects, c)
<1>1. /\ counted' \in Counts
      /\ Gpu!Counting(Plus(total, counted), c.op, c.operands) = Plus(total, counted')
  BY CommandIs, CountingAdds
<1>2. Effects.bound = bound /\ Effects.total = Plus(total, counted)
  BY DEF Effects
<1>3. Effects' = [bound |-> bound', total |-> Plus(total, counted')]
  BY DEF Effects, Plus
<1>4. QED
  BY <1>1, <1>2, <1>3, Zenon DEF Gpu!AskedFor

\* While a buffer runs no resource is made, and so what its commands ask for
\* stays what it was when it was submitted.
LEMMA SubmittedStays ==
  ASSUME NEW W, NEW e, NEW cs, NEW plain, NEW kept, NEW n, NEW g,
         Submitted(W, e, cs, plain, kept, n, g), expected' = expected,
         UNCHANGED <<shaders, textures, samplers, render_targets>>
  PROVE  Submitted(W, e, cs, plain, kept, n, g)'
<1>1. \A a, c : Gpu!AskedFor(a, c)' = Gpu!AskedFor(a, c)
  BY SameEffect
<1>2. \A i \in 1 .. n : g[i] = Gpu!AskedFor(g[i - 1], cs[i])'
  BY <1>1, Zenon DEF Submitted
<1>3. expected' = g[n]
  BY Zenon DEF Submitted
<1>4. /\ cs \in Seq(Commands) /\ plain \in BOOLEAN /\ kept \in Nat /\ kept <= Len(W)
      /\ n \in 0 .. Len(cs) /\ e[n] <= kept /\ (n < Len(cs) => kept < e[n + 1])
      /\ plain => /\ \A i \in 1 .. Len(cs) : Gpu!Harmless(cs[i])
                  /\ n < Len(cs) => Gpu!Optional(cs[n + 1].op) = 0
      /\ Stream(W, e, cs, plain)
  BY Zenon DEF Submitted
<1>5. QED
  BY <1>2, <1>3, <1>4, Zenon DEF Submitted

-----------------------------------------------------------------------------
(* The steps of the executor.                                              *)

\* What is counted stays a count, whatever is met as a command.
LEMMA CountsStay ==
  ASSUME GpuInv, Gpu!Command
  PROVE  counted' \in Counts /\ buffer' \in Seq(Nat)
<1>1. PICK b \in Seq(Nat) : b = buffer /\ b # <<>>
  BY DEF GpuInv, Gpu!Command
<1>2. PICK l \in Nat : l = Len(b) /\ l > 0
  BY <1>1
<1>3. PICK x \in Nat : x = Head(buffer)
  BY <1>1, <1>2
<1>4. Gpu!Size \in Nat /\ Gpu!Opcode \in Nat
  BY <1>3 DEF Gpu!Size, Gpu!Opcode
<1>5. buffer' \in Seq(Nat)
  <2>1. buffer' = SubSeq(b, Gpu!Size + 1, l)
    BY <1>1, <1>2 DEF Gpu!Command, Gpu!Rest
  <2>2. \A i \in Gpu!Size + 1 .. l : b[i] \in Nat
    BY <1>2, <1>4
  <2>3. QED
    BY <1>2, <1>4, <2>1, <2>2, SubSeqProperties
<1>6. PICK op \in Nat : op = Gpu!Opcode
  BY <1>4
<1>7. PICK k \in Nat : k = Gpu!Operands(op) + Gpu!Optional(op)
  BY <1>6, OperandsBound
<1>8. CASE Gpu!Operands(op) < Len(buffer)
  <2>1. PICK w : w = SubSeq(b \o <<0>>, 2, k + 1)
    OBVIOUS
  <2>2. k + 1 <= l + 1
    BY <1>1, <1>2, <1>7, <1>8, OperandsBound
  <2>3. PICK z \in Seq(Nat) : z = b \o <<0>> /\ Len(z) = l + 1
    <3>1. <<0>> \in Seq(Nat) /\ Len(<<0>>) = 1
      OBVIOUS
    <3>2. b \o <<0>> \in Seq(Nat) /\ Len(b \o <<0>>) = l + 1
      BY <1>2, <3>1, ConcatProperties
    <3>3. QED
      BY <3>2
  <2>4. \A i \in 2 .. k + 1 : z[i] \in Nat
    BY <2>2, <2>3
  <2>5. w \in Seq(Nat) /\ Len(w) = k
    <3>1. /\ w \in Seq(Nat)
          /\ Len(w) = IF 2 <= k + 1 THEN ((k + 1) - 2) + 1 ELSE 0
      <4>1. w = SubSeq(z, 2, k + 1) /\ 2 \in Int /\ k + 1 \in Int
        BY <2>1, <2>3
      <4>2. SubSeq(z, 2, k + 1) \in Seq(Nat)
        BY <2>3, <2>4, <4>1, SubSeqProperties
      <4>3. Len(SubSeq(z, 2, k + 1)) = IF 2 <= k + 1 THEN ((k + 1) - 2) + 1 ELSE 0
        BY <2>3, <2>4, <4>1, SubSeqProperties
      <4>4. QED
        BY <4>1, <4>2, <4>3
    <3>2. QED
      BY <3>1
  <2>6. counted' = Gpu!Counting(counted, op, w)
    <3>1. ~(Gpu!Operands(op) >= Len(buffer))
      BY <1>1, <1>2, <1>6, <1>8, OperandsBound
    <3>2. QED
      BY <1>1, <1>6, <1>7, <2>1, <3>1, Zenon DEF Gpu!Command
  <2>7. QED
    BY <1>5, <1>7, <2>5, <2>6, CountingAdds DEF GpuInv
<1>9. CASE ~(Gpu!Operands(op) < Len(buffer))
  <2>1. counted' = counted
    BY <1>6, <1>9, Zenon DEF Gpu!Command
  <2>2. QED
    BY <1>5, <2>1 DEF GpuInv
<1>10. QED
  BY <1>8, <1>9

\* A turn of the decoder: at a header it does what one more command asks for,
\* at an operand and at a command that was cut it does nothing.
LEMMA CommandStep ==
  ASSUME GpuInv, Gpu!Command
  PROVE  GpuInv'
<1> USE DEF Gpu!tables, Gpu!history
<1>1. /\ busy /\ buffer # <<>> /\ Gpu!Size <= Len(buffer)
      /\ buffer' = SubSeq(buffer, Gpu!Size + 1, Len(buffer))
      /\ total' = total /\ busy' = busy /\ expected' = expected /\ promised' = promised
      /\ UNCHANGED <<shaders, textures, samplers, render_targets>>
  BY DEF Gpu!Command, Gpu!Fits, Gpu!Rest
<1>2. \/ /\ Gpu!Operands(Gpu!Opcode) < Len(buffer)
         /\ \E w : /\ w = SubSeq(buffer \o <<0>>, 2,
                                 (Gpu!Operands(Gpu!Opcode) + Gpu!Optional(Gpu!Opcode)) + 1)
                   /\ bound' = Gpu!Binding(bound, Gpu!Opcode, w)
                   /\ counted' = Gpu!Counting(counted, Gpu!Opcode, w)
      \/ /\ Gpu!Operands(Gpu!Opcode) >= Len(buffer)
         /\ bound' = bound /\ counted' = counted
  BY Zenon DEF Gpu!Command
<1>3. total \in Counts /\ counted \in Counts /\ counted' \in Counts /\ buffer' \in Seq(Nat)
  BY CountsStay DEF GpuInv
<1>4. SUFFICES ASSUME promised
               PROVE  \E W, e, cs, plain, kept, n, g, d, p :
                        /\ Submitted(W, e, cs, plain, kept, n, g)'
                        /\ Decoding(W, e, cs, plain, kept, n, g, d, p)'
  BY <1>1, <1>3 DEF GpuInv
<1>5. PICK W, e, cs, plain, kept, n, g, d, p :
        /\ Submitted(W, e, cs, plain, kept, n, g)
        /\ Decoding(W, e, cs, plain, kept, n, g, d, p)
  BY <1>1, <1>4 DEF GpuInv
<1>6. LeftFrom(W, kept, p) /\ d \in 0 .. Len(cs) /\ d <= n + 1
  BY <1>5, Zenon DEF Decoding
<1>7. PICK z \in Nat : z = Len(cs)
  BY <1>5 DEF Submitted
<1>8. /\ cs \in Seq(Commands) /\ plain \in BOOLEAN /\ kept \in Nat
      /\ n \in 0 .. z /\ e[n] <= kept /\ (n < z => kept < e[n + 1])
      /\ Stream(W, e, cs, plain)
  BY <1>5, <1>7 DEF Submitted
<1>9. Effects = g[IF d <= n THEN d ELSE n]
  BY <1>5, Zenon DEF Decoding
<1>10. Len(buffer) = kept - p /\ p \in Nat /\ p <= kept /\ buffer \in Seq(Nat)
  BY <1>6 DEF LeftFrom
<1>11. Submitted(W, e, cs, plain, kept, n, g)'
  BY <1>1, <1>5, SubmittedStays
<1>12. SUFFICES \E d2, p2 : Decoding(W, e, cs, plain, kept, n, g, d2, p2)'
  BY <1>11
<1>13. CASE p = e[d]
  <2>1. /\ d < z /\ cs[d + 1] \in Commands
        /\ Gpu!Opcode = cs[d + 1].op
        /\ Gpu!Size = IF plain THEN 1 ELSE Len(cs[d + 1].operands) + 1
        /\ e[d + 1] = (p + 1) + Len(cs[d + 1].operands)
        /\ \A m \in 1 .. Len(cs[d + 1].operands) :
             m < Len(buffer) => buffer[m + 1] = cs[d + 1].operands[m]
    BY <1>1, <1>5, <1>6, <1>7, <1>13, AtHeader
  <2>2. PICK c \in Commands : c = cs[d + 1]
    BY <2>1
  <2>3. PICK a \in Nat : a = Len(c.operands)
    BY CommandIs
  <2>4. a = Gpu!Operands(c.op) + Gpu!Optional(c.op)
    BY <2>3, CommandIs
  <2>5. Gpu!Operands(c.op) \in Nat /\ Gpu!Optional(c.op) \in Nat
    BY CommandIs, OperandsBound
  <2>6. d <= n /\ d + 1 \in 0 .. z /\ d + 1 \in 1 .. z /\ (d + 1) - 1 = d /\ d \in Nat
    <3>1. d # n + 1
      <4> SUFFICES ASSUME d = n + 1 PROVE FALSE
        OBVIOUS
      <4>1. kept < e[n + 1] /\ e[n + 1] = p
        BY <1>6, <1>7, <1>8, <1>13, <2>1
      <4>2. QED
        BY <1>8, <1>10, <4>1
    <3>2. QED
      BY <1>6, <1>7, <1>8, <2>1, <3>1
  <2>7. PICK size \in Nat : size = Gpu!Size /\ size = IF plain THEN 1 ELSE a + 1
    BY <1>8, <2>1, <2>2, <2>3
  <2>8. LeftFrom(W, kept, p + size)'
    BY <1>1, <1>6, <1>8, <2>7, RestIs
  <2>9. p + size = e[d + 1] \/ (plain /\ d + 1 # 0 /\ e[d] < p + size /\ p + size < e[d + 1])
    <3>1. e[d + 1] = (p + 1) + a
      BY <2>1, <2>2, <2>3
    <3>2. p \in Nat /\ d + 1 # 0
      BY <1>10, <2>6
    <3>3. QED
      BY <1>13, <2>7, <3>1, <3>2
  <2>10. Effects' = g[IF d + 1 <= n THEN d + 1 ELSE n]
    <3>1. CASE d + 1 <= n
      <4>1. e[d + 1] <= kept
        <5>1. d + 1 \in 0 .. Len(cs) /\ n \in 0 .. Len(cs)
          BY <1>7, <1>8, <2>6
        <5>2. e[d + 1] \in Nat /\ e[n] \in Nat /\ e[d + 1] <= e[n]
          BY <1>8, <3>1, <5>1, Ascending
        <5>3. QED
          BY <1>8, <5>2
      <4>2. a + 1 <= Len(buffer)
        <5>1. e[d + 1] = (p + 1) + a
          BY <2>1, <2>2, <2>3
        <5>2. (p + 1) + a <= kept /\ Len(buffer) = kept - p /\ p \in Nat
          BY <1>10, <4>1, <5>1
        <5>3. QED
          BY <1>8, <5>2
      <4>3. SubSeq(buffer \o <<0>>, 2, a + 1) = c.operands
        <5>1. PICK w \in Seq(Nat) : w = c.operands
          BY CommandIs
        <5>2. \A m \in 1 .. a : m < Len(buffer)
          BY <1>10, <4>2
        <5>3. \A m \in 1 .. a : buffer[m + 1] = w[m]
          BY <2>1, <2>2, <2>3, <5>1, <5>2
        <5>4. QED
          BY <1>10, <2>3, <4>2, <5>1, <5>3, OperandsRead
      <4>4. Gpu!Operands(c.op) < Len(buffer)
        BY <1>10, <2>4, <2>5, <4>2
      <4>5. /\ bound' = Gpu!Binding(bound, c.op, c.operands)
            /\ counted' = Gpu!Counting(counted, c.op, c.operands)
        <5>1. ~(Gpu!Operands(c.op) >= Len(buffer))
          BY <1>10, <2>5, <4>4
        <5>2. QED
          BY <1>2, <2>1, <2>2, <2>4, <4>3, <5>1, Zenon
      <4>6. Effects' = Gpu!AskedFor(Effects, c)
        BY <1>1, <1>3, <4>5, Effect
      <4>7. Effects = g[d]
        BY <1>9, <2>6
      <4>8. g[d + 1] = Gpu!AskedFor(g[d], c)
        <5>1. d + 1 \in 1 .. n
          BY <1>8, <2>6, <3>1
        <5>2. QED
          BY <1>5, <2>2, <2>6, <5>1, Zenon DEF Submitted
      <4>9. QED
        BY <3>1, <4>6, <4>7, <4>8
    <3>2. CASE ~(d + 1 <= n)
      <4>1. d = n
        BY <1>8, <2>6, <3>2
      <4>2. kept < (p + 1) + a
        BY <1>8, <2>1, <2>2, <2>3, <4>1
      <4>3. Len(buffer) <= a /\ Len(buffer) \in Nat
        BY <1>8, <1>10, <4>2
      <4>4. plain
        BY <1>1, <1>8, <2>7, <4>3
      <4>5. Gpu!Optional(c.op) = 0
        <5>1. n < Len(cs) /\ c = cs[n + 1]
          BY <1>7, <2>1, <2>2, <4>1
        <5>2. QED
          BY <1>5, <4>4, <5>1 DEF Submitted
      <4>6. Gpu!Operands(c.op) >= Len(buffer)
        BY <2>4, <2>5, <4>3, <4>5
      <4>7. ~(Gpu!Operands(c.op) < Len(buffer))
        BY <2>5, <4>3, <4>6
      <4>8. bound' = bound /\ counted' = counted
        BY <1>2, <2>1, <2>2, <4>7, Zenon
      <4>9. Effects' = Effects
        BY <1>1, <4>8, Zenon DEF Effects, Plus
      <4>10. Effects = g[n]
        BY <1>9, <2>6, <4>1
      <4>11. QED
        BY <3>2, <4>9, <4>10, Zenon
    <3>3. QED
      BY <3>1, <3>2
  <2>11. d + 1 <= n + 1 /\ d + 1 \in 0 .. Len(cs)
    BY <1>7, <1>8, <2>6
  <2>12. Decoding(W, e, cs, plain, kept, n, g, d + 1, p + size)'
    BY <2>6, <2>8, <2>9, <2>10, <2>11, Zenon DEF Decoding
  <2>13. QED
    BY <2>12
<1>14. CASE p # e[d]
  <2>1. plain /\ d # 0 /\ e[d - 1] < p /\ p < e[d]
    BY <1>5, <1>14, Zenon DEF Decoding
  <2>2. Gpu!Opcode \in Nat /\ Gpu!Operands(Gpu!Opcode) = 0 /\ Gpu!Size = 1
    BY <1>1, <1>5, <1>6, <2>1, AtOperand
  <2>3. bound' = bound /\ counted' = counted
    <3>1. ASSUME NEW w PROVE /\ Gpu!Binding(bound, Gpu!Opcode, w) = bound
                             /\ Gpu!Counting(counted, Gpu!Opcode, w) = counted
      BY <2>2, NoEffect
    <3>2. QED
      BY <1>2, <3>1, Zenon
  <2>4. Effects' = Effects
    BY <1>1, <2>3, Zenon DEF Effects, Plus
  <2>5. LeftFrom(W, kept, p + 1)'
    <3>1. 1 \in Nat /\ 1 <= Len(buffer)
      BY <1>1, <2>2
    <3>2. QED
      BY <1>1, <1>6, <1>8, <2>2, <3>1, RestIs
  <2>6. p + 1 = e[d] \/ (plain /\ d # 0 /\ e[d - 1] < p + 1 /\ p + 1 < e[d])
    <3>1. d \in 1 .. Len(cs)
      BY <1>6, <1>7, <2>1
    <3>2. e[d - 1] \in Nat /\ e[d] \in Nat
      BY <1>8, <3>1, Zenon DEF Stream
    <3>3. QED
      BY <1>10, <2>1, <3>2
  <2>7. Decoding(W, e, cs, plain, kept, n, g, d, p + 1)'
    BY <1>6, <1>9, <2>4, <2>5, <2>6, Zenon DEF Decoding
  <2>8. QED
    BY <2>7
<1>15. QED
  BY <1>13, <1>14

LEMMA GpuInitOK == Gpu!Init => GpuInv
<1> SUFFICES ASSUME Gpu!Init PROVE GpuInv
  OBVIOUS
<1>1. Gpu!NoCounts \in Counts
  BY DEF Gpu!NoCounts, Counts
<1>2. <<>> \in Seq(Nat)
  OBVIOUS
<1>3. /\ total = Gpu!NoCounts /\ counted = Gpu!NoCounts /\ buffer = <<>> /\ busy = FALSE
      /\ expected = [bound |-> bound, total |-> total]
  BY Zenon DEF Gpu!Init
<1>4. QED
  BY <1>1, <1>2, <1>3, Zenon DEF GpuInv

\* The decoder stops only when it has begun every whole command.
LEMMA FinishStep ==
  ASSUME GpuInv, Gpu!Finish
  PROVE  GpuInv'
<1>1. /\ busy /\ (buffer # <<>> => ~(Gpu!Size <= Len(buffer))) /\ busy' = FALSE
      /\ counted' = Gpu!NoCounts /\ bound' = bound /\ expected' = expected
      /\ promised' = promised /\ buffer' = <<>>
      /\ total' = [c \in DOMAIN total |-> total[c] + counted[c]]
  BY DEF Gpu!Finish, Gpu!Fits, Gpu!tables, Gpu!history
<1>2. total \in Counts /\ counted \in Counts
  BY DEF GpuInv
<1>3. total' = Plus(total, counted) /\ total' \in Counts /\ Gpu!NoCounts \in Counts
      /\ <<>> \in Seq(Nat)
  <2>1. total' = Plus(total, counted) /\ total' \in Counts
    BY <1>1, <1>2 DEF Counts, Plus
  <2>2. Gpu!NoCounts \in Counts
    BY DEF Gpu!NoCounts, Counts
  <2>3. <<>> \in Seq(Nat)
    OBVIOUS
  <2>4. QED
    BY <2>1, <2>2, <2>3
<1>4. ASSUME promised PROVE expected' = [bound |-> bound', total |-> total']
  <2>1. PICK W, e, cs, plain, kept, n, g, d, p :
          /\ Submitted(W, e, cs, plain, kept, n, g)
          /\ Decoding(W, e, cs, plain, kept, n, g, d, p)
    BY <1>1, <1>4 DEF GpuInv
  <2>2. LeftFrom(W, kept, p) /\ d \in 0 .. Len(cs) /\ d <= n + 1
    BY <2>1, Zenon DEF Decoding
  <2>3. PICK z \in Nat : z = Len(cs)
    BY <2>1 DEF Submitted
  <2>4. /\ cs \in Seq(Commands) /\ plain \in BOOLEAN /\ kept \in Nat
        /\ n \in 0 .. z /\ e[n] <= kept /\ Stream(W, e, cs, plain) /\ expected = g[n]
    BY <2>1, <2>3 DEF Submitted
  <2>5. Len(buffer) = kept - p /\ p \in Nat /\ p <= kept /\ buffer \in Seq(Nat)
    BY <2>2 DEF LeftFrom
  <2>6. ~(d < n)
    <3> SUFFICES ASSUME d < n PROVE FALSE
      OBVIOUS
    <3>1. d \in 0 .. Len(cs) /\ d + 1 \in 0 .. Len(cs) /\ n \in 0 .. Len(cs) /\ d + 1 <= n
          /\ d + 1 \in 1 .. Len(cs) /\ (d + 1) - 1 = d
      BY <2>2, <2>3, <2>4
    <3>2. e[d] \in Nat /\ e[d + 1] \in Nat /\ e[d + 1] <= kept
      <4>1. e[d + 1] \in Nat /\ e[n] \in Nat /\ e[d + 1] <= e[n]
        BY <2>4, <3>1, Ascending
      <4>2. e[d] \in Nat
        BY <2>4, <3>1, Ascending
      <4>3. QED
        BY <2>4, <4>1, <4>2
    <3>3. PICK a \in Nat : a = Len(cs[d + 1].operands)
      <4>1. cs[d + 1] \in Commands
        BY <2>4, <3>1
      <4>2. QED
        BY <4>1, CommandIs
    <3>4. e[d + 1] = (e[d] + 1) + a
      BY <2>4, <3>1, <3>3 DEF Stream
    <3>5. p <= e[d]
      BY <2>1, <2>5, <3>2 DEF Decoding
    <3>6. Len(buffer) >= 1 /\ buffer # <<>>
      <4>1. Len(buffer) >= 1
        BY <2>4, <2>5, <3>2, <3>4, <3>5
      <4>2. QED
        BY <4>1
    <3>7. ~(Gpu!Size <= Len(buffer))
      BY <1>1, <3>6
    <3>8. CASE p = e[d]
      <4>1. Gpu!Size = IF plain THEN 1 ELSE a + 1
        BY <2>1, <2>2, <3>3, <3>6, <3>8, AtHeader
      <4>2. a + 1 <= Len(buffer)
        BY <2>4, <2>5, <3>2, <3>4, <3>8
      <4>3. QED
        BY <2>4, <3>6, <3>7, <4>1, <4>2
    <3>9. CASE p # e[d]
      <4>1. plain /\ d # 0 /\ e[d - 1] < p /\ p < e[d]
        BY <2>1, <3>9, Zenon DEF Decoding
      <4>2. Gpu!Size = 1
        BY <2>1, <2>2, <3>6, <4>1, AtOperand
      <4>3. QED
        BY <3>6, <3>7, <4>2
    <3>10. QED
      BY <3>8, <3>9
  <2>7. Effects = g[n]
    <3>1. Effects = g[IF d <= n THEN d ELSE n]
      BY <2>1, Zenon DEF Decoding
    <3>2. d <= n => d = n
      BY <2>2, <2>3, <2>4, <2>6
    <3>3. QED
      BY <3>1, <3>2
  <2>8. QED
    BY <1>1, <1>3, <2>4, <2>7, Zenon DEF Effects
<1>5. QED
  BY <1>1, <1>3, <1>4 DEF GpuInv

\* A submitted buffer starts at the first of its commands.
LEMMA ExecuteStep ==
  ASSUME GpuInv, Gpu!ExecuteAny
  PROVE  GpuInv'
<1>1. PICK cs \in Gpu!Buffers, plain \in BOOLEAN, cut \in 0 .. 1 : Gpu!Execute(cs, plain, cut)
  BY DEF Gpu!ExecuteAny
<1>2. cs \in Seq(Commands) /\ Len(cs) > 0
  BY CommandsAssumption DEF CommandsAssumption, Gpu!Buffers
<1>3. PICK z \in Nat : z = Len(cs) /\ z > 0
  BY <1>2
<1>4. PICK W : W = Gpu!AllWords(cs, plain)
  OBVIOUS
<1>5. PICK e : Stream(W, e, cs, plain)
  BY <1>2, <1>4, StreamExists
<1>6. PICK c \in Commands : c = cs[z]
  BY <1>2, <1>3
<1>7. Gpu!Last(cs) = c
  BY <1>3, <1>6 DEF Gpu!Last
<1>8. PICK kept : kept = Gpu!Kept(Len(W) - cut)
  OBVIOUS
<1>9. /\ ~busy /\ busy' = TRUE
      /\ cut < Len(Gpu!Words(c, plain))
      /\ buffer' = SubSeq(W, 1, kept)
      /\ UNCHANGED <<shaders, textures, samplers, render_targets>>
      /\ bound' = bound /\ counted' = counted /\ total' = total
  BY <1>1, <1>4, <1>7, <1>8 DEF Gpu!Execute, Gpu!tables, Gpu!state
<1>10. PICK n \in 0 .. z :
         /\ Gpu!End(cs, plain, n) <= kept
         /\ n < z => kept < Gpu!End(cs, plain, n + 1)
         /\ expected' = Gpu!AskedForAll([bound |-> bound, total |-> total], SubSeq(cs, 1, n))
         /\ promised' = (plain => /\ \A i \in DOMAIN cs : Gpu!Harmless(cs[i])
                                  /\ n < z => Gpu!Optional(cs[n + 1].op) = 0)
  BY <1>1, <1>3, <1>4, <1>8 DEF Gpu!Execute
<1>11. PICK l \in Nat : l = Len(W) /\ l > 0 /\ W \in Seq(Nat) /\ e[0] = 0 /\ e[z] = l
  <2>1. W \in Seq(Nat) /\ e[0] = 0 /\ e[z] = Len(W) /\ Len(W) \in Nat
    BY <1>3, <1>5 DEF Stream
  <2>2. 1 \in 1 .. z /\ cs[1] \in Commands /\ 1 - 1 = 0
    BY <1>2, <1>3
  <2>3. PICK a \in Nat : a = Len(cs[1].operands)
    BY <2>2, CommandIs
  <2>4. e[1] = (0 + 1) + a /\ e[1] <= Len(W)
    BY <1>3, <1>5, <2>1, <2>2, <2>3 DEF Stream
  <2>5. QED
    BY <2>1, <2>4
<1>12. kept \in Nat /\ kept <= l
  BY <1>8, <1>11, CommandsAssumption DEF CommandsAssumption, Gpu!Kept
<1>13. /\ n \in 0 .. Len(cs) /\ e[n] <= kept /\ (n < Len(cs) => kept < e[n + 1])
  <2>1. n \in 0 .. Len(cs) /\ (n < z => n + 1 \in 0 .. Len(cs))
    BY <1>3
  <2>2. Gpu!End(cs, plain, n) = e[n]
    BY <1>2, <1>5, <2>1, EndIs
  <2>3. n < z => Gpu!End(cs, plain, n + 1) = e[n + 1]
    BY <1>2, <1>5, <2>1, EndIs
  <2>4. QED
    BY <1>3, <1>10, <2>1, <2>2, <2>3
<1>14. PICK whole : whole = SubSeq(cs, 1, n)
  OBVIOUS
<1>15. Len(whole) = n /\ n \in Nat /\ \A i \in 1 .. n : whole[i] = cs[i]
  BY <1>2, <1>3, <1>14
<1>16. PICK g : /\ g[0] = [bound |-> bound, total |-> total] /\ g[n] = expected'
                /\ \A i \in 1 .. n : g[i] = Gpu!AskedFor(g[i - 1], cs[i])
  <2>1. PICK g : /\ g[0] = [bound |-> bound, total |-> total]
                 /\ g[Len(whole)] = Gpu!AskedForAll([bound |-> bound, total |-> total], whole)
                 /\ \A i \in 1 .. Len(whole) : g[i] = Gpu!AskedFor(g[i - 1], whole[i])
    <3>1. Len(whole) \in Nat
      BY <1>15, Zenon
    <3>2. QED
      BY <3>1, AskedForAllIs
  <2>2. g[0] = [bound |-> bound, total |-> total] /\ g[n] = expected'
    BY <1>10, <1>14, <1>15, <2>1, Zenon
  <2>3. \A i \in 1 .. n : g[i] = Gpu!AskedFor(g[i - 1], cs[i])
    BY <1>15, <2>1, Zenon
  <2>4. QED
    BY <2>2, <2>3
<1>17. \A i \in 1 .. n : g[i] = Gpu!AskedFor(g[i - 1], cs[i])'
  <2>1. \A x, y : Gpu!AskedFor(x, y)' = Gpu!AskedFor(x, y)
    BY <1>9, SameEffect
  <2>2. QED
    BY <1>16, <2>1, Zenon
<1>18. ASSUME promised' PROVE Submitted(W, e, cs, plain, kept, n, g)'
  <2>1. plain => /\ \A i \in 1 .. Len(cs) : Gpu!Harmless(cs[i])
                 /\ n < Len(cs) => Gpu!Optional(cs[n + 1].op) = 0
    <3>1. DOMAIN cs = 1 .. Len(cs) /\ Len(cs) = z
      BY <1>2, <1>3
    <3>2. QED
      BY <1>10, <1>18, <3>1, Zenon
  <2>2. kept <= Len(W)
    BY <1>11, <1>12
  <2>3. QED
    BY <1>2, <1>5, <1>12, <1>13, <1>16, <1>17, <2>1, <2>2, Zenon DEF Submitted
<1>19. LeftFrom(W, kept, 0)'
  <2>1. PICK v \in Seq(Nat) : v = SubSeq(W, 1, kept)
    <3>1. \A i \in 1 .. kept : W[i] \in Nat
      BY <1>11, <1>12
    <3>2. SubSeq(W, 1, kept) \in Seq(Nat)
      BY <1>12, <3>1, SubSeqProperties
    <3>3. QED
      BY <3>2
  <2>2. Len(v) = kept /\ \A j \in 1 .. kept : v[j] = W[j]
    BY <1>11, <1>12, <2>1
  <2>3. kept = kept - 0 /\ 0 <= kept /\ 0 \in Nat
    BY <1>12
  <2>4. \A j \in 1 .. Len(v) : v[j] = W[0 + j]
    BY <2>2
  <2>5. v = buffer'
    BY <1>9, <2>1
  <2>6. QED
    BY <2>2, <2>3, <2>4, <2>5, Zenon DEF LeftFrom
<1>20. Effects' = g[0]
  <2>1. total \in Counts /\ counted = Gpu!NoCounts
    BY <1>9 DEF GpuInv
  <2>2. Effects' = [bound |-> bound, total |-> Plus(total, counted)]
    BY <1>9, Zenon DEF Effects, Plus
  <2>3. QED
    BY <1>16, <2>1, <2>2, NoneCounted, Zenon
<1>21. Decoding(W, e, cs, plain, kept, n, g, 0, 0)'
  <2>1. 0 \in 0 .. Len(cs) /\ 0 <= n /\ 0 <= n + 1
    BY <1>3, <1>10
  <2>2. QED
    BY <1>11, <1>19, <1>20, <2>1, Zenon DEF Decoding
<1>22. total' \in Counts /\ counted' \in Counts /\ buffer' \in Seq(Nat)
  BY <1>9, <1>19 DEF GpuInv, LeftFrom
<1>23. QED
  BY <1>9, <1>18, <1>21, <1>22 DEF GpuInv

LEMMA CreateStep ==
  ASSUME GpuInv, NEW k, Gpu!Create(k)
  PROVE  GpuInv'
  BY DEF GpuInv, Gpu!Create, Gpu!state, Gpu!history

LEMMA StutterStep ==
  ASSUME GpuInv, UNCHANGED gpuVars
  PROVE  GpuInv'
<1>1. UNCHANGED <<shaders, textures, samplers, render_targets, bound, counted,
                  total, buffer, busy, expected, promised>>
  BY DEF gpuVars
<1>2. CASE busy /\ promised
  <2>1. PICK W, e, cs, plain, kept, n, g, d, p :
          /\ Submitted(W, e, cs, plain, kept, n, g)
          /\ Decoding(W, e, cs, plain, kept, n, g, d, p)
    BY <1>2 DEF GpuInv
  <2>2. Submitted(W, e, cs, plain, kept, n, g)'
    BY <1>1, <2>1, SubmittedStays
  <2>3. Effects' = Effects /\ (LeftFrom(W, kept, p) => LeftFrom(W, kept, p)')
    BY <1>1, Zenon DEF Effects, Plus, LeftFrom
  <2>4. Decoding(W, e, cs, plain, kept, n, g, d, p)'
    BY <2>1, <2>3, Zenon DEF Decoding
  <2>5. QED
    BY <1>1, <1>2, <2>2, <2>4 DEF GpuInv
<1>3. CASE ~(busy /\ promised)
  BY <1>1, <1>3 DEF GpuInv
<1>4. QED
  BY <1>2, <1>3

LEMMA GpuStep ==
  ASSUME GpuInv, [NvGpuNext]_nvGpuVars
  PROVE  GpuInv'
<1>1. CASE SubmitBuffer /\ Gpu!ExecuteAny
  BY <1>1, ExecuteStep
<1>2. CASE CreateResource
  BY <1>2, CreateStep DEF CreateResource
<1>3. CASE Gpu!Command
  BY <1>3, CommandStep
<1>4. CASE Gpu!Finish
  BY <1>4, FinishStep
<1>5. CASE UNCHANGED gpuVars
  BY <1>5, StutterStep
<1>6. QED
  BY <1>1, <1>2, <1>3, <1>4, <1>5
     DEF NvGpuNext, SubmitBuffer, Channels, Decode, nvGpuVars

(* Of every buffer, the commands that lie wholly in the words that are kept *)
(* take effect once, in order and with their own operands, and one that is  *)
(* cut or dropped has none: always when lengths are given, and with lengths *)
(* of 0 when the operands of the buffer are no commands themselves.         *)
THEOREM CommandsTakeEffect == NvGpuSpec => []EffectsAreThoseAskedFor
<1>1. NvGpuInit => GpuInv
  BY GpuInitOK DEF NvGpuInit
<1>2. GpuInv /\ [NvGpuNext]_nvGpuVars => GpuInv'
  BY GpuStep
<1>3. GpuInv => EffectsAreThoseAskedFor
  BY DEF GpuInv, EffectsAreThoseAskedFor, Gpu!EffectsAreThoseAskedFor
<1>4. QED
  BY <1>1, <1>2, <1>3, PTL DEF NvGpuSpec

(* Channels and fences behave with the executor as without: a step of the   *)
(* composition is one of NvFence or leaves its variables alone.             *)
THEOREM ExecutorKeepsFences == NvGpuSpec => Spec
<1>1. NvGpuInit => Init
  BY DEF NvGpuInit
<1>2. [NvGpuNext]_nvGpuVars => [Next]_vars
  <2> SUFFICES ASSUME [NvGpuNext]_nvGpuVars PROVE [Next]_vars
    OBVIOUS
  <2>1. CASE SubmitBuffer
    BY <2>1 DEF SubmitBuffer, Next, Command
  <2>2. CASE Channels
    BY <2>2 DEF Channels, Next, Command
  <2>3. CASE UNCHANGED vars
    BY <2>3
  <2>4. QED
    BY <2>1, <2>2, <2>3 DEF NvGpuNext, CreateResource, Decode, nvGpuVars
<1>3. QED
  BY <1>1, <1>2, PTL DEF NvGpuSpec, Spec

(* So the pending list is right while buffers run, and waits get as far.    *)
THEOREM NoFenceLostWhileExecuting ==
  NvGpuSpec => []PendingIsTheRest /\ []WaitGoesByTriangles
  BY ExecutorKeepsFences, NoFenceLost, WaitsGoByTriangles, PTL

=============================================================================
