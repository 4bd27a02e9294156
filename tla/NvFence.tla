------------------------------- MODULE NvFence -------------------------------
(***************************************************************************)
(* Channels and fences of nvdrv:a: commands 1 to 6 of hos/NvService.h and  *)
(* the drain Emulator::frame makes.                                        *)
(*                                                                         *)
(* A command runs to its end before the next; the two that loop over       *)
(* pending_ take one step per iteration, because the loop of WaitFence     *)
(* erases from the vector it iterates over.  Its iterators stay where they *)
(* are while the elements move down, so it skips elements and runs on past *)
(* the new end, where the vector's memory still holds the last element of  *)
(* before: erasing from the front never overwrites that slot and never     *)
(* reallocates.                                                            *)
(*                                                                         *)
(* Of a pending submission only its fence is kept: its channel is never    *)
(* read, and its command buffer runs when it is submitted.                 *)
(***************************************************************************)
EXTENDS Naturals, Sequences

CONSTANTS
  MaxChannel,  \* bound: channels ever opened
  MaxFence     \* bound: buffers ever submitted

ASSUME FenceAssumption == MaxChannel \in Nat /\ MaxFence \in Nat

VARIABLES
  channels,         \* the ids in channels_
  next_channel,     \* next_channel_
  pending,          \* the fences in pending_, oldest first
  next_fence,       \* next_fence_
  completed_fence,  \* completed_fence_
  call              \* the loop that is running, if any

(* History variable.                                                       *)
VARIABLE waited     \* the submitted fences WaitFence has answered 1 for

channelVars == <<channels, next_channel>>
fenceVars == <<pending, completed_fence>>
vars == <<channelVars, fenceVars, next_fence, call, waited>>

Channel == 1 .. MaxChannel
Fence == 1 .. MaxFence

\* A loop reads slot it of the end slots it found, and acts on those up to upto.
Loop == [op : {"none", "wait", "drain"}, it : 1 .. MaxFence + 1,
         end : 0 .. MaxFence, upto : 0 .. MaxFence, stale : 0 .. MaxFence]

NoLoop == [op |-> "none", it |-> 1, end |-> 0, upto |-> 0, stale |-> 0]
Idle == call = NoLoop

Init ==
  /\ channels = {} /\ next_channel = 1
  /\ pending = <<>> /\ next_fence = 1 /\ completed_fence = 0
  /\ call = NoLoop
  /\ waited = {}

-----------------------------------------------------------------------------
(* Commands 1 to 3.                                                        *)

OpenChannel ==
  /\ Idle /\ next_channel <= MaxChannel
  /\ channels' = channels \cup {next_channel}
  /\ next_channel' = next_channel + 1
  /\ UNCHANGED <<fenceVars, next_fence, call, waited>>

\* What the channel has submitted stays pending.
CloseChannel(id) ==
  /\ Idle
  /\ channels' = channels \ {id}
  /\ UNCHANGED <<next_channel, fenceVars, next_fence, call, waited>>

Submit(id) ==
  /\ Idle /\ id \in channels /\ next_fence <= MaxFence
  /\ pending' = Append(pending, next_fence)
  /\ next_fence' = next_fence + 1
  /\ UNCHANGED <<channelVars, completed_fence, call, waited>>

-----------------------------------------------------------------------------
(* Completion.                                                             *)

\* Mutant: the fence itself is kept, only those before it are erased.
DoneBefore(k, f) == pending[k] < f

Done(k, f) == pending[k] <= f

Later(f) == IF f > completed_fence THEN f ELSE completed_fence

\* completeUpTo: the leading fences that are done leave pending_.
completeUpTo(f) ==
  /\ completed_fence' = Later(f)
  /\ \E n \in 0 .. Len(pending) :
       /\ \A k \in 1 .. n : Done(k, Later(f))
       /\ n < Len(pending) => ~Done(n + 1, Later(f))
       /\ pending' = SubSeq(pending, n + 1, Len(pending))

\* Commands 4 and 5 change nothing; this is their answer.
QueryFence(f) == f < completed_fence

WaitFence(f) ==
  /\ Idle
  /\ call' = [op |-> "wait", it |-> 1, end |-> Len(pending), upto |-> f,
              stale |-> IF pending = <<>> THEN 0 ELSE pending[Len(pending)]]
  /\ UNCHANGED <<channelVars, fenceVars, next_fence, waited>>

\* What the loop's iterator points at.
Slot == IF call.it <= Len(pending) THEN pending[call.it] ELSE call.stale

\* Mutant: the condition on the fence is missing.
AnySlot == TRUE

SlotCounts == Slot <= call.upto

MoreSlots == call.it <= call.end

WaitIteration ==
  /\ call.op = "wait" /\ MoreSlots
  /\ \/ SlotCounts /\ completeUpTo(Slot)
     \/ ~SlotCounts /\ UNCHANGED fenceVars
  /\ call' = [call EXCEPT !.it = @ + 1]
  /\ UNCHANGED <<channelVars, next_fence, waited>>

WaitReturn ==
  /\ call.op = "wait" /\ ~MoreSlots
  /\ call' = NoLoop
  /\ waited' = waited \cup {f \in Fence : f = call.upto /\ f < next_fence}
  /\ UNCHANGED <<channelVars, fenceVars, next_fence>>

\* Once per frame, after the service pump.
renderFrameNative ==
  /\ Idle
  /\ call' = [NoLoop EXCEPT !.op = "drain"]
  /\ UNCHANGED <<channelVars, fenceVars, next_fence, waited>>

DrainIteration ==
  /\ call.op = "drain" /\ pending # <<>>
  /\ completeUpTo(Head(pending))
  /\ UNCHANGED <<channelVars, next_fence, call, waited>>

DrainReturn ==
  /\ call.op = "drain" /\ pending = <<>>
  /\ call' = NoLoop
  /\ UNCHANGED <<channelVars, fenceVars, next_fence, waited>>

-----------------------------------------------------------------------------
Command ==
  \/ OpenChannel
  \/ \E id \in Channel : CloseChannel(id) \/ Submit(id)
  \/ \E f \in 0 .. MaxFence : WaitFence(f)

InLoop == WaitIteration \/ WaitReturn \/ DrainIteration \/ DrainReturn

Next == Command \/ renderFrameNative \/ InLoop

\* A frame comes after finitely many commands: the pump takes one request of
\* each session and the drain follows it.
Fairness == WF_vars(InLoop) /\ SF_vars(renderFrameNative)

Spec == Init /\ [][Next]_vars /\ Fairness

-----------------------------------------------------------------------------
(* Properties.                                                             *)

(* Types and bounds.                                                       *)
TypeOK ==
  /\ channels \subseteq Channel /\ next_channel \in 1 .. MaxChannel + 1
  /\ pending \in Seq(Fence)
  /\ next_fence \in 1 .. MaxFence + 1
  /\ completed_fence \in 0 .. MaxFence
  /\ call \in Loop
  /\ waited \subseteq Fence

(* pending_ is exactly the fences above completed_fence_, in order and each *)
(* once: none is dropped, completed twice or forgotten, whatever the loop   *)
(* of WaitFence does to the vector under its own iterators.                 *)
PendingIsTheRest ==
  /\ completed_fence < next_fence
  /\ Len(pending) = next_fence - 1 - completed_fence
  /\ \A i \in 1 .. Len(pending) : pending[i] = completed_fence + i

\* The k-th triangular number.
Triangle(k) == (k * (k + 1)) \div 2

(* What a wait completes before it returns.  One for the newest fence       *)
(* completes all, though half of its reads are outside the vector.  One for *)
(* an older fence is led by its own erasures to the 1st, 3rd, 6th, 10th ... *)
(* of the fences that were pending: it completes up to the last of these    *)
(* that is not beyond the one it is for, so at least one if that one was    *)
(* pending, and stops short of it otherwise.                                *)
WaitGoesByTriangles ==
  call.op = "wait" /\ ~MoreSlots =>
    LET before == (next_fence - 1) - call.end   \* completed when it was called
    IN IF call.upto >= next_fence - 1 THEN pending = <<>>
       ELSE \E k \in 0 .. call.end :
              /\ completed_fence = before + Triangle(k)
              /\ k > 0 => completed_fence <= call.upto
              /\ call.upto < before + Triangle(k + 1)

IsPending(f) == \E i \in 1 .. Len(pending) : pending[i] = f

(* Every submitted buffer is completed: the drain of a frame ends and       *)
(* leaves nothing behind.                                                   *)
EveryFenceCompletes == \A f \in Fence : IsPending(f) ~> ~IsPending(f)

(* What NvService.h says of two commands and the code does not do; TLC      *)
(* finds counterexamples of both, so no configuration lists them.           *)
(* WaitFence (NvService.h:48): it answers when its fence is complete.       *)
WaitedIsComplete == \A f \in waited : ~IsPending(f)

(* QueryFence (NvService.h:46): 1 for a complete fence, 0 for a queued one. *)
QueryTellsTheTruth ==
  Idle => \A f \in Fence : f < next_fence => (QueryFence(f) <=> ~IsPending(f))

=============================================================================
