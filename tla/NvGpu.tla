-------------------------------- MODULE NvGpu --------------------------------
(***************************************************************************)
(* nvdrv:a with what it executes: the channels and fences of NvFence and   *)
(* the decoder of GpuCommands.  Submit runs its buffer before it answers,  *)
(* so no other command and no drain comes between the turns of the         *)
(* decoder, whose effects add up over the submissions of all channels.     *)
(***************************************************************************)
EXTENDS NvFence

CONSTANTS Commands, MaxWords, MaxLength, MaxId   \* GpuCommands
VARIABLES
  shaders, textures, samplers, render_targets, next_id,
  bound, counted, total, buffer, busy, expected, promised   \* GpuCommands

Gpu == INSTANCE GpuCommands

\* Guests give each command the operands it needs and the optional ones.
ASSUME CommandsAssumption ==
  /\ MaxLength \in Nat /\ MaxWords \in Nat
  /\ \A c \in Commands :
       /\ c.op \in Nat /\ c.op < 65536 /\ c.operands \in Seq(Nat)
       /\ Len(c.operands) = Gpu!Operands(c.op) + Gpu!Optional(c.op)

gpuVars == <<shaders, textures, samplers, render_targets, next_id,
             bound, counted, total, buffer, busy, expected, promised>>
nvGpuVars == <<vars, gpuVars>>

NvGpuInit == Init /\ Gpu!Init

\* cmd 3: the payload may have no buffer after the channel's id.
SubmitBuffer ==
  /\ \E id \in Channel : Submit(id)
  /\ ~busy
  /\ \/ Gpu!ExecuteAny
     \/ UNCHANGED gpuVars

\* Commands 1, 2 and 6, and the drain.
Channels ==
  /\ \/ OpenChannel
     \/ \E id \in Channel : CloseChannel(id)
     \/ \E f \in 0 .. MaxFence : WaitFence(f)
     \/ renderFrameNative
     \/ InLoop
  /\ ~busy
  /\ UNCHANGED gpuVars

\* Commands 8 to 11.
CreateResource ==
  /\ Idle
  /\ \E k \in Gpu!Kind : Gpu!Create(k)
  /\ UNCHANGED vars

Decode == (Gpu!Command \/ Gpu!Finish) /\ UNCHANGED vars

NvGpuNext == SubmitBuffer \/ Channels \/ CreateResource \/ Decode

\* Besides the frames, the decoder goes on with its buffer.
NvGpuSpec ==
  NvGpuInit /\ [][NvGpuNext]_nvGpuVars /\ Fairness /\ WF_nvGpuVars(Decode)

\* A submission does what its whole commands ask for, as far as they lie in
\* the words that are kept (GpuCommands).
EffectsAreThoseAskedFor == Gpu!EffectsAreThoseAskedFor
=============================================================================
