---------------------------- MODULE VulkanFrames ----------------------------
(***************************************************************************)
(* The Vulkan executor behind nvdrv:a (gpu/VulkanBackend.cpp, hos/         *)
(* NvService.h) and the two histories of FramebufferManager.h.             *)
(*                                                                         *)
(* One host thread begins a frame, records and submits it; the GPU runs    *)
(* the submissions in their order and signals their fences.  There are     *)
(* two command buffers, each with a fence.  Everything the context creates *)
(* may fail; what follows, and what shutdown finds, depends on how far it  *)
(* came.                                                                   *)
(*                                                                         *)
(* Pipelines are made on demand for a pair of shaders, against the render  *)
(* pass of the context, and kept; one that could not be made is kept as    *)
(* such.  Compute pipelines are kept without ever being made.              *)
(*                                                                         *)
(* Submissions and waits are taken to succeed: their results are ignored.  *)
(* The framebuffer a frame is drawn to, the geometry, and the textures and *)
(* render targets of the guest, which live as long as the process, are     *)
(* left out.                                                               *)
(***************************************************************************)
EXTENDS Naturals, Sequences, SequencesExt

CONSTANTS
  Images,     \* images of a swapchain
  MaxFrames,  \* bound on frame_index, for TLC
  Graphics,   \* pairs of vertex and fragment shaders that are drawn with
  Compute     \* compute shaders

ASSUME FramesAssumption ==
  /\ Images \in Nat \ {0} /\ MaxFrames \in Nat
  /\ Graphics \cap Compute = {}

Slot == 0 .. 1
Kind == {"instance", "device", "swapchain", "view", "pass", "framebuffer",
         "pool", "fence", "semaphore"}
None == [k \in Kind |-> 0]

VARIABLES
  host,      \* what the host thread does
  todo,      \* what is left of an initialisation or a change of resolution
  ready,     \* init has answered true
  images,    \* length of swapchain_images_
  handles,   \* the objects the context has handles of
  alive,     \* how many objects of these kinds exist
  leaked,    \* the kinds of objects that exist and that nothing will destroy
  current,   \* current_frame_
  fence,     \* in_flight_fences_: which are signaled
  queue,     \* submissions the GPU has not finished: slots, or 2 for others
  side,      \* current_ of FramebufferManager
  history,   \* history_
  frame,     \* frame_index of the next frame
  pipelines  \* the caches of ShaderRecompiler

gpuVars == <<current, fence, queue>>
historyVars == <<side, history, frame>>
objectVars == <<handles, alive, leaked, images>>
framesVars == <<host, todo, ready, objectVars, gpuVars, historyVars, pipelines>>

NoHistory == [s \in Slot |-> [valid |-> FALSE, frame |-> 0]]

\* A pipeline is not in the cache, there without a VkPipeline, or there.
NoPipelines == [s \in Graphics \cup Compute |-> "absent"]

FramesInit ==
  /\ host = "none" /\ todo = << >> /\ ready = FALSE
  /\ images = 0 /\ handles = None /\ alive = None /\ leaked = {}
  /\ current = 0 /\ fence = [s \in Slot |-> TRUE] /\ queue = << >>
  /\ side = 0 /\ history = NoHistory /\ frame = 0
  /\ pipelines = NoPipelines

-----------------------------------------------------------------------------
(* Creation and destruction.                                               *)

\* n more objects of a kind, with their handles.
Created(k, n) ==
  /\ handles' = [handles EXCEPT ![k] = @ + n]
  /\ alive' = [alive EXCEPT ![k] = @ + n]

\* Mutant: views are forgotten and not destroyed.
ViewsForgotten(kinds) ==
  /\ handles' = [k \in Kind |-> IF k \in kinds THEN 0 ELSE handles[k]]
  /\ alive' = [k \in Kind |-> IF k \in kinds \ {"view"} THEN alive[k] - handles[k]
                              ELSE alive[k]]

\* All objects of these kinds that there are handles of.
Destroyed(kinds) ==
  /\ handles' = [k \in Kind |-> IF k \in kinds THEN 0 ELSE handles[k]]
  /\ alive' = [k \in Kind |-> IF k \in kinds THEN alive[k] - handles[k] ELSE alive[k]]

\* initVulkan and initVulkanFromExisting of NvService make a new executor.
NewExecutor == host = "none" /\ host' = "creating"

\* VulkanContext::init.
InitVulkan ==
  /\ NewExecutor
  /\ \E window_handle \in BOOLEAN :
       todo' = <<"instance", "physical", "device">>
               \o (IF window_handle THEN <<"swapchain">> ELSE << >>)
               \o <<"pass", "framebuffers", "pool", "buffers", "sync">>
  /\ UNCHANGED <<ready, objectVars, gpuVars, historyVars, pipelines>>

\* VulkanContext::initFromExisting, with the shell's device and perhaps its
\* surface and swapchain; the images of that stay unknown.
InitFromExisting ==
  /\ NewExecutor
  /\ \E given \in {{"device"}, {"device", "swapchain"}} :
       /\ handles' = [k \in Kind |-> IF k \in given THEN 1 ELSE 0]
       /\ alive' = handles'
  /\ todo' = <<"pass", "framebuffers", "pool", "buffers", "sync">>
  /\ UNCHANGED <<ready, leaked, images, gpuVars, historyVars, pipelines>>

Doing(what) == host = "creating" /\ todo # << >> /\ Head(todo) = what

\* init gives up, keeping what it has; setResolution ignores a failure.
GiveUp == todo' = << >> /\ UNCHANGED <<objectVars, gpuVars>>

CreateOne(what, k) ==
  /\ Doing(what)
  /\ \/ Created(k, 1) /\ todo' = Tail(todo) /\ UNCHANGED <<leaked, images, gpuVars>>
     \/ GiveUp
  /\ UNCHANGED <<host, ready, historyVars, pipelines>>

createInstance == CreateOne("instance", "instance")
createLogicalDevice == CreateOne("device", "device")
createRenderPass == CreateOne("pass", "pass")
createCommandPool == CreateOne("pool", "pool")

Choose(what) ==
  /\ Doing(what)
  /\ \/ todo' = Tail(todo) /\ UNCHANGED <<objectVars, gpuVars>>
     \/ GiveUp
  /\ UNCHANGED <<host, ready, historyVars, pipelines>>

pickPhysicalDevice == Choose("physical")
\* The two command buffers belong to the pool.
createCommandBuffers == Choose("buffers")

\* The swapchain, its images and a view of each, up to the first that fails.
\* init goes on without; recreateSwapchain does not.
createSwapchain ==
  /\ Doing("swapchain")
  /\ \E n \in 0 .. Images, made \in BOOLEAN :
       /\ IF made
          THEN /\ handles' = [handles EXCEPT !.swapchain = 1, !.view = n]
               /\ alive' = [alive EXCEPT !.swapchain = @ + 1, !.view = @ + n]
               /\ images' = Images /\ UNCHANGED leaked
          ELSE n = 0 /\ UNCHANGED objectVars
       /\ todo' = IF ready /\ ~(made /\ n = Images) THEN << >> ELSE Tail(todo)
  /\ UNCHANGED <<host, ready, gpuVars, historyVars, pipelines>>

\* n framebuffers of those wanted.
FramebuffersMade(n, wanted) ==
  /\ Created("framebuffer", n) /\ UNCHANGED images
  /\ todo' = IF n = wanted THEN Tail(todo) ELSE << >>

\* One for each image of the swapchain.  Without, a single one over an image for
\* color and one for depth, both tried: those that are made are never destroyed.
createFramebuffers ==
  /\ Doing("framebuffers")
  /\ \/ images > 0 /\ UNCHANGED leaked
        /\ \E n \in 0 .. handles.view : FramebuffersMade(n, images)
     \/ images = 0
        /\ \E color, depth \in BOOLEAN, n \in 0 .. 1 :
             /\ n = 1 => color /\ depth
             /\ FramebuffersMade(n, 1)
             /\ leaked' = leaked \cup {k \in {"image"} : color \/ depth}
  /\ UNCHANGED <<host, ready, gpuVars, historyVars, pipelines>>

\* A new FramebufferManager.
NewHistories == side' = 0 /\ history' = NoHistory

\* Mutant: the fences are created unsignaled.
Unsignaled == [s \in Slot |-> FALSE]

Signaled == [s \in Slot |-> TRUE]

\* createSyncObjects ends init; the executor then makes its FramebufferManager.
createSyncObjects ==
  /\ Doing("sync")
  /\ handles' = [handles EXCEPT !.fence = 2, !.semaphore = 4]
  /\ alive' = [alive EXCEPT !.fence = @ + 2, !.semaphore = @ + 4]
  /\ fence' = Signaled /\ current' = 0
  /\ NewHistories /\ frame' = 0
  /\ ready' = TRUE /\ todo' = << >>
  /\ UNCHANGED <<host, leaked, images, queue, pipelines>>

CreationEnds ==
  /\ host = "creating" /\ todo = << >>
  /\ host' = "idle"
  /\ UNCHANGED <<todo, ready, objectVars, gpuVars, historyVars, pipelines>>

-----------------------------------------------------------------------------
(* Frames.                                                                 *)

\* Mutant: FramebufferManager::beginFrame without valid = false.
KeepValid ==
  /\ side' = 1 - side
  /\ history' = [history EXCEPT ![1 - side].frame = frame]

\* FramebufferManager::beginFrame.
FlipHistory ==
  /\ side' = 1 - side
  /\ history' = [history EXCEPT ![1 - side] = [valid |-> FALSE, frame |-> frame]]

\* The start of execute.  NvService calls it also when init has failed, and
\* then the FramebufferManager is a null pointer.
BeginExecute ==
  /\ host = "idle" /\ frame < MaxFrames
  /\ IF ready THEN FlipHistory /\ frame' = frame + 1 /\ host' = "wait"
              ELSE host' = "crashed" /\ UNCHANGED historyVars
  /\ UNCHANGED <<todo, ready, objectVars, gpuVars, pipelines>>

\* Mutant: beginFrame that does not reset the fence.
NoReset(s) == UNCHANGED fence

Reset(s) == fence' = [fence EXCEPT ![s] = FALSE]

\* VulkanContext::beginFrame: vkWaitForFences without a limit.
BeginRecording ==
  /\ host = "wait" /\ fence[current]
  /\ Reset(current)
  /\ host' = "record"
  /\ UNCHANGED <<todo, ready, objectVars, current, queue, historyVars, pipelines>>

\* What createGraphicsPipeline comes to: vkCreateGraphicsPipelines may fail.
createGraphicsPipeline == {"null", "made"}

\* createComputePipeline only notes the shader.
createComputePipeline == {"null"}

\* getOrCreateGraphicsPipeline: what is in the cache is not tried again.
getOrCreateGraphicsPipeline(s) ==
  \E p \in createGraphicsPipeline :
    pipelines' = [pipelines EXCEPT ![s] = IF @ = "absent" THEN p ELSE @]

getOrCreateComputePipeline(s) ==
  \E p \in createComputePipeline :
    pipelines' = [pipelines EXCEPT ![s] = IF @ = "absent" THEN p ELSE @]

\* One draw with the shaders bound last; nothing without both of them.
executeDrawCommands ==
  \/ \E s \in Graphics : getOrCreateGraphicsPipeline(s)
  \/ UNCHANGED pipelines

\* Without a VkPipeline nothing is dispatched.
executeComputeDispatches ==
  \/ \E s \in Compute : getOrCreateComputePipeline(s)
  \/ UNCHANGED pipelines

\* The render pass of execute.
Draw ==
  /\ host = "record"
  /\ executeDrawCommands
  /\ host' = "dispatch"
  /\ UNCHANGED <<todo, ready, objectVars, gpuVars, historyVars>>

\* The dispatches of execute, after the render pass.
Dispatch ==
  /\ host = "dispatch"
  /\ executeComputeDispatches
  /\ host' = "submit"
  /\ UNCHANGED <<todo, ready, objectVars, gpuVars, historyVars>>

\* VulkanContext::endFrame: the slot is submitted, and after that, perhaps, more.
endFrame(more) ==
  /\ queue' = Append(queue, current) \o more
  /\ current' = (current + 1) % 2

\* The rest of execute: endFrame submits; the painter would run only on a
\* history that is valid already, in a submission that is waited for;
\* FramebufferManager::endFrame makes it valid.
Submit ==
  /\ host = "submit"
  /\ IF history[side].valid THEN endFrame(<<2>>) /\ host' = "drain"
                            ELSE endFrame(<< >>) /\ host' = "idle"
  /\ history' = [history EXCEPT ![side].valid = TRUE]
  /\ UNCHANGED <<todo, ready, objectVars, fence, side, frame, pipelines>>

\* An upload of the asset pipeline: begin- and endSingleTimeCommands.
Upload ==
  /\ host = "idle" /\ ready
  /\ queue' = Append(queue, 2)
  /\ host' = "drain"
  /\ UNCHANGED <<todo, ready, objectVars, current, fence, historyVars, pipelines>>

\* vkDeviceWaitIdle and vkQueueWaitIdle: there is one queue.
waitIdle == queue = << >>

Drained ==
  /\ host = "drain" /\ waitIdle
  /\ host' = "idle"
  /\ UNCHANGED <<todo, ready, objectVars, gpuVars, historyVars, pipelines>>

\* setResolution, without waiting for the GPU; it makes a FramebufferManager
\* also when init has failed, which changes nothing for execute: there are no
\* fences then.
setResolution ==
  /\ IF handles.device = 0 THEN UNCHANGED <<handles, alive, todo>>
     ELSE IF images > 0
     THEN /\ Destroyed({"framebuffer", "view", "swapchain"})
          /\ todo' = <<"swapchain", "framebuffers">>
     ELSE /\ Destroyed({"framebuffer"})
          /\ todo' = <<"framebuffers">>
  /\ host' = "creating"
  /\ NewHistories
  /\ UNCHANGED <<ready, leaked, images, gpuVars, frame, pipelines>>

\* setQualityPreset of NvService: every preset sets a resolution, of the
\* executor if there is one.
setQualityPreset == host = "idle" /\ setResolution

\* shutdownVulkan waits for the device when there is one, and destroys.
Shutdown ==
  /\ host = "idle"
  /\ host' = "closing"
  /\ UNCHANGED <<todo, ready, objectVars, gpuVars, historyVars, pipelines>>

\* Mutant: the recompiler survives the context.
Kept == pipelines

\* The recompiler goes, and its caches with it: the modules, layouts and
\* pipelines in them are not destroyed.  The context destroys the render pass.
Forgotten == NoPipelines

Abandoned == {k \in {"pipeline"} : \E s \in Graphics : pipelines[s] # "absent"}

\* A surface is there when the shell has given one: the instance is then the
\* shell's, and the context has none to destroy the surface with.
GivenSurface == handles["swapchain"] = 1 /\ handles["instance"] = 0

Close ==
  /\ host = "closing" /\ waitIdle
  /\ host' = "none" /\ ready' = FALSE /\ images' = 0
  /\ Destroyed(Kind)
  /\ leaked' = leaked \cup Abandoned \cup {k \in {"surface"} : GivenSurface}
  /\ current' = 0 /\ fence' = Signaled
  /\ NewHistories /\ frame' = 0
  /\ pipelines' = Forgotten
  /\ UNCHANGED <<todo, queue>>

\* vkDestroySurfaceKHR without an instance may do anything.
CloseCrashes ==
  /\ host = "closing" /\ waitIdle /\ GivenSurface
  /\ host' = "crashed"
  /\ UNCHANGED <<todo, ready, objectVars, gpuVars, historyVars, pipelines>>

\* The GPU finishes the oldest submission and signals its fence.
GpuCompletes ==
  /\ queue # << >>
  /\ queue' = Tail(queue)
  /\ fence' = [s \in Slot |-> fence[s] \/ s = Head(queue)]
  /\ UNCHANGED <<host, todo, ready, objectVars, current, historyVars, pipelines>>

Creating ==
  \/ createInstance \/ pickPhysicalDevice \/ createLogicalDevice
  \/ createSwapchain \/ createRenderPass \/ createFramebuffers
  \/ createCommandPool \/ createCommandBuffers \/ createSyncObjects \/ CreationEnds

FramesNext ==
  \/ InitVulkan \/ InitFromExisting \/ Creating
  \/ BeginExecute \/ BeginRecording \/ Draw \/ Dispatch \/ Submit
  \/ Upload \/ Drained \/ setQualityPreset \/ Shutdown
  \/ Close \/ CloseCrashes \/ GpuCompletes

\* The host goes on with what it has begun, and the GPU works.
Fairness ==
  /\ WF_framesVars(GpuCompletes)
  /\ WF_framesVars(Creating) /\ WF_framesVars(BeginRecording)
  /\ WF_framesVars(Draw) /\ WF_framesVars(Dispatch) /\ WF_framesVars(Submit)
  /\ WF_framesVars(Drained) /\ WF_framesVars(Close)

FramesSpec == FramesInit /\ [][FramesNext]_framesVars /\ Fairness

-----------------------------------------------------------------------------
\* No command buffer is recorded while the GPU still runs it: with two of them
\* and frames, uploads and changes of resolution in any order, the fence of the
\* slot is what has been waited for, and it was reset for that submission.
RecordedIsIdle ==
  host \in {"record", "dispatch", "submit"} => ~Contains(queue, current)

\* Of the two histories the painter is given, the one of the frame being drawn
\* is not taken for complete before endFrame, and the previous one, when it is
\* valid, is that of the frame just before and of no earlier one, also after a
\* change of resolution between two frames.
HistoryIsPreviousFrame ==
  /\ host \in {"wait", "record", "dispatch", "submit"} => ~history[side].valid
  /\ history[1 - side].valid => history[1 - side].frame + 1 = history[side].frame

\* Whatever failed on the way, at start or in changes of resolution, shutdown
\* destroys every object of the context's handles (fences, semaphores, pool,
\* framebuffers, pass, views, swapchain, device, instance): a later creation never
\* replaces a handle of an object that is still there.  None is destroyed twice.
HeldObjectsGo ==
  /\ \A k \in Kind : alive[k] >= handles[k]
  /\ host = "none" => alive = None

\* Of all objects this does not hold of the code: the images of the offscreen
\* framebuffers are let go on purpose (367-376), pipelines, their layouts and
\* modules have no destructor, and a surface is destroyed without its instance.
NothingLeft == HeldObjectsGo /\ (host = "none" => leaked = {})

\* A pipeline that is drawn with was made for the render pass of the context
\* there is: none outlives it, through changes of resolution, failed starts and
\* restarts with another device.
PipelinesFitThePass ==
  (\E s \in Graphics : pipelines[s] = "made") => alive["pass"] = 1

\* Whatever the host waits for comes: no frame, upload or shutdown blocks.
EveryWaitEnds ==
  /\ host \in {"wait", "drain"} ~> host = "idle"
  /\ host = "closing" ~> host \in {"none", "crashed"}
=============================================================================
