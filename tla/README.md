# Verification of MGD

MGD is an emulator of the Switch's operating system layer (HOS), an ARM64
interpreter and a renderer, written in C++ with an Android shell. This
directory holds TLA+ models of the parts whose correctness depends on the
order in which things happen, TLC configurations that check them on small
instances, and TLAPS proofs for every value of their parameters.

Paths below are relative to `src/`; `hos/`, `cpu/`, `gpu/`, `runtime/` stand
for `emulador-mgd/hos/` and so on.

## The system

One host thread drives everything. `Emulator::frame` pumps the services, steps
the world, drains the GPU queue and presents; `Emulator::runCpu` and
`runThreads` run guest code, which reaches the kernel through SVCs
(`Cpu::step` -> `Kernel::call`). An SVC, a service command and a frame each run
to their end. What is concurrent is the *guest*: threads, sessions and
submissions are interleaved by the scheduler, the pump and the host's calls in
orders nobody wrote down. That is what the models explore.

| Component | State | Operations | Called by | Correct when |
|---|---|---|---|---|
| Scheduler (`hos/Thread.h`) | run queue, ids, clock, current id | `spawn`, `sleep`, `run`, snapshot | host, SVC 0x08 | no thread lost, doubled, starved or overslept; `run` returns |
| CPU interpreter (`cpu/Cpu.h`) | registers, exception state, timers, pending interrupts | `run`, `step`, `save`, `load` | scheduler, host | a context survives load/run/save; interrupts are taken where they are due |
| Handles (`hos/Kernel.h`) | number -> tag | create, get, close, SVC 0x13 | all handle SVCs | a number is never reused; a live one names a live object |
| Mutexes (`hos/Mutex.h`) | id -> owner | SVCs 0x16-0x19 | guest threads | threads exclude each other |
| Events (`hos/Event.h`) | id -> signaled, manual | SVCs 0x1A-0x1E | guest threads, vi:u | one signal releases one wait |
| IPC (`hos/Session.h`, `PortRegistry.h`, `ServiceManager.h`, the pump) | two bounded queues per session, ports and their counters | send, receive, reply, connect, pump, SVCs 0x0E-0x12 | host clients, guest, frame | answers in order, at most once, none dropped, no session starved |
| nvdrv:a (`hos/NvService.h`) | channels, pending fences, completed fence | open, close, submit, query, wait, drain | pump, frame | fences complete in order and all of them; query and wait tell the truth |
| Memory (`ram/Mmu.h`, SVCs 0x01-0x06) | region list | map, unmap, protect, translate, query | CPU, guest | a translation obeys the permissions last set |
| Processes (`hos/Kernel.h`) | pid -> process | create, kill | host | ids are unique |
| Applets (`hos/AppletService.h`) | applets, stack | create, start, push, pop, notify | pump | states follow their protocol; the stack names applets |
| vi:u, fsp-srv, small services (`hos/*Service.h`) | layers, files, single fields | dispatch | pump | each command answers from its table |
| Save state (`runtime/Emulator.h`) | a copy of most tables | `snapshot`, `restore` | host | a restored system behaves like the saved one |
| Frame loop and runner (`runtime/`) | frame counter, running/paused flags | `frame`, `initialize`, `runFrame`, `shutdown` | Android shell | no use before creation or after shutdown |
| Boot chain (`loader/`) | none kept | parse, decrypt, relocate | runner, host | every failing step ends the boot |
| GPU executor, Vulkan backend (`gpu/`) | decoded state, device resources | execute, create, destroy, resize | nvdrv:a, runner | resources live while used |
| Framebuffer optimizer, caches, painters (`core/gpu/`) | tile sets, cache entries | process frame, insert, evict | frame loop | a reused tile is not dirty |
| World, mental map, hand-off (`odyssey/`, `core/`) | chunks, camera | step, query, poll | frame loop | (geometry) |
| Android shell (`android/`) | views, a copy thread | UI callbacks, JNI | user | no emulation before its files are copied |

What is hard here: guest calls that land between two steps of the scheduler's
loop; one register file that all threads share; interrupts between the fetch
of an instruction and its execution; table entries removed through one handle
while another thread uses them; two writers and one pump on a pair of bounded
queues; a vector erased while it is iterated; counters kept apart from what
they count; ids packed in the low bits of a tag; a list of regions whose order
decides; ids allocated in the middle of an instruction that has one already;
two frames in flight on a device whose creation may fail at every step; loaders
that give up half-way; and a snapshot that leaves tables out. `PROJECT.json`
lists each hazard at its line with the properties that cover it, or why none
does.

## Modules

| Module | Models | Checked by | Proved in |
|---|---|---|---|
| `Scheduler` | `hos/Thread.h`, the run loop and SVC exit of `cpu/Cpu.h` | `MCScheduler` | `SchedulerProofs` |
| `CpuExceptions` | control of `cpu/Cpu.h`: run loop, interrupts, timer, exception entry and return, jumps | `MCCpuExceptions` | `CpuExceptionsProofs` |
| `Machine` | registers of `cpu/Cpu.h`: what each family of instructions checks, writes and stores, and how threads share them | `MCMachine` | `MachineProofs` |
| `PrivateRegisters` | abstract: each thread has its registers to itself | implemented by `Machine` | |
| `KernelSync` | handle table, `hos/Mutex.h`, `hos/Event.h`, SVCs 0x13, 0x16-0x1E | `MCKernelSync` | `KernelProofs` |
| `GuestMemory` | `ram/Mmu.h` and the memory SVCs | `MCGuestMemory` | `KernelProofs` |
| `Ipc` | sessions, ports, pump, SVCs 0x0E, 0x10-0x12 | `MCIpc` | `ServicesProofs` |
| `RpcPromise` | abstract: what a client may expect of one request | implemented by `Ipc` | |
| `NvFence` | `hos/NvService.h` commands 1-6 and the drain | with `NvGpu` | `NvFenceProofs` |
| `GpuCommands` | the decoder `gpu/Gpu.cpp`, the resources of commands 8-11 | with `NvGpu` | `NvFenceProofs` |
| `NvGpu` | `NvFence` composed with `GpuCommands` | `MCNvFence` | `NvFenceProofs` |
| `ShaderIds` | the recompiler of `gpu/VulkanBackend.cpp`: ids and registers | `MCShaderIds` | `VulkanProofs` |
| `VulkanFrames` | context, frames, swapchain, pipeline caches of `gpu/VulkanBackend.cpp`; `core/gpu/FramebufferManager.h` | `MCVulkanFrames` | `VulkanProofs` |
| `Applets` | `hos/AppletService.h`, with snapshot and restore | with `Boot` | `ServicesProofs` |
| `Boot` | loaders of NSO, NRO and NSP composed with `Applets` | `MCBoot` | `ServicesProofs` |
| `SaveState` | `snapshot` and `restore` of `runtime/Emulator.h` over threads, handles and mutexes (by INSTANCE of `KernelSync`) and sessions | `MCSaveState` | `SaveStateProofs` |

`PROJECT.json` maps every definition to the lines it stands for. In each module
definitions whose comment starts with *Mutant* are not part of the model: they
are the plausible bugs the properties were tested against.

### Scheduler

`Scheduler::run` is modelled at the grain of its loop: head, idle jump, pick,
guest instructions, end of slice. A context is abstracted to the number of
instructions it has executed (`State::steps`), which is enough to see a context
lost, repeated or swapped. The running thread is a local copy, as in the code,
so guest spawns change the queue beside it. `Fault` is an instruction or fetch
that fails; `SvcStop` is `svc #0`; every other SVC ends with the test of
`exited_`, which nothing clears. The host may call only between two `run` calls.

*Properties.* `OnePlace`, `BoundedOvertaking` (the exact round-robin guarantee
of "first of the most urgent, back to the end"), `ClockIsWork` (the clock equals
the instructions of all contexts plus the ticks it jumped), `NoOversleep`,
`RunReturns`. History: `overtaken`, `spent`.

*Bounds.* Three threads are the least with a waiting one, a running one and a
third that could overtake; two priorities; quantum 2 and budgets 1 and 3 give
slices cut by the quantum and calls cut by the budget; `MaxElapsed` stops host
calls, and a run started before it goes on to its end.

*Fairness.* Weak fairness of the loop and of the guest instruction: both are
straight C++ on one thread. The host need not call, so deadlock is not checked.

### CpuExceptions

One action is one turn of the loop of `Cpu::run`: fetch, `checkInterrupts`,
`step`. Since the fetch comes first, an instruction that is interrupted executes
at the vector, with `pc_` of the vector, and ELR is `pc_ + 4`: for an
instruction that only moves on, that is where the program continues, so nothing
is lost. What reads `pc_` (a jump, ADRP, LDR literal: action `literal`) computes
from the vector's, what sets the flags sets the handler's, and what faults is
lost to the program: `InterruptsAreTransparent` excepts exactly these through the
history variable `due`. Values of registers are not modelled. Addresses are an
area (the program, or one of the vectors that can be taken) and an offset.

The decoder compares `insn & mask` with patterns that have bits outside the
mask, so HVC, SMC (it runs as SVC), the writes of SPSR, of the registers of
levels 2 and 3 and of the timers are never executed (Cpu.h:233-342, 742-827), and
MSR to ESR or FAR writes ELR. Levels 2 and 3 are never reached. `PatternBits`
keeps that arithmetic, since the property depends on what MSR writes.

*Properties.* `InterruptsAreTransparent`, `WayBackKept` (ELR and SPSR of a
handler survive further interrupts, because entry sets both masks).

*Bounds.* Areas of two instructions; a compare value that is due at the second
turn and one that never is; seven turns: entry, handler, return, and a second
interrupt of another kind queued meanwhile. Interrupts of one kind that the
host queues are one at a time; those of the timer pile up as in the code.

### Machine

Each family of `step` is the set of sequences of micro-operations it may
perform, in the order of the code: checks that may make `step` answer false,
writes, stores. A word that matches no family, or only a block that an earlier
one shadows (TBL, PMULL, MOVI, FCVTN, FRECPE, EXT, FMULX), is unknown or belongs to the
earlier one. One register, any one, is observed: values are in a small set and
properties hold of every register because the choice is made in `Init`.

`Cpu::State` holds `fp_.d[0..31]`, and the union lays `q[n]` over
halves `2n` and `2n + 1`: only the vectors below 16 are saved (`Saved`), the
others are `Lost`; the comment at Cpu.h:3374 says otherwise. Programs use them
all the same.

*Properties.* `FaultsArePrecise`: an instruction that faults has written no
register, so that the scheduler may retry it. `ThreadsKeepTheirRegisters`:
`Machine` implements `PrivateRegisters` for each register: one a context holds is
each thread's own, and a lost half is `common`, one for all, the main program
included.

*Bounds.* Two threads and the main program, three general registers (one is the
link register), two SIMD registers of which one is saved whole and one lost, two values.

### KernelSync

One action per SVC. Which thread calls is left open: module `Scheduler` chooses
it, and nothing here depends on the choice. A tag is modelled as a kind and
`id % TagSize`, what `tag & 0xFFF` returns. The guest modelled passes handles of
the right kind, live or stale: the code never checks the kind (a mutex SVC acts
on whatever id an event handle carries), and no property is stated for that.
`inside` records who believes to hold a lock: a successful lock enters, a
successful unlock leaves. Re-locking is not counted by the code, so one unlock
frees; `MutualExclusion` is stated for what the code promises.

*Bounds.* Three handles: two objects of one kind, or a stale handle beside a
live one and a third made after. Two threads. Counting `released` and `told`
stops at 2, one past the limit of the properties.

### GuestMemory

The list of regions, searched from the front, and the SVCs that change it.
Addresses are numbers modulo `Width`. `Source` is what `translate` answers for
an alias; permissions come from `find`, a different search, as in the code.
Requests that the code carries out without checking (a heap over RAM, a mapping
over another) are carried out here.

*Properties.* `OthersKeepTheirMeaning`: while no two regions overlap, a request
changes only addresses it names, although `unmap` fills its hole with the last
region. `AliasesAgree`: an alias stays the memory of its source.

*Bounds.* Six addresses, RAM of one, sizes 0 to 2, four requests: three regions
besides RAM and one that is removed; sums that wrap; empty regions. The last
address, whose end wraps to 0, is left out of the properties; that accesses
there pass the check of `translate` is what the code does (the comment at Mmu.h:5
says it fails closed).

### Ipc

The three parties of a session and the pump are the actions. A request is a
number, whether its service understands it, and the name its sender meant; a
reply is the request it answers and who wrote it (service, SendSyncRequest's
echo, or the guest). `allSessions` copies an `unordered_map`, so "the first
session with room" is any of them. `Ipc` implements `RpcPromise` under the
mapping `StatusOf`, which reads a request's status off the queues (and has a value for
"twice", which the promise excludes); the run checks it as `AnsweredAtMostOnce`. `sm:` GetService is host-side here as it
is in the code: the guest gets handles but never a session of its own.

*Runs.* `ipc`: one booted service and one port the guest makes, everybody
active. `ipc_window`: clients keep at most `kMaxQueue` messages in their session
(both queues together) and the guest stays out; then no answer is lost and each
is read. Both conditions matter: without the window the pump drops answers
(allowed in `ipc`, visible as status *gone*), and the guest's replies go into
other clients' sessions.

*Bounds.* `kMaxQueue` is 2 instead of 64: full, one free and empty are all that
the code tells apart. Three requests on two sessions fill one queue and leave one for
the other; five in the window run fill, drain and refill. Requests run out by
the bound, so the window run does not check deadlock.

*Fairness.* Weak fairness of the pump (`frame` calls it first, every frame) and
of a client that has a reply to read.

### NvFence

Commands are atomic except the two that loop over `pending_`, which take a step
per iteration. The range-for of WaitFence erases from the vector it iterates
over. In C++ that is undefined; in a build, `vector::erase` of the front moves
the elements down and neither reallocates nor overwrites the last slot, and the
loop keeps its two iterators, so slot `it` holds element `it` of what is left
or, past the new end, the last element of before. That is operator `Slot`.

*Properties.* In spite of it `PendingIsTheRest` holds: `pending_` is exactly
the fences above `completed_fence_`. `WaitGoesByTriangles` says how far a wait
gets: erasing as it goes, it meets the 1st, 3rd, 6th, ... of the fences that
were pending, and completes up to the last of these not beyond its own, or all
when it is for the newest. `EveryFenceCompletes` holds too. What fails is what the loop is for
(`WaitedIsComplete`) and what QueryFence answers (`QueryTellsTheTruth`).

*Fairness.* Loops run on, and the drain is strongly fair: a frame follows
finitely many commands, because the pump takes one request per session. The
properties are checked in the composition below, and proved for any number of
channels and fences.

### GpuCommands and NvGpu

`GpuCommands` decodes a buffer a command per step. Guests submit any sequence of
the given commands, with lengths or with length 0, and the last may be cut off.
nvdrv:a keeps `MaxWords` words of it (16384 in the code, NvService.h:88) and
drops the rest: `Kept`. `expected` is what the commands ask for that lie wholly
in what is kept; `promised` is false for a buffer without lengths in which an
operand would be a command when met as a header. `NvGpu` composes it with
`NvFence`: a Submit starts a buffer, and nothing of nvdrv:a comes between its
turns.

*Properties.* `EffectsAreThoseAskedFor` over all submissions of all channels, and the
three of `NvFence` under the composition; the safety ones are proved for any commands
(`CommandsAssumption`), submissions of any length and any `MaxWords`.

*Bounds.* One channel, four fences: the loop of WaitFence takes the first and the
third and then reads past the end of the vector. Two commands to a buffer, of
which three words are kept: one is met after the operands of another, one is cut
by the end of what is kept, one lies wholly past it. One draw has operands that,
met as headers, bind a texture: with a length it must take effect all the same.
*Fairness.* As for `NvFence`, and the
decoder goes on with its buffer, being a loop.

### ShaderIds

An instruction of the guest's shader is a *recipe* of its case in the switch:
allocate the result id, look up operands (a register met for the first time
takes three more ids), emit, bind. The guest's program runs beside the
translation, by its own rules (`Execute`): an instruction whose predicate holds
writes its destination, whatever the translator does with it. The translator
decodes the predicate and ignores it (VulkanBackend.cpp:989, 1035, 2062), drops
some instructions (1088, 1633) and keeps predicates among the registers (1178).
A register it then no longer follows is `adrift` until it is written again, and
so is one that is moved from it; after a jump the guest is `lost`. `value` is
what a register holds in the guest, `defined` and `redefined` the results of emitted instructions.
Opcodes are `insn & 0x7F`, so labels from 0x80 on are never selected (their
recipes are modelled, and reached only by a wider mask); where labels repeat, the
first counts. Most of lines 1205-1284 and 1455-1637 are such repetitions, and left out.

*Properties.* `OneResultPerId` (only the type of samplers is emitted more than
once; an id may still be defined by none: 1106), `RenamingFollowsValues` (on the
straight line two registers that are not adrift share an id exactly when they
hold one value in the guest). Both are proved.

*Bounds.* Three registers: one that fits the three bits of `src1`, one that does
not, and one whose number is the id of the first constant; an opcode of each
recipe, one that is dropped (0x16) and a jump, with predicates that hold or not;
two instructions, so that each recipe meets what each other has left.

### VulkanFrames

The host thread and the GPU. Each step of `init` may fail and leave the
rest undone; the objects that exist (`alive`) are counted apart from the
handles the context has. Frames alternate between two command buffers with a
fence each; uploads wait for the queue; `setResolution` makes swapchain and
framebuffers anew without waiting. Both ways to start are modelled, with the
window or the shell's own device. The first `execute` after a failed `init`
dereferences a null `FramebufferManager`: host state *crashed*, as may the end of
a context whose surface came from the shell (`CloseCrashes`: line 81 passes a null
instance). Without a swapchain a framebuffer is made over two images that the code lets
go on purpose (367-376); these, the pipelines and that surface are in `leaked`.

*Properties.* `RecordedIsIdle`, `HistoryIsPreviousFrame`, `PipelinesFitThePass`,
`EveryWaitEnds`, and `HeldObjectsGo`: what the context has a handle of is destroyed
once by shutdown, wherever a creation failed. `NothingLeft`, which asks the same
of all that was ever made, is stated and does not hold.

*Bounds.* Two images (one view made and one not), four frames (each buffer is
reused), two pairs of shaders and a compute shader. The bound on frames ends a
device's life without another `Shutdown` being needed, so deadlock is not checked.
*Fairness.* The host goes on with what it began, since it is one thread of
straight code; the GPU works off its queue; nobody need begin anything.

### Applets and Boot

`Applets` is the table, the stack and the numbers; `held` are the numbers the
guest keeps in its memory, each with the program it was asked for, and a restored
snapshot gives back the numbers of then. `Boot` adds memory: files with segments
that fit or do not, unpack or do not; the boots of `Emulator`; and the boot
callback by which StartApplet loads at 0x10000000, so that applets overwrite one
another and, with the 64 KB default of RAM, none fits and each start answers
EXITED.

*Properties.* `StackNamesApplets`, `HeldNumbersNameTheirApplets` (although
`restoreApplet` only adds, so that numbers are given out twice), `BootedIsWhole`.

*Bounds.* Two applet numbers, one made before a snapshot and one after; a stack
of one (two give nothing new: only its top is read); mains that are invalid, too
big, or unpack to less, in a container before one that loads and in one without; RAM of ten cells with the base of applets in the middle.

### SaveState

The tables a snapshot touches, the operations that change them between two
snapshots, and `snapshot` and `restore`. Handles and mutexes are module
`KernelSync` itself (`K!svcLockMutex` and so on), so its properties can be asked
of a system that is restored. The host snapshots between calls of `runThreads`,
so no slice is under way.

What the code copies: the handle table with its counter, the queue of threads,
and for each port the guest made all sessions. What it does not: mutexes, events,
ports and their session counts, the counters of threads and sessions. `restore`
recomputes those two counters, from the highest id it puts back. RAM and
registers come back, so who believes to be inside a mutex (`inside`) does too.
The record types of a thread and of a service differ by name from layer to layer
(`Scheduler::ThreadSnapshot`, `Kernel::ThreadSnapshot`,
`Snapshot::KernelState::ThreadState`) with the same fields; the model takes the
copy of a vector of one into a vector of the other to be field by field. The loop
of `restoreServices` assigns each session once per port, in the order of an
`unordered_map`: any port may be last.

*Properties.* `ThreadIdsDistinct`, `NoSharedMutex` and `NoSessionReplaced` say
that what identifies things stays unique although counters are rolled back.
`MutualExclusion` is stated and does not hold (see below).
*Bounds.* Two threads, two handle numbers and mutexes, two sessions on one port
of the guest's own: the least in which something made after the snapshot meets
something restored. No port is published at boot, since a published port differs
only in being there from the start. Nothing here is promised to happen, so there
is no fairness.

## Runs

All runs pass. A property that is only a type is left to the proofs where there
is one.

| Run | Question | Properties | Distinct states |
|---|---|---|---|
| `scheduler` | are threads conserved, treated fairly and woken in time, whatever the host and guest do? | `TypeOK`, `OnePlace`, `BoundedOvertaking`, `ClockIsWork`, `NoOversleep`, `RunReturns` | 603,552 |
| `machine` | does every thread find the registers it left, and may a faulting instruction be tried again? | `FaultsArePrecise`, `ThreadsKeepTheirRegisters` | 46,512 |
| `cpu_exceptions` | does a program notice that it was interrupted? | `InterruptsAreTransparent`, `WayBackKept` | 73,272 |
| `kernel_sync` | do mutexes exclude, events release one, and handles stay true under stale and foreign closes? | `TypeOK`, `MutualExclusion`, `HandlesNameObjects`, `OneReleasePerSignal`, `NoHandleReuse` | 89,332 |
| `guest_memory` | does a request change only the addresses it names, in a list whose order counts? | `AliasesAgree`, `OthersKeepTheirMeaning` | 409,768 |
| `ipc` | are answers in order and at most once with three writers, and is every session served? | `SessionsCounted`, `AnswersInOrder`, `AnsweredAtMostOnce`, `EveryRequestServed` | 142,662 |
| `ipc_window` | under which discipline is nothing lost? | `NothingLost`, `EveryAnswerRead` | 8,201 |
| `nv_fence` | is the pending list right in spite of the loop that erases under itself, how far does a wait get, and is what is kept of the buffers executed as asked? | `PendingIsTheRest`, `EffectsAreThoseAskedFor`, `WaitGoesByTriangles`, `EveryFenceCompletes` | 133,383 |
| `shader_ids` | does the renaming of registers follow the guest's values, and is no id defined twice? | `OneResultPerId`, `RenamingFollowsValues` | 1,287,725 |
| `vulkan_frames` | are command buffers reused only when they are idle, and is everything held released after any failure? | `RecordedIsIdle`, `HistoryIsPreviousFrame`, `HeldObjectsGo`, `PipelinesFitThePass`, `EveryWaitEnds` | 261,836 |
| `boot_applets` | is a booted program whole after half-done loads, and do numbers keep naming their applets? | `StackNamesApplets`, `HeldNumbersNameTheirApplets`, `BootedIsWhole` | 841,015 |
| `save_state` | do ids, handles and sessions stay distinct across snapshots and restores? | `ThreadIdsDistinct`, `NoSharedMutex`, `NoSessionReplaced` | 3,228,916 |

## What the code does otherwise than it says

Met while modelling; in each case the model does what the code does.

- `MutexTable` takes owner 0 for free, and 0 is also the thread id of code run
  by `runCpu` (Mutex.h:25, Thread.h:78): with `Thread = {0, 1}`, `MutualExclusion`
  of `KernelSync` fails.
- svcWaitEvent answers OK whether the event was signalled or not (Kernel.h:620).
- The loop under "finds the session by the tag" never looks at the tag
  (Kernel.h:475): `RoutedByTag` of `Ipc` fails, a guest's request waits in a session of
  another service.
- WaitFence answers while its fence is queued (NvService.h:120), with fences 1, 2,
  3 and WaitFence(2); QueryFence denies the newest complete fence (line 112).
  `WaitedIsComplete` and `QueryTellsTheTruth` of `NvFence` fail.
- A submission past 64 KB is cut there, and answered and fenced like any other
  (NvService.h:88).
- Guest predicates are decoded and ignored by the shader recompiler
  (VulkanBackend.cpp:989, 1035, 2062); several of its cases emit nothing.
- The offscreen images are abandoned at each change of resolution (367-376, "vaza
  de proposito"), shader modules, layouts and pipelines are never destroyed, and a
  surface given by the shell is destroyed with a null instance (81): `NothingLeft` of
  `VulkanFrames` fails.
- The save state is said to freeze the kernel (Emulator.h:180) and leaves the
  mutexes out: `MutualExclusion` of `SaveState` fails.
- Boots do not clear what a main that was given up has left where an NSO's bss is
  (`bss` is parsed and not used, NsoLoader.h:86); a second boot that fails destroys a running game's memory.
- SetHeapSize checks the heap against nothing and never unmaps; UnmapMemory
  removes the first region of a base, so with an empty region at the same base the
  wrong one, and answers OK (Kernel.h:302).
- MapMemory takes the address from `translate` and the permissions from `find`, which
  may be of different regions (Kernel.h:294).
- Index and constant buffers of three operands take the next header for a fourth (Gpu.cpp:71, 80).
- `execute` after a failed `init` uses a null pointer; the result of vkQueueSubmit
  is ignored, so that a failure blocks the slot's next wait (VulkanBackend.cpp:111);
  `setResolution` destroys framebuffers that may be in flight (412); the painter's
  condition is never true (2326); a pipeline that failed once is never tried again,
  and one draw per submission is issued, with what was bound last.
- STR X with a scaled offset is decoded as a prefetch (Cpu.h:2526), STR W as a
  load (2891); a masked timer queues an interrupt at every turn and a FIQ waits
  until no IRQ is left.
- Not all of the source compiles at this commit: a missing header (BitField.h),
  names that are not declared (Cpu.h:236-247), repeated case labels and a stray
  brace in VulkanBackend.cpp, `auto& exec` over two types (NvService.h:134),
  methods defined twice (AppletService.h, Kernel.h). The models take the evident
  reading: the first of two labels, the one type that has the members used.

## Proofs

Each safety property of the runs is a theorem, for every value of the
constants that the module's named assumption allows. The proofs follow one plan:
an inductive invariant, a lemma per group of actions, one step per action, and
the theorem by temporal reasoning. Hypotheses beyond the assumptions on constants
are named operators, and stand in the statement of the theorem. Of buffers without
lengths `EffectsAreThoseAskedFor` says something only while `promised`: that is part of
the property, and each run and proof includes the buffers of which it says nothing.

| Hypothesis | Says | Why |
|---|---|---|
| `NoAlias` (`KernelSync`, `SaveState`) | fewer handles are made than a tag tells apart | ids are packed in 12 bits; past 4095 TLC finds two handles on one mutex |
| `Scheduled` | no thread has id 0 | `MutexTable` takes owner 0 for free |
| `NoGuest`, `KeepsWindow` (`Ipc`) | clients keep a window, the guest writes no replies | otherwise the pump drops answers |
| `WellFormed` (`Boot`) | no file is both NRO and main; segments follow each other below the applets | the loader checks neither; files from a linker are so |

- **SchedulerProofs.** `OnePlace` needs that every queued id is at most
  `next_id` and, during a slice, differs from `current_id`. `BoundedOvertaking`
  is not inductive: who has overtaken a waiting thread once now stands behind it
  in the queue. `NoOversleep` is an action property from the same invariant.
  `ClockIsWork` needs that outside a slice no context is loaded. Its sum over the
  queue is a recursive function; that running sums exist and are the only ones
  follows from there being no first place where they fail, and what an appended
  or an erased thread changes, from sums written down.
- **KernelProofs.** *Tables*: the invariant adds that whoever is inside holds the
  object its live handle names, or the handle is gone for good; for events, that
  one still signaled has released nobody since. *Memory*: what an address
  means (`Meaning`) is the first region that covers it, so a list without overlaps
  means the same in any order, which is why `unmap` may fill its hole with the last
  region. `RequestsAreLocal` follows step by step. For `AliasesAgree` the invariant
  keeps, beside the equality of meanings, that the addresses of an alias are mapped
  and that there are aliases only while nothing overlaps; sums wrap at every
  `Width`.
- **ServicesProofs.** *Boot and applets*: `BootSpec => AppletsSpec`, so what is
  proved of the applets holds in the booted machine. `EntriesHold` is asked of the
  tables and of every snapshot: held numbers come back together with the entries
  they were given for. `BootedIsWhole` needs that what runs lies below the applets
  and that a load writes its segments one after the other; the tries of `bootNsp`
  are a recursive function, and the main that succeeds is the last to write.
  *IPC*: `SessionsCounted`: a connection opens one session and adds it to one
  count, and nothing closes sessions. Answers are ordered because in every session numbers grow from what was read,
  through what waits to be read, to what is queued (`NumbersOK`). Each step keeps
  every number where it is or moves it to the next queue (`Kept`), or adds the
  newest at the end (`Grown`). From the same two facts a number is in one stage at
  a time, and stages only go forward: the refinement of `RpcPromise`
  (`QueuesKeepThePromise`), with `Next` mapped step by step. `NoAnswerDropped`:
  a request and its answer use one place of the window.
- **NvFenceProofs.** The invariant adds that the slot a running wait may read
  outside the vector is a submitted fence. For `WaitGoesByTriangles` (`WaitOK`): a wait
for an older fence has completed `Triangle(k)` of the fences that were pending, `k` being
its slots so far, or has stopped for good since the next triangular number is beyond it.
The lemma `Completion` computes how many
  elements `completeUpTo` removes from the fact that the queue is contiguous.
  *Executor*: `NvGpuSpec => Spec`, so all of this holds while buffers run. For
  `EffectsAreThoseAskedFor` the invariant (`GpuInv`) says of a running buffer which
  commands were submitted, where each ends among their words (`Stream`) and
  what was asked for after each; that the decoder stands before a command or, when
  lengths are 0 and operands harmless, among the operands of the last it began; and that what is
  bound, drawn and counted is what the commands begun ask for, without a last one
  that was cut, by the guest or by `MaxWords`. A turn at a header (`AtHeader`) begins the next command with its own
  operands; one at an operand (`AtOperand`) does nothing; and the decoder stops
  only after every whole command (`FinishStep`). Resources are made only between
  buffers, so what a command asks for does not change under way. `CommandsAssumption`
  says what the guest's commands are: an opcode of 16 bits, with the operands it needs
  and the optional ones.
- **SaveStateProofs.** Ids in the tables, live or saved, are at most the counter,
  which a restore sets to the maximum (or one more); a handle made after a restore
  names a mutex newer than all the handles restored.
- **CpuExceptionsProofs.** The invariant ties the way back to the program: while a
  handler runs and `due` is known, ELR and SPSR are what is due; and it has both
  masks set, which is why `WayBackKept` follows.
- **MachineProofs.** `Covers` and `Good` describe the sequences that families may
  be: no check after a write. `Refinement`: `Machine` implements `PrivateRegisters`
  with no hypothesis on the programs, `common` being whether the observed register
  is `Lost`.
- **VulkanProofs.** *Shaders*: `RecipeShape` shows that every recipe allocates its
  result before it defines or binds it, each once; the invariant carries that shape
  over what is left of a recipe. For `RenamingFollowsValues` the guest has moved at
  `Decode` and the translator binds later: in between the destination is
  `Unsettled`, and all other registers that are not adrift agree throughout
  (`GuestInv`); what is written anew has a value no register holds, as a
  pending result is an id no register is bound to. *Frames*: `HeldObjectsGo` from `ContextInv` and
  `TodoInv`: handles are exactly objects, and no step still to be done finds
  a handle of its kind, for any number of images and wherever a creation failed.
  `RecordedIsIdle` from `GpuInv`: a queued buffer has its fence down, and the buffer
  recorded is not queued. `HistoryIsPreviousFrame` from the two sides being
  of the last two frames, in turn; `PipelinesFitThePass` from pipelines existing only
  while the context is ready.

Only model-checked:

- everything with `~>` (`RunReturns`, `EveryRequestServed`, `EveryAnswerRead`,
  `EveryFenceCompletes`, `EveryWaitEnds`): liveness is beyond the prover.

## Not modelled, and why

- Framebuffer optimizer, tile grid and cache: bodies are defined twice with
  different members, the insert of the cache has no caller and rebuilt tiles are
  never cleaned. There is no one behaviour to be faithful to.
- Painters, upscalers, world, mental map, culling: floating-point geometry and
  image processing without control of interest.
- Runner and Android shell: `initialize` uses `emulator_` before it is made when a keys
  directory is given (MarioOdysseyRunner.cpp:35) and calls a method the executor
  lacks; the executor it owns never runs a frame, the one of nvdrv:a does.
- vi:u: its events are in an `EventTable` of its own, which no SVC reads, so a
  vsync can wake nobody. fsp-srv and the small services answer each request from
  their own table.
- Processes: `createProcess` and `killProcess` are called by tests only.
- What a snapshot does to sleepers and address spaces (Thread.h:115), which
  needs `SaveState` composed with `Scheduler`.
- Values: of registers, of resources, of the words of SPIR-V, of RAM after boot.
- Cryptography, the offset extractor, HIPC parsing, resources and build files:
  straight-line work on data, better tested with vectors.

What could come next: `SaveState` composed with `Scheduler`.
