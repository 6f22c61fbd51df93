# Verification of vkd3d-proton's queues, fences, presents, memory and cache

vkd3d-proton implements Direct3D 12 on top of Vulkan. Most of its source
translates the structures of one API into the other's, call by call. Its own
logic lies in the few places where D3D12 promises what Vulkan does not give:

- D3D12 lets a queue wait for a value nobody has signalled yet, lets a fence go
  backwards, and has as many queues as the application likes; Vulkan has few
  queues, and a wait submitted before its signal blocks everybody who shares the
  queue. `command.c` keeps a thread per queue that submits, a second one that
  watches the GPU, and a virtual fence that all of them lock.
- D3D12 memory reads as zero; `memory.c` suballocates it from chunks and clears
  it on a queue of its own, while the application already uses or frees it.
- A Present must throttle the application, survive whatever the window system
  does to the Vulkan swapchain, and never lose a frame; `swapchain.c` has three
  threads for it.
- A compiled pipeline should be there at the next start, however this one ends;
  `cache.c` merges files that a killed process may have left in any state.

These modules model that machinery, TLC checks it on small instances, and TLAPS
proves the fence, the order of work across command queues, the multi-fence wait,
the submission queue, the chunk allocator, the swapchain and the disk cache for
instances of any size.

A source file named without a directory is one of `libs/vkd3d`; a line number
without a file is of `command.c`.

## Inventory

| component | state it keeps | operations | modelled in |
|---|---|---|---|
| fence (`d3d12_fence`, 801-1550) | visible value, maximum pending value, pending updates, wait tickets, events, counters | Signal, SetEventOnCompletion, Release; queued Wait and Signal; publication by a fence worker | `FenceOps`, `Fence`, `FenceProofs` |
| multi-fence events (`device.c` 7602-7690, here 843-905) | a shared counter with a signal bit | SetEventOnMultipleFenceCompletion | `MultiFenceWait`, `MultiFenceEvent`, `MultiFenceEventProofs` |
| command queue (21001-22590, 23082-23418) | FIFO of commands, resolved waits not yet submitted, last submission value | ExecuteCommandLists, Signal, Wait; flush, submit | `CommandQueues`, `CommandQueuesProofs`, `CommandQueuesFenceProofs` |
| submission thread (23961-24127) | the command it is at | takes commands in order, may sleep inside a Wait | `CommandQueues`, `SubmissionQueue` |
| queue lock, drain, teardown (21059-21098, 23875-24127, 24266-24330) | mutex, condition variable, two drain counters | add a command, acquire the drained VkQueue, release it, STOP, free | `SubmissionQueue`, `SubmissionQueueProofs` |
| fence worker (418-765) | array of waits for the GPU and callbacks, exit flag | enqueue, take a batch, wait, call back, exit | callbacks in `CommandQueues`, batches and exit in `SubmissionQueue` |
| physical queue (`vkd3d_queue`, 114-365) | timeline semaphore and its counter, global waits | acquire, release, submit | `CommandQueues` (without global waits) |
| command allocators (2106-3330) | submissions in flight | reset refused while in use | count only, in `CommandQueues` |
| swapchain (`swapchain.c`) | request ring, latency semaphore, VkSwapchainKHR, acquire semaphores, wait queue | Present, ResizeBuffers, Release; the callback on the submission thread; the waiter thread | `Swapchain`, `SwapchainProofs` |
| chunk allocator (`memory.c` 1544-1716) | sorted free ranges | allocate, free a range | `ChunkRanges`, `MemoryTransfersProofs` |
| memory allocations and the transfer queue (`memory.c`) | chunks, queued transfers, ring of command buffers, tracked resources, a thread | allocate, free, queue a clear, write a subresource, flush, wait, track | `MemoryTransfers`, `MemoryTransfersProofs` |
| disk cache (`cache.c` 2214-2372, 2777-3555) | three files, the in-memory library, queued items, a thread | merge, load, push, save, teardown | `DiskCache`, `DiskCacheProofs` |
| shared fence (1590-2043) | exported timeline semaphore, event list, polling thread | Signal, SetEventOnCompletion, Release | not modelled |
| transition pool (22693-22956) | ring of 16 command buffers, a timeline | build, wait for reuse, deinit | not modelled |
| sparse binding (23420-23873) | batched binds | queue, flush | not modelled |
| VA map (`va_map.c`) | tree of blocks, sorted list of small ranges | insert, remove, lookup without a lock | not modelled |
| resources, heaps, pipelines, meta operations, ray tracing, debugging, shader front end, DLLs | | translation to Vulkan, I/O | not modelled: sequential, or without influence on the above |

How they interact. The application calls a queue's API from any thread; the call
takes a wait ticket from the fence (Wait) or an internal reference (Wait, Signal)
and appends a command under `queue_lock`. The submission thread takes the command
off. For a Wait it locks the fence and sleeps on `fence->cond` until some signal
that reaches the value has been *submitted*, then turns the Wait into a wait for
that signal's timeline semaphore: by the next submission, on the CPU when another
active queue shares the VkQueue, or not at all when the signal is on the same
VkQueue. For a Signal it records a pending update in the fence and hands the
fence worker an entry with the semaphore value after which the update may become
visible. The fence worker publishes it; before that it handles the entries in
front, which may make it wait for other queues' updates to be published first.
Publication fires events, satisfies tickets and wakes sleeping threads.

A Present queues a callback as one more command of its queue. The callback
acquires an image, blits and presents on the VkQueue, and tells the swapchain's
waiter thread what to wait for; the waiter releases the semaphore that Present
waits for. An ExecuteCommandLists first flushes the transfer queue and makes its
submission wait for the clears submitted so far. The transfer queue's own thread
drops the references of executed texture writes. The disk thread shares nothing
with the others but the cache's maps and its item array.

What is hard here, and at which line, is the list `hazards` of `PROJECT.json`.
The short form:

- a value becomes visible and is rewound before a sleeping thread wakes (978);
- fence workers of different queues publish out of order (1176);
- the cached maximum pending value after a rewind (1053);
- the same-VkQueue shortcut, which leaves no trace in a semaphore (1009, 22570);
- two workers waiting for each other (22199);
- lifetime of a fence released while in use (1269, 22310);
- one condition variable for two kinds of waiter (23897, 24098);
- an entry handed to the fence worker just before it is told to exit (694);
- a counter shared by several fences, each under its own mutex, and a caller that
  may give up under none (`device.c` 7650);
- a ring of present requests without a count of its own (`swapchain.c` 1086);
- a VkSwapchainKHR destroyed while two others use it (`swapchain.c` 2991);
- binary acquire semaphores on every error path (`swapchain.c` 2487);
- image views destroyed by a reallocation that then fails (`swapchain.c` 742);
- a slice freed while its clear is queued or running (`memory.c` 623, 632);
- a chunk destroyed while others wait, or while it is still being written
  (`memory.c` 65);
- a kill between any two file operations of a merge (`cache.c` 3147), and
  entries behind a torn one (`cache.c` 3075, 3410).

## Modules

| module | models |
|---|---|
| `FenceOps` | one operator per function of the fence, on the record the mutex protects |
| `Fence` | one fence and everybody who can touch it |
| `CommandQueues` | several queues, fences and VkQueues, using `FenceOps`; implements `Fence` |
| `SubmissionQueue` | the mutex and condition variable of one queue, its fence worker, its teardown |
| `MultiFenceWait`, `MultiFenceEvent` | promise and implementation of a wait for several fences |
| `ChunkRanges` | the free list of a chunk, pure operators |
| `MemoryTransfers` | allocations, clears and texture writes, using `ChunkRanges` |
| `Swapchain` | application, callback and waiter of one swapchain |
| `DiskCache` | sessions of the disk cache and their files |
| `*Proofs` | theorems |
| `MC*` | instances for TLC |

### Fences

`FenceOps`: each operator maps the record found under `fence->mutex` to the
record left. The record's fields are those of `struct d3d12_fence`; the three
arrays are sets, because the code removes from them by swapping with the last
element and their order matters only for which same-queue update a Wait finds
first, where the model allows every choice.

`Fence`: an action is one locked section. `wait[q]` is the program counter of a
submission thread in `d3d12_fence_block_until_pending_value_reaches_locked`:
`queued` (ticket taken at the API call), `asleep` (in `pthread_cond_wait`),
`awake` (returned from it, lock not retaken). `unpublished` are the updates whose
worker callback is still to run, and `Publish` takes any of them, because workers
of different queues are not ordered. The largest value is `MaxValue` and stands
for `UINT64_MAX`.

`MultiFenceWait` is what `SetEventOnMultipleFenceCompletion` promises;
`MultiFenceEvent` is how it is done. `at[i]` is where entry `i` of the call is: not
registered, listed with its fence, or inside `vkd3d_waiting_event_signal`, whose
atomic operations on the payload are actions of their own, because another fence
may come between any two of them. The fence's mutex is not a variable: a fence is
locked while one of its entries is in flight, and works through them in the order
of its array (`Turn`). `Signal` stands for everything that makes a value visible
(CPU signal, each value published by a fence worker, the last release). The
counter is freed in the action that brings it to zero. Signalling a native event
is taken to succeed, and fences are fences of this process.

### Queues

`CommandQueues`: the application's calls are programs, one sequence of calls per
queue, chosen in the initial state; the calls of different queues interleave
freely. `submissions` keeps a command at its head while the thread works on it,
so `thread[q]` needs no copy of it. A reference that moves from a command to a
pending wait or a worker entry in one function is not taken and given back in the
model: the net effect is what other threads see. Three history variables
(`completed`, `follows`, `promised`) carry what must precede what, and no action
reads them. `WaitOnCpu` is enabled whenever another queue shares the VkQueue: the
code decides by the clock, so either can happen. A VkQueue executes in order;
that is what the barrier command buffer or the serializing semaphore at the end
of each submission is for.

Every fence of `CommandQueues` is shown to be a `Fence` (`FencesAreFences`, by
`INSTANCE Fence WITH ...`). The waiters of that instance are the Wait calls of
the programs, because an application can queue several before the thread reaches
the first.

`SubmissionQueue`: `waiters` is the set of threads inside `pthread_cond_wait`,
and `pthread_cond_signal` removes any one of them. Who waits for a command and
who waits for a drain are in the same set, as in the code. The thread that
acquired the drained queue keeps `queue_lock` until it releases it. Any submission,
a drain and the STOP with their flush of waits included, hands the fence worker any
number of entries (`Enqueues`) before it is done. The worker takes what it
finds in batches (`WorkerTakes`), works on a batch unlocked, and looks at `should_exit`
once per batch, with the lock that gives it the batch; its
`pthread_cond_wait` is guarded by an `if`, so a spurious wakeup gives an empty
batch. The last Release adds a STOP (`SubmitStop`), joins the submission thread,
sets `should_exit` (`StopWorker`) and frees the queue when the worker has
returned (`FreeQueue`).

### Memory

`ChunkRanges` has the search for a free range, taking one, and giving one back.
The list is a sequence of records `[offset, length]`; offsets are in units of the
least alignment. The binary search is given by what it computes on a sorted list,
the first range behind the offset; the loop that picks a range, by the one it ends
with: the first that has exactly the size, or else the first of the largest that
fit.

`MemoryTransfers`: the queue's mutex is held for one step at a time, the
allocator's across steps (`allocator_mutex`), because destroying a chunk waits
for the GPU while holding it. `content[m][u]` says what each unit of memory reads
as: `"zero"`, `"data"` (what its owner wrote), or `"junk"` (whatever was there). A
submission is a batch of clears and writes with its command buffer and signal
value; the GPU finishes submissions in order, each in one step. A command list
uses an allocation after the flush that `need` records. Clears that the CPU can
do in mapped memory, budgets and fallback between memory types, imported memory,
the debug fill and the empty acceleration structure are left out, and a flush
does not fail. `ReleaseResource` is enabled only when no queued write names the
resource: nothing in the queue enforces that, the callers do.

### Swapchain

`Swapchain` models the build for native windows. The ring of requests, the
latency semaphore (`latency`), the done event and `outstanding` are what Present
waits for; `callback` is the program counter of
`dxgi_vk_swap_chain_present_callback`, with one action per call into Vulkan whose
result matters: (re)create, acquire, blit, present. What the window system may
answer (success, suboptimal, out of date, surface lost, no surface) is chosen
freely within `MaxEvents`. The GPU executes `vk_queue` in order, the display
shows `presents` in order; `complete` and `blit_done` are counters of timeline
semaphores. `waiter` keeps the VkSwapchainKHR it read, since it uses it without a
lock.

`user_images` and `user_views` say which reallocation the buffers and their image
views are from. A reallocation that fails (`swapchain.c` 783) puts the old buffers
back, but it has destroyed all views (742), and may have made some of buffers it
then releases (768, 787): `user_views` moves or not, and `user_images` stays. Until
a later reallocation succeeds, a blit that draws reads such a view (2305).
`NothingIsFreedUnderABlit` is about what is freed while a submitted blit needs it,
on both paths, and not about the view a blit finds when it is recorded.

Left out: the occlusion path of Win32 windows, low latency markers (the frame id
equals the present count), modes that can be changed without recreation, device
loss and failed submissions, frame pacing, statistics, HDR metadata. The signal of an acquire semaphore that
arrives late is part of the GPU's delay in executing the blit that waits for it.

### Disk cache

`DiskCache`: a file is the sequence of its whole entries up to the first that is
cut or fails its checksum, because every reader stops there, and `sliced` says
whether bytes follow. `pc` walks the setup of the disk thread
(`vkd3d_pipeline_library_disk_cache_merge` and what follows it in
`vkd3d_pipeline_library_disk_thread_main`), then
idles, saves and tears down. Opening, mapping and renaming may fail, and an append
that fails may leave part of its entry in the merge file. A kill keeps the files, with any part of what was in
a stdio buffer; a new session may run a new build, whose header the old files do
not match. One process uses a path.

## Runs

| run | instance | states | what it shows |
|---|---|---|---|
| `fence` | 2 queues on 2 VkQueues, 1 blocking thread, 1 handle, values 0..2, 2 signals, 2 waits | 381,856 | the fence's invariants, and publication in order |
| `fence_live` | the same with values 0..1 | 29,694 | waiters and events are served |
| `queues` | 3 queues on 2 VkQueues (two share one), 2 fences, 8 programs | 91,332 | ordering, lifetimes, no knot, refinement, everything retires |
| `relay` | one program | | counterexample to `GpuFollowsSignals` |
| `two_signallers` | one program | | counterexample to `VisibleMeansDone` |
| `submission` | 2 threads, 3 commands, 2 drains, 3 entries, one thread draining at a time, teardown | 87,568 | drains mean drained, nothing is lost at the end, every call returns |
| `two_drains` | the same, 2 threads draining at once | | counterexample to `NobodyOversleeps` |
| `multi_fence` | 3 entries on 2 fences, all or any, with and without an event | 6,175 | one signal or an error, exact counter, refinement of `MultiFenceWait` |
| `null_event` | the same | | counterexample to `BlockedUntilCompletion` |
| `memory` | 2 threads, 2 allocations, chunks of 3 units, ring of 2 command buffers, at most 2 units pending, 3 submissions, 3 calls | 954,419 | chunks exact, clears in time, no wait without a signal |
| `swapchain` | 2 buffers, 2 images, latency 2, 1 retry, 3 presents, 2 events | 5,147,704 | no request lost, lifetimes, semaphores alternate, nobody stuck |
| `disk_cache` | 2 pipelines sharing a shader, 2 builds, 2 mishaps | 388,496 | what is stored survives and is promoted |

Bounds. Two values above zero are needed for a rewind with a waiter in between;
two signals for one worker to overtake another; two waits for two tickets to be
confused. Three entries put two on one fence and leave one to fail or to fire
meanwhile. Chunks of three units with requests of one and two give every case
of joining a freed range (before, after, both, none); two chunks' worth of
memory and dedicated requests make a chunk be destroyed while its last clear
runs. Two buffers are the shortest ring that can be overrun, three presents
overrun it; two events give a failure during the recovery from another. Two
mishaps give a kill of the session that recovers from a kill. `MaxUpdates`,
`MaxTickets`, `MaxCommands`, `MaxDrains`, `MaxDrainers`, `MaxEntries`, `MaxSubmissions`,
`MaxCalls`, `MaxPresents`, `MaxEvents`, `MaxItems` and `MaxMishaps` bound the
model and correspond to nothing in the code (`MaxPending`, `CommandBuffers`,
`ChunkSize`, `Buffers`, `Retries` and `FrameLatency` are constants of the code,
made small). Where there are proofs, they remove the bounds. The programs of
`MCCommandQueues` are the shortest that reach, between them, each way a Wait can
be resolved, a rewind by the GPU and by the CPU, a release with work in flight, a
chain through three queues, and waits in both directions. `tests/d3d12_sync.c`
tests the same situations one schedule at a time
(`test_fence_pending_signal_cpu_rewind`, `test_fence_ping_pong_deadlock_stress`,
`test_fence_signal_order_deadlock_stress`, `test_fence_wait_robustness`).

Deadlock is checked in `disk_cache` only. Elsewhere an application may stop
calling, a program may end, and a Wait nobody satisfies blocks its queue by
design (`Unsatisfied`). `NoKnot`, `CallsReturn`, `EveryWaitEnds` and
`NobodyIsStuck` say instead that whoever *has* something to do is not stuck.

### Properties

Fence (`Fence`):

- `NothingWaitsForAVisibleValue`: no ticket or event is left behind a visible value;
- `SubmittedSignalsAreKnown`: the loop of `d3d12_fence_signal` finds each number
  it steps over, and the cached maximum is the greatest value pending or visible;
- `WaitFindsAnUpdate`: the final `assert` of the blocking wait holds;
- `NobodySleepsInVain`: no lost wakeup of a submission thread, no lost latch of a
  caller blocked on a NULL event;
- `SignalsBecomeVisibleInOrder`: publication in submission order in every step;
- `WaitersAreServed`: a queued Wait that some signal reaches gets past the fence,
  a listed event that a submitted signal reaches fires (liveness).

Several fences (`MultiFenceEvent`): `PayloadIsExact` (the shared counter counts
exactly those who may still touch it), `OneSignalOrAnError`, `TemporaryEventIsOpen`,
`PromiseIsKept` (refinement). `TemporaryEventIsOpen` speaks of calls that
registered every entry; when one fails (out of memory), the temporary event is
destroyed (`device.c` 7691) although a fence that cleared the bit may be about to
signal it.

Queues (`CommandQueues`): `GpuFollowsSignals` (work waits for what it was told to
wait for), `VisibleMeansDone`, `CountsAreExact` (references of a fence; an
allocator counts no less than its work in flight), `NoKnot`, `FencesAreFences`,
`EverythingRetires`. Submission (`SubmissionQueue`): `AcquireMeansDrained`,
`ReleaseLosesNothing` (when the queue is freed, every command was executed and
the worker released every entry), `CallsReturn`.

Memory (`MemoryTransfers`): `FreeRangesExact`; `TransfersHitLiveObjects` (queued
and submitted transfers name memory and textures that exist); `ClearsAreInTime`
(zeroed memory reads as zero when its first command list may run, and no clear,
its own or an earlier owner's, lands later); `EveryWaitEnds`.

Swapchain: `RequestsAreKept` (Present overwrites no request whose callback has
not picked it up); `SwapchainsOutliveTheirUsers`; `AcquireSemaphoresAlternate`
(each binary semaphore is waited for once per signal);
`NothingIsFreedUnderABlit` (ResizeBuffers, failing or not, frees no buffer and
destroys no view that a submitted blit was recorded with); `NobodyIsStuck`.

Disk cache: `OnlyReadRemains` (what the comment at `cache.c` 3172 says of the
files after the setup); `ShadersAreStored` (a stored pipeline's shaders are
stored); `SavedBeforeExit`; `StoredSurvives` (no step loses stored entries but by
the deletion of a stale merge file); `EventuallyPromoted`.

Every property has a mutant of the code that breaks it (operators commented
"Mutant" next to the definition they replace; list in `PROJECT.json`).

### Fairness

`Fence`: weak fairness of each thread's wait steps and of each publication. The
submission thread is a running thread that is at most asleep on a condition
variable (the model wakes it only through `broadcast` or spuriously, and spurious
wakeups are not fair), and a submitted signal is published because the GPU
finishes its work. Nothing is asked of the application.

`CommandQueues`: weak fairness of the application's calls, both threads of each
queue, and each VkQueue. `EverythingRetires` speaks only of programs in which,
in every order of the calls, each Wait is satisfied by some call (`Satisfiable`).

`SubmissionQueue`: strong fairness of the submission thread and of a woken
drainer, because all of them compete for a mutex that is free again and again;
weak fairness of the fence worker, which competes with nobody for long, of
releasing the queue, and of the steps of a Release that has begun. That a
Release begins is not asked for.

`MultiFenceEvent`: weak fairness of a fence working on an entry that is due (the
thread holds a mutex and does not wait for anything) and of the caller. No fence
is assumed to complete.

`DiskCache`: weak fairness of the disk thread, and of a program that is started
again and quits again, without which no merge ever happens. Kills are not fair,
and bounded.

`MemoryTransfers` and `Swapchain` state no fairness: `EveryWaitEnds` and
`NobodyIsStuck` are invariants (the value waited for is, or will be, signalled by
a submission that exists; someone on whom the waiting call depends can go on), and
every step but a call uses up work. `NobodyIsStuck` says who can go on by the
condition that each party waits for (`frames_released`, `swapchain_drained`,
`fence_signalled`, ...), the same operators that guard the actions, and not with
`ENABLED`, of which the prover knows nothing.

### What the violations show

`relay`. Q1 and Q2 share a VkQueue. Q1 executes and signals F. Q2 waits for F;
the pending signal is on its own VkQueue, so "we can just rely on submission
order" (1009) and nothing is submitted. Q2 then signals G: its
`last_submission_timeline_value` has not changed since before the wait, so G
stands for an old value, zero in the run. Q3, on another VkQueue, waits for G and
overtakes Q1's work. A submission by Q2 between the Wait and the Signal repairs
it, as in the passing programs, and so does the CPU side, where the order entry
makes Q2's worker wait for F (`QuietRelay` passes).

`two_signallers`. Two queues on different VkQueues signal one fence. The worker
of the second comes first and its loop (1176) publishes the first signal too,
whose work has not run. The comment at 1024 names the assumption "that the submit
which committed a signal order index first will signal first". Two queues on the
same VkQueue can break it as well, when the later signal has the older
`last_submission_timeline_value`.

`two_drains`. Two threads wait for a drain. The first `pthread_cond_signal` (24098)
wakes the second thread, whose drain is not done, and it waits again; the second
signal can wake either one. A thread whose drain is done may sleep on, until some
later command's signal happens to hit it. What one drainer may rely on
(`AcquireMeansDrained`) is proved for any number.

`null_event`. A call waits for all of several fences without an event. It is
blocked on the first one whose value is not visible (1404); when that fence
completes, the counter is not yet zero and nothing sets the latch. The case the
repository tests is the one where every value is visible already
(`tests/d3d12_sync.c` 1550).

Two more observations have no run. In low latency mode (`swapchain.c` 1010)
Present only polls the latency semaphore, and with `LowLatency = TRUE` and enough
presents `RequestsAreKept` fails in the model; with the code's ring of 16 slots
it takes a queue thread that is 16 frames behind. And
`vkd3d_enqueue_initial_transition` (24341) queues an execute without command
buffers: the pool's timeline value is taken (22916) and the resource's transition
marked as done, but the loop over the command buffers submits nothing, so that
value is signalled only by a later build's submission.

## Proofs

Every theorem holds for any value of the constants that satisfies the module's
ASSUME, and speaks of the same `Spec` the runs check. The pattern is everywhere the
same: an inductive invariant found with TLC's help, what each operator or
action does to it, and the property at the end.

`FenceProofs`: the type invariant, the safety invariants of the run
`fence`, their parts, and `SignalsBecomeVisibleInOrder`, from
`MaxValueAssumption` and `FenceAssumption`. The invariants are not inductive one
by one. That a sleeping submission thread has nothing to do needs to
know that nobody else can consume its ticket, so tickets of different
queues differ (`TicketsAreDistinct`), and a new one is new because all issued ones
are at most the counter (`TicketsAreIssued`). When the maximum pending value
rises, sleepers are woken by the broadcast; when it does not, a sleeper's ticket
could only go by the value becoming visible, which needs the ticket's value to be
the one it waits for (`TicketsStandForTheirWait`). `BlockedThreadsAreListed` needs
that a thread has one event only (`OneEventPerThread`), else a second one would
outlive the latch. `IInv` is their conjunction with `InOrder(fence)`, the type
invariant and the range of `unpublished`. The proof goes in three layers: what
each operator of `FenceOps` does to a fence that is in order
(`UpdatePendingValueFacts` to `ConsumeFacts`), then each action on `IInv`
(`SettleStep` is shared by Signal, Release and Publish), then the theorems.
`GreatestProperty` (a non-empty set of values has a greatest element) comes from
the well-foundedness of the naturals.

`CommandQueuesProofs`: `GpuFollowsSignals` and `VisibleMeansDone`, for any number
of queues, VkQueues and fences, any mapping of queues to VkQueues and any
programs. Neither holds of all programs, as `relay` and `two_signallers` show, so
each has a condition on the calls, which the programs of `queues` but one meet:

- `NoQuietRelay`: a queue that waits for a fence signalled on its own VkQueue
  executes something before its next Signal. Then
  `Spec => [](NoQuietRelay(program) => GpuFollowsSignals)`.
- `OneSignaller`, in addition: a fence is signalled by one queue. Then
  `VisibleMeansDone`.

They speak of what the application calls, not of the order in which anything
happens. The idea is what a semaphore value stands for: `Ensured(t, v)` is the
work that is done when the timeline of VkQueue `t` has reached `v`, that is, what
is completed, and what the submissions up to `v` contain or come after. `Covered`
says that everything that has to come first is inside some such set: what a
submission comes after, by the value before its own and the values it waits for
(`SubmissionsCovered`); what a queue's next submission will come after, by the
VkQueue's last value, the waits it has gathered and the one it does on the CPU
(`QueuesCovered`); what was promised with a pending update, by the update's value
(`UpdatesCovered`). The last needs to know of a queue about to signal that its
*own* last value is enough (`LastValueCovers`), and this is where the same-VkQueue
shortcut breaks it, unless an execute comes before the Signal (`SignalsNext`).
`Ensured` only grows (`EnsuredGrows`), because a submission that executes has what
it comes after behind it (`HeadFollows`), which is `GpuFollowsSignals`. For
`VisibleMeansDone`, the values of one signaller ascend (`UpdatesAscend`), so when
the value of the worker's entry is reached, those of all earlier updates are
(`PublishedIsDone`). Below that lies an invariant about the state alone (`Inv`):
commands in the order of the calls, fences in order, an entry that carries its
update's value, a VkQueue that holds what its timeline has not reached.

Three more invariants of the same module hold of every program.

- `NoKnot` (`NeverAKnot`). That somebody can move is about the whole system, so
  `KnotInv` says it of parts first: *every* set of submissions that have not
  executed has a member that waits for none of the set, and so has every set of
  worker entries (`SubmissionsUntied`, `EntriesUntied`). Submitting or enqueueing
  adds one member that may wait for others, and nobody waits for it yet, because
  waits and order entries name values and updates that exist
  (`WaitsSubmitted`, `OrdersKnown`) and an update has its entry from the moment it
  exists (`UpdatesHaveEntries`). Then `Untied` takes the set of everything pending.
- `CountsAreExact` (`CountsAlwaysExact`). The holders of a fence are places in the
  queues' sequences, three sets of pairs of a queue and a position. A step changes
  the sequences of one queue, so what it does to the three sets is what it does to
  that queue's (`SpotsChange`); then each action is balanced: what it adds to
  `refs` is what it adds to the holders (`Balanced`), also where a reference only
  changes hands, from a command to a resolved wait to a worker entry, and no
  count moves at all. The queues need not be finite in number. For the allocators, the
  invariant is stronger than the property (`AllocatorsHeld`): the release entry of
  an execute in flight waits for that submission's *own* value, which is not
  reached, so it cannot retire before (`ReleaseStays`).
- `TypeOK` (`TypeCorrect`): from both, a number of holders being no negative number.

`CommandQueuesFenceProofs`: `FencesAreFences` (`FencesAlwaysAreFences`), for every
program, under `IsFiniteSet(Works)`: finitely many queues and programs of bounded
length, because a `Fence` bounds its tickets and updates and the number of calls is
what `CommandQueues` gives it. Each action is matched with one of `Fence`, for each
fence, or with a stutter (`FenceMoves`). Two views of the state do it: what a call's
Wait is to the fence before and after the step (`WaitNow`, `WaitNext`), and which
updates some worker has still to publish. A call is queued (`OneBecomes`), the thread
moves the Wait at its head and no other (`AllStay` for the rest), a publication wakes
all it should (`AllWake`). That a publication finds its update unpublished and leaves
no copy of it needs `SignalsUnique` (an update has one worker entry); that the bounds
of `Fence` never stop what the queues do needs `Bounded`, which compares each counter
with the calls that can have moved it: tickets with the calls made, updates with the
calls handled, a timeline with the calls handled or about to be.

So the theorems of `FenceProofs` hold of each fence of `CommandQueues`. The last
section takes them over, for any fence `TheFence` and under the same hypothesis: it
is an instance of `Fence` (`TheFenceIsAFence`, the constants meeting
`FenceAssumption` by `FenceMayBeUsed`), so no submission thread of any queue oversleeps
(`NoQueueOversleeps`: asleep, its ticket stands and no signal submitted by any queue
reaches its value), and signals of all queues become visible in the order of their
submission, whichever fence workers come first (`QueuesAlwaysSignalInOrder`). These two
are stated in the queues' own terms and follow from `NoLostWakeup` and `SignalOrder`.

`MultiFenceEventProofs`: the counter is exact and does not underflow, the event
is signalled once or the call fails, and every step of `MultiFenceEvent` is a step
of `MultiFenceWait` or none. The counter is compared with a set (`Outstanding`);
an action either leaves that set alone, takes one entry off
(`PayloadCountedOff`), or takes off all entries the caller stands for
(`RestLess`), which are those from `next` on because entries are registered in
order (`RegisteredInOrder`). That there is one winner has two reasons
(`WinnerIsKnown`): waiting for any, it is the one that cleared the bit; waiting for all,
it is the last one counted. The caller's error excludes both (`DecidedOnce`).
`TemporaryEventIsOpen` follows, with its exclusion of calls that fail at an entry,
from one more fact: once the caller has closed its
event, the signal was given, or the call failed before it had registered every
entry (`ClosedForAReason`).

`SubmissionQueueProofs`: `TypeOK`, `AcquireMeansDrained` for any number of
draining threads, and `ReleaseLosesNothing`. The queue holds the commands and the
drains each in the order of their numbers (`HoldsInOrder`), with no gap up to the
last one added; so a drain that is not done still has its commands ahead or they
are executed (`StillAhead`, `DrainsCover`), whichever thread is woken. STOP is the
last element (`StopIsLast`) because nobody calls a queue without a reference; and
the worker reads `should_exit` in the critical section that takes the batch, so
what it leaves with has nothing behind it (`NothingIsLeft`).

`MemoryTransfersProofs` starts with `ChunkRanges`: for any free list in order, any
size and any alignment, `AllocateExact` and `FreeExact`. `Exact(list, free)` says
that the list is sorted, joined, and lists exactly the set `free`; inserting,
removing and replacing one range preserve it under the conditions the code
establishes (`InsertExact`, `RemoveExact`, `ReplaceExact`), and the four cases of a
free and the four of an allocation are compositions of these. That the search finds
the place, and a range that fits, is `FindFacts` and `PickFacts`; alignment is
arithmetic (`AlignFacts`).

It then carries that through the concurrent program, and proves every property
`MemoryTransfers` states, for any number of threads, allocations, chunks, command
buffers and bytes. Its invariant is in layers, each resting on those before it:

- `Inv`: a thread in the middle of an allocation or a free has that allocation to
  itself (`BusyThreads`); a held allocation is in memory that exists, alone there if
  dedicated (`HeldMemory`); the chunks' lists are `Exact` (`ChunksExact`); who holds
  the allocator's mutex to destroy a chunk destroys one that is all free
  (`WholeChunk`). Most actions move no memory, and share one lemma (`LayoutKept`).
  `FreeRangesExact` and `DestroyedChunksHaveNoOwners` need no more than that.
- `Issued`: unfinished submissions have the values behind the semaphore's and the
  command buffers in turn (`SubmissionsInOrder`); a clear in the queue is there once
  (`QueuedOnce`) and belongs to an allocation whose thread, if it has one, has not
  yet decided to wait (`QueuedBelong`); a clear to come has a value no larger than
  what its memory object remembers (`PendingKnown`); who waits before freeing memory
  waits long enough for every clear of it, and for a value that is signalled
  (`Waits`). The last two are what removing a clear from the queue could break: the
  chunk's `clear_semaphore_value` then names a submission that may never be made,
  and `last_signalled` steps back to one that was.
- `Contents`: a clear to come that overlaps an allocation finds it unused, or
  waited for by its command list (`Uses`); memory that must read as zero does so or
  its own clear is to come (`Zeros`). Clears of earlier owners of a slice are gone
  before a new one gets it, or precede its first command list.
- `Tracking`: references are counted by the tracker's entries (`RefsCounted`), every
  copy in flight has one (`WritesTracked`), and the entry that ends the tracker
  comes after all others (`Ending`).
- `BytesCounted`: `num_bytes_pending` is the number of units the queued clears
  cover, since no two overlap; and `Sizes`.

`SwapchainProofs`: `RequestsAreKept` outside low latency mode, for a ring of any
length. Every frame that Present has counted is in one of three places: in the
latency semaphore, taken by the application, or on its way to the waiter; their
sum is `FrameLatency` at most, so `user_count - present_count` stays below
`Buffers`, and slots of requests not picked up differ.

`SwapchainsOutliveTheirUsers`: what is in the wait queue, and every present on its
way, belongs to the current VkSwapchainKHR; the sentinel that ends the waiter is
last in the queue; before a VkSwapchainKHR goes, the callback has drained the
waiter, and with `swapchain_maintenance1` waited for the fence of every present
(each present not yet through is covered by a fence that is).

`AcquireSemaphoresAlternate` rests on what is known of each semaphore between two
uses (`SemaphoresAreKnown`): signalled, it was acquired and nothing in the queue
waits for it; unsignalled, it is in `acquired` exactly if one entry of the queue
waits for it, and that entry carries the value in `consumed_at`. So waiting for that
value (`EnsureUnsignaledFacts`) leaves nothing that waits, and the semaphore may be
signalled again. `ImageIsAcquired` says at which places of the callback the
current semaphore has to be signalled, or free; each of its error paths keeps it.
Entries of the queue are numbered, so what is executed is a prefix.
`NothingIsFreedUnderABlit`: frames end on the GPU in order, and between callbacks every
blit in the queue is in front of the end of its frame (`FramesEndInOrder`), so when
ResizeBuffers has waited for the last frame no blit is left, whether the reallocation
then succeeds or not. `TypeOK` is proved
outside low latency mode only, since it bounds the latency semaphore by
`FrameLatency`, and there Present does not take a frame each time while the waiter
gives one back for every present.

`NobodyIsStuck` holds in low latency mode too. `Progress` adds to the rest that what
was counted is submitted: the last blit and the last end of a frame are in the queue
unless they are executed (`WorkIsQueued`), and no submission, present or frame waits
for one that was not made (`WaitsAreSignalled`, `PresentsAreBlitted`,
`FramesAreEnded`). So when the GPU and the display cannot go on, they have nothing
left (`TheGpuIsDone`); then the waiter has no frame in hand (`TheWaiterIsDone`), then
no wait of the callback is open (`TheCallbackIsDone`), and then the application's
condition holds: the frames that are nowhere else are in the semaphore
(`FramesAreSomewhere`), the sentinel has ended the waiter (`WaiterIsTold`), the event
is signalled (`EventIsSignalled`).

`DiskCacheProofs`: everything that `DiskCache` promises but liveness. `Inv` says what
the disk thread may rely on at each place of the setup (`Phases`), that the three
files never exist at once and when the write file may (`Files`), and what a merge
has seen and appended so far (`MergeIsComplete`): the write cache is deleted only
when what it stored is in the merge file or the read-only one. That gives
`OnlyReadRemains` and, step by step, `StoredSurvives`. For `SavedBeforeExit`: a pushed
pipeline is waiting, being saved, or in the library (`PushedIsKept`), and the library
is backed by the files and the buffer of the write file while that works
(`LibIsStored`). For `ShadersAreStored`: in every file, and across the boundary from
the read-only cache to the write cache, a pipeline's shader comes first
(`ShadersComeFirst`). Order is what survives: a file torn at any point is a prefix, and a
prefix of an ordered sequence is ordered; a merge drops only keys it has seen.

Only model-checked: liveness, that is `WaitersAreServed`, `CallsReturn`,
`EverythingRetires`, `EventuallyPromoted` and the liveness part of `PromiseIsKept`
(its safety part is proved, `CallKeepsItsPromise`). Every other property of the
passing runs is proved.

## Not modelled

Of the modelled components: failing locks and allocations (reported and given up),
device loss and failing Vulkan submissions and waits, staggered and split
submissions and the fallback queue (an `Execute` is one submission), the global
waits of a physical queue, callbacks other than a present's. For memory, swapchain
and cache see their sections above. Private data, names, tracing: no effect.

Shared fences hand a timeline semaphore to another process, whose behaviour is not
in this code. The VA map is read without a lock through relaxed stores: a model
would have to be one of the memory model first. (Reading the code: the lookup of
a live *small* resource can return its large neighbour while that one, in the same
block's `r` slot, is being inserted or removed; lookups of large resources are not
affected.) Sparse binding, command recording, resources, descriptors, pipelines,
meta operations and the shader front end are sequential translation with a large
data part and little state; they are most of the repository's lines, and tests
against a real driver say more about them than a model would.

## Plan

1. `Fence`, `CommandQueues`, `SubmissionQueue`, `MultiFenceEvent` and the proofs
   of the first and the last. Done.
2. `DiskCache`, `ChunkRanges` and `MemoryTransfers`, `Swapchain`; teardown and the
   fence worker's batches in `SubmissionQueue`; the proofs of `SubmissionQueue`,
   of the chunks, of the swapchain and of the disk cache. Done.
3. `TransitionPool`: the ring and its timeline, composed with executes that submit
   nothing. `CommandQueues`: staggered and fallback submissions with the
   monotonicity of the submission timeline; failing waits.
4. `SharedFence` with a polling thread and a foreign signaller.
5. Proofs: the order of work in `CommandQueues`, its counts, that nothing is ever
   tied up, the refinement of `Fence` step by step and what its theorems say of the
   queues; that nobody is ever stuck in `Swapchain`. Done.
