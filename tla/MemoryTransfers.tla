--------------------------- MODULE MemoryTransfers ---------------------------
(***************************************************************************)
(* Memory allocations and the transfer queue that clears them              *)
(* (src/libs/vkd3d/memory.c).  An allocation is a slice of a chunk, or     *)
(* memory of its own.  Memory that must read as zero is cleared by a       *)
(* command that is queued, and submitted before the next command list; a   *)
(* clear can still be queued, or running, when its allocation is freed.    *)
(* The same queue copies CPU-written texels into textures.                 *)
(*                                                                         *)
(* Two mutexes are involved: the allocator's, which the destruction of a   *)
(* chunk holds while it waits for the GPU, and the queue's, whose critical *)
(* sections are one step each.                                             *)
(***************************************************************************)
EXTENDS ChunkRanges, FiniteSets, SequencesExt

CONSTANTS
  Threads,        \* application threads
  Nobody,         \* as the holder of the allocator's mutex
  Alloc,          \* allocations
  NoAlloc,
  Memory,         \* VkDeviceMemory objects
  NoMemory,
  Resource,       \* textures the CPU writes to
  NoResource,     \* the entry that ends the tracker
  Requests,       \* allocation requests: size, alignment, zeroed, dedicated
  ChunkSize,      \* VKD3D_MEMORY_CHUNK_SIZE
  CommandBuffers, \* VKD3D_MEMORY_TRANSFER_COMMAND_BUFFER_COUNT
  MaxPending,     \* VKD3D_MEMORY_TRANSFER_QUEUE_MAX_PENDING_BYTES
  MaxSubmissions, \* bound: submissions of the transfer queue
  MaxCalls        \* bound: allocations and texture writes

ASSUME MemoryTransfersAssumption ==
  /\ ChunkSize \in Nat \ {0} /\ CommandBuffers \in Nat \ {0} /\ MaxPending \in Nat \ {0}
  /\ MaxSubmissions \in Nat /\ MaxCalls \in Nat
  /\ Requests \subseteq [size : 1..ChunkSize, alignment : 1..ChunkSize,
                         zeroed : BOOLEAN, dedicated : BOOLEAN]
  /\ Nobody \notin Threads
  /\ NoMemory \notin Memory
  /\ NoResource \notin Resource
  /\ NoAlloc \notin Alloc

VARIABLES
  allocator_mutex,      \* who holds it between steps
  memory,               \* per memory object: kind, size, ranges, clear
  content,              \* per memory object, what each unit of it reads as
  allocation,           \* per allocation: see Allocation
  transfers,            \* queue->transfers
  num_bytes_pending,
  next_signal_value,
  last_known_value,
  command_buffer_index,
  inflight,             \* submissions the GPU has not finished, in order
  semaphore,            \* the counter of vk_semaphore
  refs,                 \* per resource: references
  released,             \* resources the application has let go
  tracked,              \* queue->tracked_resources
  tracking,             \* the tracker's own array
  tracker,              \* "running", or "ended"
  thread,               \* per thread: where it is, its allocation, and the value
                        \* it waits for
  use,                  \* per allocation: "unused", "submitted" or "used"
  need,                 \* per allocation: the value its command list waits for
  calls                 \* bound: allocations and texture writes so far

allocator == <<allocator_mutex, memory, content, allocation>>
queue == <<transfers, num_bytes_pending, next_signal_value, command_buffer_index>>
gpu == <<inflight, semaphore>>
tracking_vars == <<refs, released, tracked, tracking, tracker>>
work == <<use, need, calls>>
vars == <<allocator, queue, last_known_value, gpu, tracking_vars, thread, work>>

\* kind: "none", "chunk" or "dedicated"; clear: clear_semaphore_value.
NoObject == [kind |-> "none", size |-> 0, ranges |-> <<>>, clear |-> 0]

\* state: "none", "held" from the suballocation to the end of its release.
NoAllocation == [state |-> "none", memory |-> NoMemory, offset |-> 0, size |-> 0,
                 zeroed |-> FALSE, clear |-> 0]

Idle == [at |-> "idle", on |-> NoAlloc, wait |-> 0]

Units(offset, size) == offset..(offset + size - 1)

Init ==
  /\ allocator_mutex = Nobody
  /\ memory = [m \in Memory |-> NoObject]
  /\ content = [m \in Memory |-> [u \in 0..(ChunkSize - 1) |-> "junk"]]
  /\ allocation = [a \in Alloc |-> NoAllocation]
  /\ transfers = <<>> /\ num_bytes_pending = 0
  /\ next_signal_value = CommandBuffers + 1
  /\ last_known_value = CommandBuffers
  /\ command_buffer_index = 0
  /\ inflight = <<>> /\ semaphore = CommandBuffers
  /\ refs = [r \in Resource |-> 1] /\ released = {}
  /\ tracked = <<>> /\ tracking = <<>> /\ tracker = "running"
  /\ thread = [t \in Threads |-> Idle]
  /\ use = [a \in Alloc |-> "unused"] /\ need = [a \in Alloc |-> 0] /\ calls = 0

-----------------------------------------------------------------------------
(* The transfer queue.                                                     *)

\* The indices of the queued writes, in order.
Writes(queued) == {i \in DOMAIN queued : queued[i].op = "write"}
ListsWrites(written, queued) ==
  /\ Writes(queued) = {written[j] : j \in DOMAIN written}
  /\ \A j, k \in DOMAIN written : j < k => written[j] < written[k]

\* The resources they write are referenced until the copies are done.
track_resources(written, queued) ==
  /\ refs' = [r \in Resource |-> refs[r] +
                Cardinality({j \in DOMAIN written : queued[written[j]].resource = r})]
  /\ tracked' = tracked \o [j \in DOMAIN written |->
                  [resource |-> queued[written[j]].resource, value |-> next_signal_value]]

\* Mutant: the ring is one command buffer longer than it is.
reusable_too_early == semaphore + 1 >= next_signal_value - CommandBuffers

\* vkd3d_memory_transfer_queue_wait_semaphore(queue, next_signal_value -
\* VKD3D_MEMORY_TRANSFER_COMMAND_BUFFER_COUNT) returns.
reusable == semaphore >= next_signal_value - CommandBuffers

\* vkd3d_memory_transfer_queue_flush_locked, when queued are the transfers and
\* bytes their size: record them, and submit them.
flush_locked(queued, bytes) ==
  IF queued = <<>>
  THEN /\ transfers' = queued
       /\ num_bytes_pending' = bytes
       /\ UNCHANGED <<next_signal_value, command_buffer_index, last_known_value,
                      inflight, refs, tracked>>
  ELSE /\ next_signal_value <= CommandBuffers + MaxSubmissions
       /\ reusable
       /\ last_known_value' = IF last_known_value >= next_signal_value - CommandBuffers
                              THEN last_known_value
                              ELSE next_signal_value - CommandBuffers
       /\ inflight' = Append(inflight, [value |-> next_signal_value,
                                        buffer |-> command_buffer_index,
                                        transfers |-> queued])
       /\ \E written \in [1..Cardinality(Writes(queued)) -> Writes(queued)] :
            ListsWrites(written, queued) /\ track_resources(written, queued)
       /\ next_signal_value' = next_signal_value + 1
       /\ command_buffer_index' = (command_buffer_index + 1) % CommandBuffers
       /\ num_bytes_pending' = 0
       /\ transfers' = <<>>

\* Mutant: one more transfer is taken before the queue is flushed.
execute_transfer_locked_late(transfer) ==
  LET queued == Append(transfers, transfer)
      bytes == num_bytes_pending + transfer.size
  IN IF bytes > MaxPending
     THEN flush_locked(queued, bytes)
     ELSE /\ transfers' = queued
          /\ num_bytes_pending' = bytes
          /\ UNCHANGED <<next_signal_value, command_buffer_index, last_known_value,
                         inflight, refs, tracked>>

\* vkd3d_memory_transfer_queue_execute_transfer_locked.
execute_transfer_locked(transfer) ==
  LET queued == Append(transfers, transfer)
      bytes == num_bytes_pending + transfer.size
  IN IF bytes >= MaxPending
     THEN flush_locked(queued, bytes)
     ELSE /\ transfers' = queued
          /\ num_bytes_pending' = bytes
          /\ UNCHANGED <<next_signal_value, command_buffer_index, last_known_value,
                         inflight, refs, tracked>>

\* The transfer that clears a region.
clear_of(x) == [op |-> "clear", memory |-> x.memory, offset |-> x.offset,
                size |-> x.size, resource |-> NoResource]

write_of(r) == [op |-> "write", memory |-> NoMemory, offset |-> 0, size |-> 0,
                resource |-> r]

\* vkd3d_memory_transfer_queue_wait_semaphore without a timeout: has the value
\* been reached?  The counter is read only when the known value is too small.
poll(value) ==
  last_known_value' = IF last_known_value >= value THEN last_known_value ELSE semaphore

-----------------------------------------------------------------------------
(* vkd3d_allocate_memory.                                                  *)

hold(a, request, m, offset, clear) ==
  allocation' = [allocation EXCEPT ![a] =
    [state |-> "held", memory |-> m, offset |-> offset, size |-> request.size,
     zeroed |-> request.zeroed, clear |-> clear]]

start(t, a, place) ==
  thread' = [thread EXCEPT ![t] = [at |-> place, on |-> a, wait |-> 0]]

proceed(t, place) == thread' = [thread EXCEPT ![t].at = place]

return(t) == thread' = [thread EXCEPT ![t] = Idle]

\* A handle that nobody uses: any will do.
unused_memory ==
  LET unused == {m \in Memory : memory[m].kind = "none"} IN
  IF unused = {} THEN {} ELSE {CHOOSE m \in unused : TRUE}

unused_allocation ==
  LET unused == {a \in Alloc : allocation[a].state = "none"} IN
  IF unused = {} THEN NoAlloc ELSE CHOOSE a \in unused : TRUE

Chunks == {m \in Memory : memory[m].kind = "chunk"}
FittingChunks(request) ==
  {m \in Chunks : Fitting(memory[m].ranges, request.size, request.alignment) # {}}

\* A slice of memory object m, whose free ranges are given; it inherits the
\* chunk's clear_semaphore_value.
slice(a, request, m, object) ==
  LET index == pick_range(object.ranges, request.size, request.alignment)
      offset == align(object.ranges[index].offset, request.alignment)
  IN /\ memory' = [memory EXCEPT ![m] =
          [object EXCEPT !.ranges = take_range(@, index, offset, request.size)]]
     /\ hold(a, request, m, offset, object.clear)

\* vkd3d_suballocate_memory, from a chunk with room or from a new one.
Suballocate(t, a, request) ==
  /\ thread[t].at = "idle" /\ allocator_mutex = Nobody
  /\ a = unused_allocation /\ calls < MaxCalls
  /\ calls' = calls + 1
  /\ ~request.dedicated
  /\ \/ \E m \in FittingChunks(request) :
          slice(a, request, m, memory[m])
     \/ /\ FittingChunks(request) = {}
        /\ \E m \in unused_memory :
             slice(a, request, m,
                   [kind |-> "chunk", size |-> ChunkSize, clear |-> 0,
                    ranges |-> <<[offset |-> 0, length |-> ChunkSize]>>])
  /\ IF request.zeroed THEN start(t, a, "fill") ELSE UNCHANGED thread
  /\ UNCHANGED <<allocator_mutex, content, queue, last_known_value, gpu, tracking_vars, use, need>>

\* vkd3d_memory_allocation_init: memory of its own.
AllocateDedicated(t, a, request) ==
  /\ thread[t].at = "idle"
  /\ a = unused_allocation /\ calls < MaxCalls
  /\ calls' = calls + 1
  /\ request.dedicated
  /\ \E m \in unused_memory :
       /\ memory' = [memory EXCEPT ![m] = [kind |-> "dedicated", size |-> request.size,
                                           ranges |-> <<>>, clear |-> 0]]
       /\ hold(a, request, m, 0, 0)
       /\ IF request.zeroed THEN start(t, a, "fill") ELSE UNCHANGED thread
  /\ UNCHANGED <<allocator_mutex, content, queue, last_known_value, gpu, tracking_vars, use, need>>

\* vkd3d_memory_transfer_queue_fill_allocation.
Fill(t) ==
  LET a == thread[t].on IN
  /\ thread[t].at = "fill"
  /\ allocation' = [allocation EXCEPT ![a].clear = next_signal_value]
  /\ memory' = IF memory[allocation[a].memory].kind = "chunk"
               THEN [memory EXCEPT ![allocation[a].memory].clear = next_signal_value]
               ELSE memory
  /\ execute_transfer_locked(clear_of(allocation[a]))
  /\ return(t)
  /\ UNCHANGED <<allocator_mutex, content, semaphore, released, tracking, tracker,
                 work>>

-----------------------------------------------------------------------------
(* vkd3d_free_memory.                                                      *)

\* What the thread frees: the allocation, or its chunk.
Whole(t) == allocator_mutex = t
Region(t) ==
  LET a == allocation[thread[t].on] IN
  IF Whole(t) THEN [memory |-> a.memory, offset |-> 0, size |-> ChunkSize,
                    clear |-> memory[a.memory].clear]
  ELSE [memory |-> a.memory, offset |-> a.offset, size |-> a.size, clear |-> a.clear]

\* The application frees an allocation when the GPU does not use it any more.
Free(t, a) ==
  /\ thread[t].at = "idle"
  /\ allocation[a].state = "held"
  /\ \A u \in Threads : thread[u].at # "idle" => thread[u].on # a
  /\ use[a] # "submitted"
  /\ start(t, a, IF allocation[a].clear = 0 THEN "give" ELSE "poll")
  /\ UNCHANGED <<allocator, queue, last_known_value, gpu, tracking_vars, work>>

\* vkd3d_memory_transfer_queue_wait_allocation: is the clear done?
Poll(t) ==
  /\ thread[t].at = "poll"
  /\ poll(Region(t).clear)
  /\ proceed(t, IF last_known_value' >= Region(t).clear THEN "give" ELSE "unqueue")
  /\ UNCHANGED <<allocator, queue, gpu, tracking_vars, work>>

\* Mutant: a value nobody may ever signal is waited for.
last_signalled_unclamped(value) == value

\* The value to wait for: the last one submitted, if the clear it stands for
\* was removed from the queue.
last_signalled(value) ==
  IF value = next_signal_value THEN next_signal_value - 1 ELSE value

\* Take the clear out of the queue, the last transfer takes its place; else
\* remember what to wait for, unless the chunk will do that.
Unqueue(t) ==
  LET region == Region(t)
      queued == {i \in DOMAIN transfers : transfers[i] = clear_of(region)}
      i == CHOOSE j \in queued : \A k \in queued : j <= k
  IN
  /\ thread[t].at = "unqueue"
  /\ IF queued # {}
     THEN /\ transfers' = SubSeq([transfers EXCEPT ![i] = Last(transfers)],
                                 1, Len(transfers) - 1)
          /\ num_bytes_pending' = num_bytes_pending - region.size
          /\ proceed(t, "give")
     ELSE IF memory[region.memory].kind = "chunk" /\ ~Whole(t)
     THEN /\ proceed(t, "give")
          /\ UNCHANGED <<transfers, num_bytes_pending>>
     ELSE /\ thread' = [thread EXCEPT ![t] =
                           [@ EXCEPT !.at = "wait", !.wait = last_signalled(region.clear)]]
          /\ UNCHANGED <<transfers, num_bytes_pending>>
  /\ UNCHANGED <<allocator, next_signal_value, command_buffer_index, last_known_value,
                 gpu, tracking_vars, work>>

\* Back from vkWaitSemaphores.
Waited(t) ==
  /\ thread[t].at = "wait"
  /\ semaphore >= thread[t].wait
  /\ last_known_value' = IF last_known_value >= thread[t].wait THEN last_known_value
                         ELSE thread[t].wait
  /\ proceed(t, "give")
  /\ UNCHANGED <<allocator, queue, gpu, tracking_vars, work>>

\* What is left in freed memory counts as junk.
forget_allocation(t) ==
  /\ content' = [content EXCEPT ![allocation[thread[t].on].memory] =
       [u \in DOMAIN @ |-> IF u \in Units(Region(t).offset, Region(t).size)
                           THEN "junk" ELSE @[u]]]
  /\ allocation' = [allocation EXCEPT ![thread[t].on] = NoAllocation]
  /\ use' = [use EXCEPT ![thread[t].on] = "unused"]
  /\ need' = [need EXCEPT ![thread[t].on] = 0]
  /\ return(t)

\* vkFreeMemory, of memory that is not a chunk's slice or of a whole chunk.
GiveMemory(t) ==
  LET m == allocation[thread[t].on].memory IN
  /\ thread[t].at = "give"
  /\ Whole(t) \/ memory[m].kind = "dedicated"
  /\ memory' = [memory EXCEPT ![m] = NoObject]
  /\ allocator_mutex' = IF Whole(t) THEN Nobody ELSE allocator_mutex
  /\ forget_allocation(t)
  /\ UNCHANGED <<queue, last_known_value, gpu, tracking_vars, calls>>

\* Give the range back; a chunk that is free now is destroyed, with the
\* allocator's mutex held.
GiveRange(t) ==
  LET a == allocation[thread[t].on]
      ranges == free_range(memory[a.memory].ranges, a.offset, a.size)
  IN
  /\ thread[t].at = "give"
  /\ allocator_mutex = Nobody /\ memory[a.memory].kind = "chunk"
  /\ memory' = [memory EXCEPT ![a.memory].ranges = ranges]
  /\ IF is_free(ranges, ChunkSize)
     THEN /\ allocator_mutex' = t
          /\ proceed(t, IF memory[a.memory].clear = 0 THEN "give" ELSE "poll")
          /\ UNCHANGED <<content, allocation, use, need>>
     ELSE /\ forget_allocation(t)
          /\ UNCHANGED allocator_mutex
  /\ UNCHANGED <<queue, last_known_value, gpu, tracking_vars, calls>>

-----------------------------------------------------------------------------
(* Command lists, the GPU, and textures written by the CPU.                *)

\* Mutant: command lists wait for no transfer.
add_wait_to_no_queue == 0

\* vkd3d_add_wait_to_all_queues, by every flush: what the next submission of
\* any queue waits for.
add_wait_to_all_queues == next_signal_value' - 1

\* d3d12_command_queue_ExecuteCommandLists flushes the transfers first; every
\* submission after that waits for the last one of them.
Execute(t, a) ==
  /\ thread[t].at = "idle"
  /\ allocation[a].state = "held" /\ use[a] = "unused"
  /\ \A u \in Threads : thread[u].at # "idle" => thread[u].on # a
  /\ flush_locked(transfers, num_bytes_pending)
  /\ use' = [use EXCEPT ![a] = "submitted"]
  /\ need' = [need EXCEPT ![a] = add_wait_to_all_queues]
  /\ UNCHANGED <<allocator, semaphore, released, tracking, tracker, thread, calls>>

\* vkd3d_memory_transfer_queue_flush, by a thread of its own accord.
Flush(t) ==
  /\ thread[t].at = "idle" /\ transfers # <<>>
  /\ flush_locked(transfers, num_bytes_pending)
  /\ UNCHANGED <<allocator, semaphore, released, tracking, tracker, thread, work>>

\* The command list runs, and writes to the allocation.
Run(a) ==
  /\ use[a] = "submitted"
  /\ semaphore >= need[a]
  /\ use' = [use EXCEPT ![a] = "used"] /\ need' = [need EXCEPT ![a] = 0]
  /\ content' = [content EXCEPT ![allocation[a].memory] =
       [u \in DOMAIN @ |-> IF u \in Units(allocation[a].offset, allocation[a].size)
                           THEN "data" ELSE @[u]]]
  /\ UNCHANGED <<allocator_mutex, memory, allocation, queue, last_known_value, gpu,
                 tracking_vars, thread, calls>>

\* The GPU finishes a submission of the transfer queue.
Complete ==
  /\ inflight # <<>>
  /\ LET cleared(m) == UNION {Units(x.offset, x.size) :
                                x \in {y \in ToSet(Head(inflight).transfers) :
                                         y.op = "clear" /\ y.memory = m}}
     IN content' = [m \in Memory |-> [u \in DOMAIN content[m] |->
                      IF u \in cleared(m) THEN "zero" ELSE content[m][u]]]
  /\ semaphore' = Head(inflight).value
  /\ inflight' = Tail(inflight)
  /\ UNCHANGED <<allocator_mutex, memory, allocation, queue, last_known_value,
                 tracking_vars, thread, work>>

IsQueued(r) == \E i \in DOMAIN transfers : transfers[i].resource = r

\* vkd3d_memory_transfer_queue_write_subresource.
Write(t, r) ==
  /\ thread[t].at = "idle" /\ r \notin released /\ ~IsQueued(r)
  /\ calls < MaxCalls
  /\ calls' = calls + 1
  /\ execute_transfer_locked(write_of(r))
  /\ UNCHANGED <<allocator, semaphore, released, tracking, tracker, thread, use, need>>

\* The application's last Release of the resource, assumed not to come before
\* the writes to it were submitted: a queued write has no reference of its own.
ReleaseResource(t, r) ==
  /\ thread[t].at = "idle" /\ r \notin released
  /\ ~IsQueued(r)
  /\ released' = released \cup {r}
  /\ refs' = [refs EXCEPT ![r] = @ - 1]
  /\ UNCHANGED <<allocator, queue, last_known_value, gpu, tracked, tracking, tracker,
                 thread, work>>

\* vkd3d_memory_transfer_queue_cleanup, when the application has let go of
\* everything.
Cleanup ==
  /\ released = Resource
  /\ \A a \in Alloc : allocation[a].state = "none"
  /\ ~\E i \in DOMAIN tracked : tracked[i].resource = NoResource
  /\ ~\E i \in DOMAIN tracking : tracking[i].resource = NoResource
  /\ tracker = "running"
  /\ tracked' = Append(tracked, [resource |-> NoResource, value |-> 0])
  /\ UNCHANGED <<allocator, queue, last_known_value, gpu, refs, released, tracking,
                 tracker, thread, work>>

\* vkd3d_memory_transfer_queue_run_thread: take all entries, ...
Track ==
  /\ tracker = "running" /\ tracking = <<>> /\ tracked # <<>>
  /\ tracking' = tracked
  /\ tracked' = <<>>
  /\ UNCHANGED <<allocator, queue, last_known_value, gpu, refs, released, tracker,
                 thread, work>>

\* ... wait for each of them, and release its resource.
Untrack ==
  LET entry == Head(tracking) IN
  /\ tracker = "running" /\ tracking # <<>>
  /\ IF entry.resource = NoResource
     THEN tracker' = "ended" /\ UNCHANGED <<refs, last_known_value>>
     ELSE /\ semaphore >= entry.value
          /\ last_known_value' = IF last_known_value >= entry.value
                                 THEN last_known_value ELSE entry.value
          /\ refs' = [refs EXCEPT ![entry.resource] = @ - 1]
          /\ UNCHANGED tracker
  /\ tracking' = Tail(tracking)
  /\ UNCHANGED <<allocator, queue, gpu, released, tracked, thread, work>>

-----------------------------------------------------------------------------
FreeStep(t) == Poll(t) \/ Unqueue(t) \/ Waited(t) \/ GiveMemory(t) \/ GiveRange(t)

Next ==
  \/ \E t \in Threads, a \in Alloc :
       \/ \E request \in Requests : Suballocate(t, a, request) \/ AllocateDedicated(t, a, request)
       \/ Free(t, a)
       \/ Execute(t, a)
  \/ \E t \in Threads : Fill(t) \/ FreeStep(t) \/ Flush(t)
  \/ \E t \in Threads, r \in Resource : Write(t, r) \/ ReleaseResource(t, r)
  \/ \E a \in Alloc : Run(a)
  \/ Complete \/ Cleanup \/ Track \/ Untrack

Spec == Init /\ [][Next]_vars

-----------------------------------------------------------------------------
(* Properties.                                                             *)

TypeOK ==
  /\ allocator_mutex \in Threads \cup {Nobody}
  /\ \A m \in Memory :
       /\ memory[m].kind \in {"none", "chunk", "dedicated"}
       /\ memory[m].size \in 0..ChunkSize /\ memory[m].clear \in Nat
       /\ \A i \in DOMAIN memory[m].ranges :
            memory[m].ranges[i] \in [offset : 0..(ChunkSize - 1), length : 1..ChunkSize]
  /\ content \in [Memory -> [0..(ChunkSize - 1) -> {"junk", "zero", "data"}]]
  /\ allocation \in [Alloc -> [state : {"none", "held"}, memory : Memory \cup {NoMemory},
                               offset : 0..(ChunkSize - 1), size : 0..ChunkSize,
                               zeroed : BOOLEAN, clear : Nat]]
  /\ num_bytes_pending \in 0..(MaxPending - 1)
  /\ next_signal_value \in Nat /\ last_known_value \in Nat /\ semaphore \in Nat
  /\ last_known_value <= semaphore /\ semaphore < next_signal_value
  /\ command_buffer_index \in 0..(CommandBuffers - 1)
  /\ Len(inflight) = next_signal_value - 1 - semaphore
  /\ refs \in [Resource -> Nat] /\ released \subseteq Resource
  /\ tracker \in {"running", "ended"}
  /\ thread \in [Threads -> [at : {"idle", "fill", "poll", "unqueue", "wait", "give"},
                             on : Alloc \cup {NoAlloc}, wait : Nat]]
  /\ use \in [Alloc -> {"unused", "submitted", "used"}] /\ need \in [Alloc -> Nat]

\* The allocations that own a slice of memory m now.
Owners(m) ==
  {a \in Alloc : /\ allocation[a].state = "held" /\ allocation[a].memory = m
                 /\ \A t \in Threads : Whole(t) => thread[t].on # a}

\* The free list of a chunk is sorted and joined, and lists exactly what no
\* allocation owns, and no two allocations share a byte: for any order of
\* allocations and frees, by any thread.
FreeRangesExact ==
  \A m \in Chunks :
    LET ranges == memory[m].ranges
        units(a) == Units(allocation[a].offset, allocation[a].size)
    IN /\ \A i, j \in DOMAIN ranges : i < j => end(ranges[i]) < ranges[j].offset
       /\ UNION {Units(ranges[i].offset, ranges[i].length) : i \in DOMAIN ranges}
            = (0..(ChunkSize - 1)) \ UNION {units(a) : a \in Owners(m)}
       /\ \A a, b \in Owners(m) : a # b => units(a) \cap units(b) = {}

\* A clear that is queued belongs to an allocation; one that was submitted, to
\* memory that still exists.  Submissions that are not finished have command
\* buffers of their own, and the textures they write are referenced.
TransfersHitLiveObjects ==
  /\ \A i \in DOMAIN transfers :
       LET x == transfers[i] IN
       IF x.op = "write" THEN refs[x.resource] > 0
       ELSE \E a \in Alloc : /\ allocation[a].state = "held"
                             /\ x = clear_of(allocation[a])
  /\ \A i \in DOMAIN inflight :
       /\ \A x \in ToSet(inflight[i].transfers) :
            IF x.op = "write" THEN refs[x.resource] > 0 ELSE memory[x.memory].kind # "none"
       /\ \A j \in DOMAIN inflight : inflight[i].buffer = inflight[j].buffer => i = j

\* Memory that must read as zero does so when its first command list may run, and
\* what a command list wrote is not cleared under it: no clear, its own or that of
\* an earlier owner of the slice, comes late.
ClearsAreInTime ==
  \A a \in Alloc :
    LET units == Units(allocation[a].offset, allocation[a].size)
        reads(what) == \A u \in units : content[allocation[a].memory][u] = what
    IN /\ use[a] = "submitted" /\ semaphore >= need[a] /\ allocation[a].zeroed => reads("zero")
       /\ use[a] = "used" => reads("data")

\* Nobody waits for a value that no submission signals, whatever was taken out
\* of the queue meanwhile; and every reference to a texture that was released
\* is one the tracker still has to drop.
EveryWaitEnds ==
  /\ \A t \in Threads : thread[t].at = "wait" => thread[t].wait < next_signal_value
  /\ LET entries == ToSet(tracked) \cup ToSet(tracking) IN
       \A x \in entries : x.value < next_signal_value
  /\ \A r \in Resource :
       LET of_r(list) == Cardinality({i \in DOMAIN list : list[i].resource = r}) IN
       refs[r] = of_r(tracked) + of_r(tracking) + (IF r \in released THEN 0 ELSE 1)
  /\ tracker = "ended" => tracked = <<>> /\ tracking = <<>>
=============================================================================
