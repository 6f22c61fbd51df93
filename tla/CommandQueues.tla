---------------------------- MODULE CommandQueues ----------------------------
(***************************************************************************)
(* D3D12 command queues on top of Vulkan queues (src/libs/vkd3d/command.c).*)
(*                                                                         *)
(* A command queue is three actors: the application calls its API, which   *)
(* appends to queue->submissions; a submission thread takes them off in    *)
(* order and submits to a physical VkQueue, which several command queues   *)
(* may share; a fence worker waits for the GPU in the order it was told to *)
(* and publishes fence values.  The VkQueues themselves are the fourth     *)
(* actor, and the fences of FenceOps are what all of them share.           *)
(*                                                                         *)
(* What a queue is asked to do is its program, chosen once from Programs.  *)
(* Each section under fence->mutex or under the VkQueue's mutex is one     *)
(* action; what a thread does to its own queue's state next to it, which   *)
(* nobody else reads, belongs to the same action.                          *)
(***************************************************************************)
EXTENDS FenceOps, Sequences, SequencesExt, FiniteSets

CONSTANTS
  Queues,       \* d3d12_command_queue
  VkQueues,     \* vkd3d_queue, each with its submission timeline semaphore
  VkQueueOf,    \* the vkd3d_queue a command queue was mapped to
  Fences,       \* d3d12_fence
  Programs,     \* what the application may do: functions from Queues to
                \* sequences of calls
  Satisfiable   \* those of them whose Waits are satisfied in the end, in
                \* whatever order the calls are made

Call ==
  [type : {"execute"}]
    \cup [type : {"signal", "wait", "cpu_signal"}, fence : Fences, value : Value]
    \cup [type : {"release"}, fence : Fences]

ASSUME QueuesAssumption ==
  /\ Satisfiable \subseteq Programs
  /\ VkQueueOf \in [Queues -> VkQueues]
  /\ \A p \in Programs :
       /\ DOMAIN p = Queues
       /\ \A q \in Queues : p[q] \in Seq(Call)

VARIABLES
  program,        \* the chosen program; never changes
  next,           \* per queue: the call the application makes next
  submissions,    \* per queue: queue->submissions, the command the submission
                  \* thread works on still at the head
  thread,         \* per queue: where the submission thread is
  cpu_until,      \* per queue: what a CPU wait is for
  wait_fences,    \* per queue: resolved waits not yet submitted
  wait_semaphores,\* per queue: the semaphore values the next submit waits for
  last_value,     \* per queue: last_submission_timeline_value
  timeline_count, \* per VkQueue: submission_timeline_count
  vk_queue,       \* per VkQueue: what was submitted and has not executed
  timeline,       \* per VkQueue: the value of its timeline semaphore
  worker,         \* per queue: the fence worker's entries, in order
  fences,         \* per fence: its state, see FenceOps
  refs,           \* per fence: refcount_internal
  released,       \* per fence: the public reference count is zero
  completed,      \* history: the executes the GPU has finished
  follows,        \* history, per queue: the executes that whatever the queue
                  \* does next has to come after
  promised        \* history, per fence: for each update, the executes that
                  \* have to be done when it becomes visible

app_vars    == <<program, next>>
thread_vars == <<submissions, thread, cpu_until, wait_fences, wait_semaphores, last_value>>
gpu_vars    == <<timeline_count, vk_queue, timeline>>
fence_vars  == <<fences, refs, released>>
history     == <<completed, follows, promised>>
vars == <<app_vars, thread_vars, gpu_vars, worker, fence_vars, history>>

NoSemaphores == [t \in {} |-> 0]
Nothing == [vk_semaphore |-> CHOOSE t \in VkQueues : TRUE, vk_semaphore_value |-> 0]

Init ==
  /\ program \in Programs
  /\ next            = [q \in Queues |-> 1]
  /\ submissions     = [q \in Queues |-> <<>>]
  /\ thread          = [q \in Queues |-> "ready"]
  /\ cpu_until       = [q \in Queues |-> Nothing]
  /\ wait_fences     = [q \in Queues |-> <<>>]
  /\ wait_semaphores = [q \in Queues |-> NoSemaphores]
  /\ last_value      = [q \in Queues |-> 0]
  /\ timeline_count  = [t \in VkQueues |-> 0]
  /\ vk_queue        = [t \in VkQueues |-> <<>>]
  /\ timeline        = [t \in VkQueues |-> 0]
  /\ worker          = [q \in Queues |-> <<>>]
  /\ fences          = [f \in Fences |-> fence_init(0)]
  /\ refs            = [f \in Fences |-> 1]
  /\ released        = [f \in Fences |-> FALSE]
  /\ completed       = {}
  /\ follows         = [q \in Queues |-> {}]
  /\ promised        = [f \in Fences |-> <<>>]

-----------------------------------------------------------------------------
(***************************************************************************)
(* Shared effects.                                                         *)
(***************************************************************************)

\* The command the submission thread of q is at.
Has(q, type) ==
  /\ submissions[q] # <<>>
  /\ program[q][Head(submissions[q]).id].type = type

Current(q) == program[q][Head(submissions[q]).id]
Ticket(q)  == Head(submissions[q]).ticket

\* Mutant: nobody is woken.
Woken_nobody(f) == thread

\* pthread_cond_broadcast(&fence->cond): the submission threads asleep on f.
\* Fence workers wait on the same condition; they only ever wait for a count
\* that cannot go down, so their wait is a guard.
Woken(f) ==
  [q \in Queues |->
    IF thread[q] = "asleep" /\ Current(q).fence = f THEN "awake" ELSE thread[q]]

\* Mutant: a reference that is not taken.
inc_ref_forgotten(r, f) == r

\* d3d12_fence_inc_ref and d3d12_fence_dec_ref.
inc_ref(r, f) == [r EXCEPT ![f] = @ + 1]
dec_ref(r, f) == [r EXCEPT ![f] = @ - 1]

\* The submission thread is done with its command.
Finish(q) == submissions' = [submissions EXCEPT ![q] = Tail(@)]

\* vkd3d_enqueue_timeline_semaphore
enqueue(w, q, entry) == [w EXCEPT ![q] = Append(@, entry)]

\* Mutant: the allocators are let go with the previous submission.
ReleaseEntry_early(id, t, value) ==
  [type |-> "release", id |-> id, vk_semaphore |-> t, vk_semaphore_value |-> value - 1]

SignalEntry(f, count, t, value) ==
  [type |-> "signal", fence |-> f, update_count |-> count,
   vk_semaphore |-> t, vk_semaphore_value |-> value]
OrderEntry(f, count) ==
  [type |-> "order", fence |-> f, update_count |-> count]
ReleaseEntry(id, t, value) ==
  [type |-> "release", id |-> id, vk_semaphore |-> t, vk_semaphore_value |-> value]

-----------------------------------------------------------------------------
(***************************************************************************)
(* The application.  It makes the calls of a queue's program in order and  *)
(* does not use a fence after releasing it.                                *)
(***************************************************************************)
NextCall(q) == program[q][next[q]]

Calls(q, type) ==
  /\ next[q] <= Len(program[q])
  /\ NextCall(q).type = type
  /\ next' = [next EXCEPT ![q] = @ + 1]

\* d3d12_command_queue_add_submission
add_submission(q, ticket) ==
  submissions' = [submissions EXCEPT ![q] =
                    Append(@, [id |-> next[q], ticket |-> ticket])]

ApiExecute(q) ==
  /\ Calls(q, "execute")
  /\ add_submission(q, 0)
  /\ UNCHANGED <<program, thread, cpu_until, wait_fences, wait_semaphores, last_value>>
  /\ UNCHANGED <<gpu_vars, worker, fence_vars, history>>

ApiSignal(q) ==
  /\ Calls(q, "signal")
  /\ ~released[NextCall(q).fence]
  /\ add_submission(q, 0)
  /\ refs' = inc_ref(refs, NextCall(q).fence)
  /\ UNCHANGED <<program, thread, cpu_until, wait_fences, wait_semaphores, last_value>>
  /\ UNCHANGED <<gpu_vars, worker, fences, released, history>>

\* The ticket is taken here, so a value that becomes visible after the call
\* satisfies the wait whenever the submission thread gets to it.
ApiWait(q) ==
  LET f == NextCall(q).fence
  IN  /\ Calls(q, "wait")
      /\ ~released[f]
      /\ fences' = [fences EXCEPT ![f] = register_pending_gpu_wait(@, NextCall(q).value)]
      /\ add_submission(q, fences'[f].wait_ticket_counter)
      /\ refs' = inc_ref(refs, f)
      /\ UNCHANGED <<program, thread, cpu_until, wait_fences, wait_semaphores, last_value>>
      /\ UNCHANGED <<gpu_vars, worker, released, history>>

\* ID3D12Fence::Signal
ApiCpuSignal(q) ==
  LET f == NextCall(q).fence
  IN  /\ Calls(q, "cpu_signal")
      /\ ~released[f]
      /\ fences' = [fences EXCEPT ![f] =
                      signal_cpu_timeline_semaphore(@, NextCall(q).value)]
      /\ thread' = Woken(f)
      /\ UNCHANGED <<program, submissions, cpu_until, wait_fences, wait_semaphores, last_value>>
      /\ UNCHANGED <<gpu_vars, worker, refs, released, history>>

\* The last ID3D12Fence::Release
ApiRelease(q) ==
  LET f == NextCall(q).fence
  IN  /\ Calls(q, "release")
      /\ ~released[f]
      /\ released' = [released EXCEPT ![f] = TRUE]
      /\ fences' = [fences EXCEPT ![f] = signal_cpu_timeline_semaphore(@, MaxValue)]
      /\ refs' = dec_ref(refs, f)
      /\ thread' = Woken(f)
      /\ UNCHANGED <<program, submissions, cpu_until, wait_fences, wait_semaphores, last_value>>
      /\ UNCHANGED <<gpu_vars, worker, history>>

Application(q) ==
  \/ ApiExecute(q)
  \/ ApiSignal(q)
  \/ ApiWait(q)
  \/ ApiCpuSignal(q)
  \/ ApiRelease(q)
-----------------------------------------------------------------------------
(***************************************************************************)
(* The submission thread: a Wait.                                          *)
(***************************************************************************)
InWait(q) == Has(q, "wait") /\ thread[q] \in {"ready", "awake"}

\* Some submitted signal satisfies the wait that the thread is at.
Materialises(q) ==
  /\ InWait(q)
  /\ HasTicket(fences[Current(q).fence], Ticket(q))
  /\ Current(q).value <= fences[Current(q).fence].max_pending

Consume(q) ==
  fences' = [fences EXCEPT ![Current(q).fence] = consume_ticket(@, Ticket(q))]

\* What q does next comes after what the update stands for.
Follow(q, update) ==
  follows' = [follows EXCEPT ![q] =
                @ \cup promised[Current(q).fence][update.update_count]]

WaitAlreadySatisfied(q) ==
  /\ InWait(q)
  /\ ~HasTicket(fences[Current(q).fence], Ticket(q))
  /\ Finish(q)
  /\ refs' = dec_ref(refs, Current(q).fence)
  /\ thread' = [thread EXCEPT ![q] = "ready"]
  /\ UNCHANGED <<app_vars, cpu_until, wait_fences, wait_semaphores, last_value>>
  /\ UNCHANGED <<gpu_vars, worker, fences, released, history>>

WaitSleeps(q) ==
  /\ InWait(q)
  /\ HasTicket(fences[Current(q).fence], Ticket(q))
  /\ Current(q).value > fences[Current(q).fence].max_pending
  /\ thread' = [thread EXCEPT ![q] = "asleep"]
  /\ UNCHANGED <<app_vars, submissions, cpu_until, wait_fences, wait_semaphores, last_value>>
  /\ UNCHANGED <<gpu_vars, worker, fence_vars, history>>

\* The signal is on the VkQueue this queue submits to: submission order does
\* the rest, only the order of publication has to be ensured.  The reference of
\* the command becomes that of the worker's entry.
WaitOnOwnVkQueue(q) ==
  LET f == Current(q).fence
  IN  /\ Materialises(q)
      /\ \E u \in SatisfyingOnQueue(fences[f], Current(q).value, VkQueueOf[q]) :
           /\ worker' = enqueue(worker, q, OrderEntry(f, u.update_count))
           /\ Follow(q, u)
      /\ Consume(q)
      /\ Finish(q)
      /\ thread' = [thread EXCEPT ![q] = "ready"]
      /\ UNCHANGED <<app_vars, cpu_until, wait_fences, wait_semaphores, last_value>>
      /\ UNCHANGED <<gpu_vars, refs, released, completed, promised>>

\* The signal is on another VkQueue; of several, the one numbered first.
OnOtherVkQueue(q) ==
  /\ Materialises(q)
  /\ SatisfyingOnQueue(fences[Current(q).fence], Current(q).value, VkQueueOf[q]) = {}

ChosenUpdate(q) ==
  EarliestUpdate(Satisfying(fences[Current(q).fence], Current(q).value))

\* Mutant: a second wait on the same timeline is dropped.
add_wait_semaphore_first(waits, t, value) ==
  [x \in DOMAIN waits \cup {t} |-> IF x \in DOMAIN waits THEN waits[x] ELSE value]

\* d3d12_command_queue_add_wait_semaphores, for one semaphore
add_wait_semaphore(waits, t, value) ==
  [x \in DOMAIN waits \cup {t} |->
    IF x # t THEN waits[x]
    ELSE IF t \in DOMAIN waits THEN Max({waits[t], value}) ELSE value]

\* d3d12_command_queue_add_wait: the GPU waits, with the next submission.
WaitDeferred(q) ==
  LET u == ChosenUpdate(q)
  IN  /\ OnOtherVkQueue(q)
      /\ wait_fences' = [wait_fences EXCEPT ![q] =
            Append(@, [fence |-> Current(q).fence, update_count |-> u.update_count])]
      /\ wait_semaphores' = [wait_semaphores EXCEPT ![q] =
            add_wait_semaphore(@, u.vk_semaphore, u.vk_semaphore_value)]
      /\ Follow(q, u)
      /\ Consume(q)
      /\ Finish(q)
      /\ thread' = [thread EXCEPT ![q] = "ready"]
      /\ UNCHANGED <<app_vars, cpu_until, last_value>>
      /\ UNCHANGED <<gpu_vars, worker, refs, released, completed, promised>>

\* Another command queue shares the VkQueue and was recently active: the
\* thread waits itself, so that the other queue is not held up.
WaitOnCpu(q) ==
  LET u == ChosenUpdate(q)
      f == Current(q).fence
  IN  /\ OnOtherVkQueue(q)
      /\ \E r \in Queues \ {q} : VkQueueOf[r] = VkQueueOf[q]
      /\ worker' = enqueue(worker, q, OrderEntry(f, u.update_count))
      /\ refs' = inc_ref(refs, f)
      /\ cpu_until' = [cpu_until EXCEPT ![q] =
            [vk_semaphore |-> u.vk_semaphore, vk_semaphore_value |-> u.vk_semaphore_value]]
      /\ Follow(q, u)
      /\ Consume(q)
      /\ thread' = [thread EXCEPT ![q] = "cpu_wait"]
      /\ UNCHANGED <<app_vars, submissions, wait_fences, wait_semaphores, last_value>>
      /\ UNCHANGED <<gpu_vars, released, completed, promised>>

Reached(e) == timeline[e.vk_semaphore] >= e.vk_semaphore_value

\* vkWaitSemaphores returns.
CpuWaitReturns(q) ==
  /\ thread[q] = "cpu_wait"
  /\ Reached(cpu_until[q])
  /\ Finish(q)
  /\ refs' = dec_ref(refs, Current(q).fence)
  /\ cpu_until' = [cpu_until EXCEPT ![q] = Nothing]
  /\ thread' = [thread EXCEPT ![q] = "ready"]
  /\ UNCHANGED <<app_vars, wait_fences, wait_semaphores, last_value>>
  /\ UNCHANGED <<gpu_vars, worker, fences, released, history>>

-----------------------------------------------------------------------------
(***************************************************************************)
(* The submission thread: submitting.                                      *)
(***************************************************************************)

\* d3d12_command_queue_eliminate_completed_waits keeps a zero: it may be a
\* binary semaphore.
eliminate_completed(waits) ==
  Restrict(waits, { t \in DOMAIN waits : waits[t] = 0 \/ timeline[t] < waits[t] })

\* vkQueueSubmit2 to the VkQueue of q, under its mutex.
submit(q, waits, work) ==
  LET t == VkQueueOf[q]
      v == timeline_count[t] + 1
  IN  /\ timeline_count' = [timeline_count EXCEPT ![t] = v]
      /\ last_value' = [last_value EXCEPT ![q] = v]
      /\ vk_queue' = [vk_queue EXCEPT ![t] =
            Append(@, [waits |-> waits, value |-> v, work |-> work, after |-> follows[q]])]

\* d3d12_command_queue_push_fence_waits_to_worker: the references go along.
OrderEntries(q) ==
  [i \in DOMAIN wait_fences[q] |->
    OrderEntry(wait_fences[q][i].fence, wait_fences[q][i].update_count)]

\* d3d12_command_queue_finalize_waits
finalize_waits(q, entries) ==
  /\ worker' = [worker EXCEPT ![q] = @ \o OrderEntries(q) \o entries]
  /\ wait_fences' = [wait_fences EXCEPT ![q] = <<>>]
  /\ wait_semaphores' = [wait_semaphores EXCEPT ![q] = NoSemaphores]

\* d3d12_command_queue_flush_waiters before a Signal: the waits gathered so far
\* are submitted on their own, if any is left.
FlushWaiters(q) ==
  LET waits == eliminate_completed(wait_semaphores[q])
  IN  /\ Has(q, "signal")
      /\ thread[q] = "ready"
      /\ \/ /\ DOMAIN waits = {}
            /\ UNCHANGED <<timeline_count, last_value, vk_queue>>
         \/ /\ DOMAIN waits # {}
            /\ submit(q, waits, {})
      /\ finalize_waits(q, <<>>)
      /\ thread' = [thread EXCEPT ![q] = "flushed"]
      /\ UNCHANGED <<app_vars, submissions, cpu_until, timeline, fence_vars, history>>

\* d3d12_command_queue_signal
SignalFence(q) ==
  LET f == Current(q).fence
  IN  /\ thread[q] = "flushed"
      /\ fences' = [fences EXCEPT ![f] =
            update_pending_value(
              add_pending_signal(@, Current(q).value, VkQueueOf[q], last_value[q]))]
      /\ worker' = enqueue(worker, q,
            SignalEntry(f, fences'[f].update_count, VkQueueOf[q], last_value[q]))
      /\ promised' = [promised EXCEPT ![f] = Append(@, follows[q])]
      /\ Finish(q)
      /\ thread' = [Woken(f) EXCEPT ![q] = "ready"]
      /\ UNCHANGED <<app_vars, cpu_until, wait_fences, wait_semaphores, last_value>>
      /\ UNCHANGED <<gpu_vars, refs, released, completed, follows>>

\* d3d12_command_queue_execute: one submission, and an entry that lets go of
\* its command allocators once it has executed.
Execute(q) ==
  LET id == Head(submissions[q]).id
  IN  /\ Has(q, "execute")
      /\ thread[q] = "ready"
      /\ submit(q, eliminate_completed(wait_semaphores[q]), {<<q, id>>})
      /\ finalize_waits(q, <<ReleaseEntry(id, VkQueueOf[q], last_value'[q])>>)
      /\ follows' = [follows EXCEPT ![q] = @ \cup {<<q, id>>}]
      /\ Finish(q)
      /\ UNCHANGED <<app_vars, thread, cpu_until, timeline, fence_vars, completed, promised>>

SubmissionThread(q) ==
  \/ WaitAlreadySatisfied(q)
  \/ WaitSleeps(q)
  \/ WaitOnOwnVkQueue(q)
  \/ WaitDeferred(q)
  \/ WaitOnCpu(q)
  \/ CpuWaitReturns(q)
  \/ FlushWaiters(q)
  \/ SignalFence(q)
  \/ Execute(q)

-----------------------------------------------------------------------------
(***************************************************************************)
(* The GPU.  A VkQueue executes what it was given in order: the barriers   *)
(* vkd3d ends a submission with, or its serializing semaphore, keep one    *)
(* submission from overtaking another.                                     *)
(***************************************************************************)
Executable(t) ==
  /\ vk_queue[t] # <<>>
  /\ LET waits == Head(vk_queue[t]).waits
     IN  \A x \in DOMAIN waits : timeline[x] >= waits[x]

GpuExecutes(t) ==
  /\ Executable(t)
  /\ timeline' = [timeline EXCEPT ![t] = Head(vk_queue[t]).value]
  /\ completed' = completed \cup Head(vk_queue[t]).work
  /\ vk_queue' = [vk_queue EXCEPT ![t] = Tail(@)]
  /\ UNCHANGED <<app_vars, thread_vars, timeline_count, worker, fence_vars, follows, promised>>

-----------------------------------------------------------------------------
(***************************************************************************)
(* The fence worker: its entries in order, each when what it waits for has *)
(* come about.                                                             *)
(***************************************************************************)
\* Mutant: the worker does not wait for the signal it depends on.
EntryReady_unordered(e) == e.type \in {"signal", "release"} => Reached(e)

\* Mutant: it waits for one signal too many.
EntryReady_strict(e) ==
  \/ e.type \in {"signal", "release"} /\ Reached(e)
  \/ e.type = "order" /\ fences[e.fence].signal_count > e.update_count

EntryReady(e) ==
  \/ e.type \in {"signal", "release"} /\ Reached(e)
  \/ e.type = "order" /\ fences[e.fence].signal_count >= e.update_count

Retire(q, type) ==
  /\ worker[q] # <<>>
  /\ Head(worker[q]).type = type
  /\ EntryReady(Head(worker[q]))
  /\ worker' = [worker EXCEPT ![q] = Tail(@)]

\* vkd3d_waiting_fence_signal_fence
RetireSignal(q) ==
  LET e == Head(worker[q])
  IN  /\ Retire(q, "signal")
      /\ fences' = [fences EXCEPT ![e.fence] = fence_signal(@, e.update_count)]
      /\ refs' = dec_ref(refs, e.fence)
      /\ thread' = Woken(e.fence)
      /\ UNCHANGED <<app_vars, submissions, cpu_until, wait_fences, wait_semaphores, last_value>>
      /\ UNCHANGED <<gpu_vars, released, history>>

\* vkd3d_waiting_fence_ensure_signal_order
RetireOrder(q) ==
  /\ Retire(q, "order")
  /\ refs' = dec_ref(refs, Head(worker[q]).fence)
  /\ UNCHANGED <<app_vars, thread_vars, gpu_vars, fences, released, history>>

\* vkd3d_waiting_fence_release_submission
RetireRelease(q) ==
  /\ Retire(q, "release")
  /\ UNCHANGED <<app_vars, thread_vars, gpu_vars, fence_vars, history>>

FenceWorker(q) == RetireSignal(q) \/ RetireOrder(q) \/ RetireRelease(q)

-----------------------------------------------------------------------------
Next ==
  \/ \E q \in Queues : Application(q)
  \/ \E q \in Queues : SubmissionThread(q)
  \/ \E q \in Queues : FenceWorker(q)
  \/ \E t \in VkQueues : GpuExecutes(t)

Spec == Init /\ [][Next]_vars

\* The application makes its calls, the two threads of a queue run, and the GPU
\* executes what it can.
Fairness ==
  /\ \A q \in Queues :
       /\ WF_vars(Application(q))
       /\ WF_vars(SubmissionThread(q))
       /\ WF_vars(FenceWorker(q))
  /\ \A t \in VkQueues : WF_vars(GpuExecutes(t))

FairSpec == Spec /\ Fairness
-----------------------------------------------------------------------------
(***************************************************************************)
(* Correctness.                                                            *)
(***************************************************************************)
Indices == UNION { UNION { DOMAIN p[q] : q \in Queues } : p \in Programs }
Works   == Queues \X Indices

SemaphoreValue == [vk_semaphore : VkQueues, vk_semaphore_value : Nat]

\* Every variable has its type; fence state is typed in Fence.
TypeOK ==
  /\ program \in Programs
  /\ next \in [Queues -> Nat \ {0}]
  /\ submissions \in [Queues -> Seq([id : Indices, ticket : Nat])]
  /\ thread \in [Queues -> {"ready", "asleep", "awake", "cpu_wait", "flushed"}]
  /\ cpu_until \in [Queues -> SemaphoreValue]
  /\ wait_fences \in [Queues -> Seq([fence : Fences, update_count : Nat])]
  /\ \A q \in Queues :
       wait_semaphores[q] \in [DOMAIN wait_semaphores[q] -> Nat]
         /\ DOMAIN wait_semaphores[q] \subseteq VkQueues
  /\ last_value \in [Queues -> Nat]
  /\ timeline_count \in [VkQueues -> Nat]
  /\ timeline \in [VkQueues -> Nat]
  /\ \A t \in VkQueues : \A i \in DOMAIN vk_queue[t] :
       /\ vk_queue[t][i].work \subseteq Works
       /\ vk_queue[t][i].after \subseteq Works
  /\ \A q \in Queues : \A i \in DOMAIN worker[q] :
       worker[q][i].type \in {"signal", "order", "release"}
  /\ refs \in [Fences -> Nat]
  /\ released \in [Fences -> BOOLEAN]
  /\ completed \subseteq Works
  /\ follows \in [Queues -> SUBSET Works]
  /\ promised \in [Fences -> Seq(SUBSET Works)]

\* A Wait holds on the GPU, through any chain of signals and waits: when a
\* submission may execute, every execute that precedes it in its queue, or that
\* precedes a signal one of its waits was resolved to, has been executed.
GpuFollowsSignals ==
  \A t \in VkQueues :
    Executable(t) => Head(vk_queue[t]).after \subseteq completed

\* A value is visible on the CPU only when the work before its Signal is done,
\* whichever fence worker published it.
VisibleMeansDone ==
  \A f \in Fences : \A n \in 1 .. fences[f].signal_count :
    promised[f][n] \subseteq completed

\* The places of the queues that hold a fence: commands, resolved waits and fence
\* worker entries.
UsesFence(call, f) == call.type \in {"signal", "wait"} /\ call.fence = f

HeldByCommands(f) ==
  UNION {{<<q, i>> : i \in {j \in DOMAIN submissions[q] :
                               UsesFence(program[q][submissions[q][j].id], f)}} : q \in Queues}

HeldByWaits(f) ==
  UNION {{<<q, i>> : i \in {j \in DOMAIN wait_fences[q] :
                               wait_fences[q][j].fence = f}} : q \in Queues}

HeldByWorkers(f) ==
  UNION {{<<q, i>> : i \in {j \in DOMAIN worker[q] :
                               worker[q][j].type # "release" /\ worker[q][j].fence = f}} : q \in Queues}

\* refcount_internal counts the public reference and all of those.  So the fence
\* is freed neither early nor never.
Holders(f) ==
  Cardinality(HeldByCommands(f)) + Cardinality(HeldByWaits(f))
    + Cardinality(HeldByWorkers(f)) + (IF released[f] THEN 0 ELSE 1)

ReferencesAreExact == \A f \in Fences : refs[f] = Holders(f)

\* A command allocator counts as in use until the GPU has executed the lists
\* recorded from it ("if there are pending submissions waiting, we are expected
\* to ignore the reset").
AllocatorsOutliveTheirWork ==
  \A t \in VkQueues : \A i \in DOMAIN vk_queue[t] : \A w \in vk_queue[t][i].work :
    \E j \in DOMAIN worker[w[1]] :
      worker[w[1]][j].type = "release" /\ worker[w[1]][j].id = w[2]

\* The two counts that others' work moves are right: a fence and an allocator are
\* kept for as long as somebody needs them, and the fence no longer.
CountsAreExact == ReferencesAreExact /\ AllocatorsOutliveTheirWork

\* Waits across queues never tie a knot: as long as the GPU or a fence worker
\* has something to do, a VkQueue or a fence worker can move.  A CPU wait is
\* among those who wait for a VkQueue.
NoKnot ==
  LET busy(q) == worker[q] # <<>> \/ thread[q] = "cpu_wait"
  IN  (\E q \in Queues : busy(q)) \/ (\E t \in VkQueues : vk_queue[t] # <<>>) =>
        \/ \E t \in VkQueues : Executable(t)
        \/ \E q \in Queues : worker[q] # <<>> /\ EntryReady(Head(worker[q]))
        \/ \E q \in Queues : thread[q] = "cpu_wait" /\ Reached(cpu_until[q])

-----------------------------------------------------------------------------
(***************************************************************************)
(* Every fence of the queues is a Fence.  Its waiters are the calls of the *)
(* programs, since a queue may have several Waits under way.               *)
(***************************************************************************)
MaxCalls == Cardinality(Works)

Waiters == Works

FenceWait(f) ==
  [c \in Waiters |->
    LET q     == c[1]
        at    == { i \in DOMAIN submissions[q] :
                     /\ submissions[q][i].id = c[2]
                     /\ program[q][c[2]].type = "wait"
                     /\ program[q][c[2]].fence = f
                     /\ i = 1 => thread[q] # "cpu_wait" }
        place(i) == IF i = 1 /\ thread[q] \in {"asleep", "awake"}
                      THEN thread[q] ELSE "queued"
    IN  IF at = {} THEN [pc |-> "idle", value |-> 0, ticket |-> 0]
        ELSE LET i == CHOOSE i \in at : TRUE
             IN  [pc |-> place(i), value |-> program[q][c[2]].value,
                  ticket |-> submissions[q][i].ticket]]

FenceUnpublished(f) ==
  UNION { { worker[q][i].update_count :
              i \in { j \in DOMAIN worker[q] :
                        worker[q][j].type = "signal" /\ worker[q][j].fence = f } }
          : q \in Queues }

F(f) == INSTANCE Fence WITH
          Queues <- Waiters, Timelines <- VkQueues,
          TimelineOf <- [c \in Waiters |-> VkQueueOf[c[1]]],
          TimelineValues <- 0 .. MaxCalls,
          Threads <- {}, Handles <- {},
          MaxUpdates <- MaxCalls, MaxTickets <- MaxCalls,
          fence <- fences[f], released <- released[f],
          unpublished <- FenceUnpublished(f), wait <- FenceWait(f),
          blocked <- <<>>, signalled <- {}

\* The queues use every fence as Fence says one may be used, so what is proved
\* of Fence holds of each of them.
FencesAreFences ==
  /\ \A f \in Fences : F(f)!Init
  /\ [][\A f \in Fences : UNCHANGED F(f)!vars \/ F(f)!Next]_vars

-----------------------------------------------------------------------------
\* Once every call has been made and every Wait can be satisfied, all of it
\* retires: nothing is left queued anywhere, no thread is inside a wait and the
\* fences are held by the application alone.
Retired ==
  /\ \A q \in Queues : submissions[q] = <<>> /\ worker[q] = <<>> /\ wait_fences[q] = <<>>
  /\ \A t \in VkQueues : vk_queue[t] = <<>>
  /\ \A f \in Fences : refs[f] = IF released[f] THEN 0 ELSE 1

EverythingRetires == program \in Satisfiable => <>[]Retired
=============================================================================
