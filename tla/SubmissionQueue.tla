--------------------------- MODULE SubmissionQueue ---------------------------
(***************************************************************************)
(* How application threads hand commands to a command queue's submission   *)
(* thread, how a thread drains the queue to use the VkQueue itself         *)
(* (src/libs/vkd3d/command.c: vkd3d_acquire_vk_queue, called for interop   *)
(* and by a swapchain that drains), and how the last Release ends the      *)
(* queue's two threads.                                                    *)
(*                                                                         *)
(* One mutex, queue_lock, and one condition variable, queue_cond, serve    *)
(* both directions: the submission thread waits there for a command, a     *)
(* draining thread for its drain.  Everybody uses pthread_cond_signal, so  *)
(* the model keeps the set of waiters, and a signal wakes one of them.     *)
(* The fence worker has a mutex and a condition variable of its own; what  *)
(* it is handed it takes over in batches.                                  *)
(***************************************************************************)
EXTENDS Integers, Sequences, FiniteSets

CONSTANTS
  Threads,      \* application threads
  Submitter,    \* the submission thread
  NoHolder,     \* nobody, as the holder of queue_lock
  MaxCommands,  \* bound: commands submitted
  MaxDrains,    \* bound: drains
  MaxDrainers,  \* bound: threads that wait for a drain at the same time
  MaxEntries    \* bound: entries handed to the fence worker

ASSUME SubmissionQueueAssumption ==
  /\ Submitter \notin Threads
  /\ NoHolder \notin Threads \cup {Submitter}
  /\ MaxCommands \in Nat
  /\ MaxDrains \in Nat
  /\ MaxDrainers \in Nat
  /\ MaxEntries \in Nat

VARIABLES
  queue_lock,        \* who holds it between steps: a thread, or NoHolder
  waiters,           \* threads inside pthread_cond_wait(&queue_cond)
  submissions,       \* queue->submissions
  drain_count,       \* drains asked for
  queue_drain_count, \* drains done
  thread,            \* per application thread: where it is
  current_drain,     \* per application thread: the drain it waits for
  submitter,         \* where the submission thread is
  submitted,         \* history: commands added
  executed,          \* history: commands the submission thread has finished
  before,            \* history, per thread: commands added before its drain
  teardown,          \* how far the last Release is
  worker,            \* where the fence worker is
  enqueued,          \* worker->enqueued_fence_count
  batch,             \* entries of cur_fences it is not done with
  should_exit,       \* worker->should_exit
  do_exit,           \* what it was when the batch was taken
  promised,          \* history: entries handed to the worker
  released           \* history: entries the worker is done with

fenceVars == <<worker, enqueued, batch, should_exit, do_exit, promised, released>>
vars == <<queue_lock, waiters, submissions, drain_count, queue_drain_count,
          thread, current_drain, submitter, submitted, executed, before,
          teardown, fenceVars>>

Init ==
  /\ queue_lock = NoHolder
  /\ waiters = {}
  /\ submissions = <<>>
  /\ drain_count = 0
  /\ queue_drain_count = 0
  /\ thread = [t \in Threads |-> "outside"]
  /\ current_drain = [t \in Threads |-> 0]
  /\ submitter = "taking"
  /\ submitted = 0
  /\ executed = 0
  /\ before = [t \in Threads |-> 0]
  /\ teardown = "none"
  /\ worker = "taking" /\ enqueued = 0 /\ batch = 0
  /\ should_exit = FALSE /\ do_exit = FALSE
  /\ promised = 0 /\ released = 0

-----------------------------------------------------------------------------
LockIsFree == queue_lock = NoHolder

\* pthread_cond_signal(&queue->queue_cond): one of the waiting threads, if any,
\* stops waiting.  joining: who starts to wait in the same critical section.
signal(joining) ==
  \/ waiters = {} /\ waiters' = joining
  \/ \E woken \in waiters : waiters' = (waiters \ {woken}) \cup joining

\* What is in the queue; the number counts submissions of its type, for the
\* properties.
Submission(type, number) == [type |-> type, number |-> number]

\* Mutant: a drain goes to the front of the queue.
added_in_front(submission) == <<submission>> \o submissions

\* d3d12_command_queue_add_submission_locked: what the queue becomes.
added(submission) == Append(submissions, submission)

\* d3d12_command_queue_add_submission, for any command of the API.
AddSubmission(t) ==
  /\ LockIsFree
  /\ thread[t] = "outside" /\ teardown = "none"
  /\ submitted < MaxCommands
  /\ submitted' = submitted + 1
  /\ submissions' = added(Submission("command", submitted'))
  /\ signal({})
  /\ UNCHANGED <<queue_lock, drain_count, queue_drain_count, thread,
                 current_drain, submitter, executed, before,
                 teardown, fenceVars>>

\* d3d12_command_queue_acquire_serialized: ask for a drain, then wait for it.
\* The new drain cannot be done yet, so the thread always waits.  It signals
\* before it joins the waiters.
Acquire(t) ==
  /\ LockIsFree
  /\ thread[t] = "outside" /\ teardown = "none"
  /\ drain_count < MaxDrains
  /\ Cardinality({d \in Threads : thread[d] = "draining"}) < MaxDrainers
  /\ drain_count' = drain_count + 1
  /\ current_drain' = [current_drain EXCEPT ![t] = drain_count']
  /\ submissions' = added(Submission("drain", drain_count'))
  /\ signal({t})
  /\ thread' = [thread EXCEPT ![t] = "draining"]
  /\ before' = [before EXCEPT ![t] = submitted]
  /\ UNCHANGED <<queue_lock, queue_drain_count, submitter, submitted, executed,
                 teardown, fenceVars>>

\* The condition of the loop around pthread_cond_wait.
drain_done(t) == current_drain[t] <= queue_drain_count

\* Back from pthread_cond_wait: return with queue_lock held, or wait again.
DrainReturns(t) ==
  /\ LockIsFree
  /\ thread[t] = "draining"
  /\ t \notin waiters
  /\ drain_done(t)
  /\ thread' = [thread EXCEPT ![t] = "holding"]
  /\ queue_lock' = t
  /\ UNCHANGED <<waiters, submissions, drain_count, queue_drain_count,
                 current_drain, submitter, submitted, executed, before,
                 teardown, fenceVars>>

DrainWaitsAgain(t) ==
  /\ LockIsFree
  /\ thread[t] = "draining"
  /\ t \notin waiters
  /\ ~drain_done(t)
  /\ waiters' = waiters \cup {t}
  /\ UNCHANGED <<queue_lock, submissions, drain_count, queue_drain_count, thread,
                 current_drain, submitter, submitted, executed, before,
                 teardown, fenceVars>>

\* d3d12_command_queue_release_serialized, from vkd3d_release_vk_queue.
Release(t) ==
  /\ thread[t] = "holding"
  /\ thread' = [thread EXCEPT ![t] = "outside"]
  /\ queue_lock' = NoHolder
  /\ UNCHANGED <<waiters, submissions, drain_count, queue_drain_count,
                 current_drain, submitter, submitted, executed, before,
                 teardown, fenceVars>>

-----------------------------------------------------------------------------
(***************************************************************************)
(* d3d12_command_queue_submission_worker_main                              *)
(***************************************************************************)
Takes ==
  /\ LockIsFree
  /\ submitter = "taking"
  /\ Submitter \notin waiters
  /\ submissions # <<>>
  /\ submitter' = Head(submissions).type
  /\ submissions' = Tail(submissions)
  /\ UNCHANGED <<queue_lock, waiters, drain_count, queue_drain_count, thread,
                 current_drain, submitted, executed, before,
                 teardown, fenceVars>>

FindsNothing ==
  /\ LockIsFree
  /\ submitter = "taking"
  /\ Submitter \notin waiters
  /\ submissions = <<>>
  /\ waiters' = waiters \cup {Submitter}
  /\ UNCHANGED <<queue_lock, submissions, drain_count, queue_drain_count, thread,
                 current_drain, submitter, submitted, executed, before,
                 teardown, fenceVars>>

\* Mutant: the drain counter goes up with every command.
ExecutesAndCounts ==
  /\ submitter = "command"
  /\ executed' = executed + 1
  /\ queue_drain_count' = queue_drain_count + 1
  /\ submitter' = "taking"
  /\ UNCHANGED <<queue_lock, waiters, submissions, drain_count, thread,
                 current_drain, submitted, before, teardown, fenceVars>>

\* pthread_cond_signal(&worker->cond)
signal_worker == worker' = IF worker = "waiting" THEN "woken" ELSE worker

\* vkd3d_enqueue_timeline_semaphore, from any submission and any number of times:
\* for a Signal, an execute or a sparse binding, for an order, and for the waits that
\* a command, a drain or the wait_idle behind the STOP flushes.
Enqueues ==
  /\ submitter \in {"command", "drain", "stop"}
  /\ promised < MaxEntries
  /\ enqueued' = enqueued + 1 /\ promised' = promised + 1
  /\ signal_worker
  /\ UNCHANGED <<queue_lock, waiters, submissions, drain_count, queue_drain_count,
                 thread, current_drain, submitter, submitted, executed, before,
                 teardown, batch, should_exit, do_exit, released>>

\* Any command but a drain and the STOP, done outside queue_lock.
ExecutesCommand ==
  /\ submitter = "command"
  /\ executed' = executed + 1
  /\ submitter' = "taking"
  /\ UNCHANGED <<queue_lock, waiters, submissions, drain_count, queue_drain_count,
                 thread, current_drain, submitted, before, teardown, fenceVars>>

\* Mutant: the drain is counted, but nobody is told.
ExecutesDrainSilently ==
  /\ LockIsFree
  /\ submitter = "drain"
  /\ queue_drain_count' = queue_drain_count + 1
  /\ submitter' = "taking"
  /\ UNCHANGED <<queue_lock, waiters, submissions, drain_count, thread,
                 current_drain, submitted, executed, before,
                 teardown, fenceVars>>

\* VKD3D_SUBMISSION_DRAIN
ExecutesDrain ==
  /\ LockIsFree
  /\ submitter = "drain"
  /\ queue_drain_count' = queue_drain_count + 1
  /\ signal({})
  /\ submitter' = "taking"
  /\ UNCHANGED <<queue_lock, submissions, drain_count, thread, current_drain,
                 submitted, executed, before,
                 teardown, fenceVars>>

\* VKD3D_SUBMISSION_STOP: the thread ends, once the VkQueue is idle.
ExecutesStop ==
  /\ submitter = "stop"
  /\ submitter' = "ended"
  /\ UNCHANGED <<queue_lock, waiters, submissions, drain_count, queue_drain_count,
                 thread, current_drain, submitted, executed, before, teardown, fenceVars>>

SubmissionThread ==
  \/ Takes \/ FindsNothing \/ Enqueues
  \/ ExecutesCommand \/ ExecutesDrain \/ ExecutesStop

-----------------------------------------------------------------------------
(***************************************************************************)
(* vkd3d_fence_worker_main                                                 *)
(***************************************************************************)
\* It looks once: what wakes it from pthread_cond_wait need not be an entry.
WorkerWaits ==
  /\ worker = "taking" /\ enqueued = 0 /\ ~should_exit
  /\ worker' = "waiting"
  /\ UNCHANGED <<queue_lock, waiters, submissions, drain_count, queue_drain_count, thread,
                 current_drain, submitter, submitted, executed, before, teardown,
                 enqueued, batch, should_exit, do_exit, promised, released>>

WorkerTakes ==
  /\ worker = "woken" \/ (worker = "taking" /\ (enqueued # 0 \/ should_exit))
  /\ worker' = "working"
  /\ batch' = enqueued /\ enqueued' = 0
  /\ do_exit' = should_exit
  /\ UNCHANGED <<queue_lock, waiters, submissions, drain_count, queue_drain_count, thread,
                 current_drain, submitter, submitted, executed, before, teardown,
                 should_exit, promised, released>>

\* vkd3d_wait_for_gpu_timeline_semaphore and the callback, whether the wait fails or not.
WorkerReleases ==
  /\ worker = "working" /\ batch # 0
  /\ batch' = batch - 1 /\ released' = released + 1
  /\ UNCHANGED <<queue_lock, waiters, submissions, drain_count, queue_drain_count, thread,
                 current_drain, submitter, submitted, executed, before, teardown,
                 worker, enqueued, should_exit, do_exit, promised>>

\* Mutant: the flag is read again after the batch.
leaving_late == should_exit

\* The flag that was read with the batch.
leaving == do_exit

WorkerIsDone ==
  /\ worker = "working" /\ batch = 0
  /\ worker' = IF leaving THEN "ended" ELSE "taking"
  /\ UNCHANGED <<queue_lock, waiters, submissions, drain_count, queue_drain_count, thread,
                 current_drain, submitter, submitted, executed, before, teardown,
                 enqueued, batch, should_exit, do_exit, promised, released>>

FenceWorker == WorkerWaits \/ WorkerTakes \/ WorkerReleases \/ WorkerIsDone

-----------------------------------------------------------------------------
(***************************************************************************)
(* d3d12_command_queue_Release, when nobody else has the queue.            *)
(***************************************************************************)
\* d3d12_command_queue_submit_stop
SubmitStop ==
  /\ LockIsFree
  /\ teardown = "none" /\ \A t \in Threads : thread[t] = "outside"
  /\ submissions' = added(Submission("stop", 1))
  /\ signal({})
  /\ teardown' = "join"
  /\ UNCHANGED <<queue_lock, drain_count, queue_drain_count, thread, current_drain,
                 submitter, submitted, executed, before, fenceVars>>

\* vkd3d_fence_worker_stop, once the submission thread is joined.
StopWorker ==
  /\ teardown = "join" /\ submitter = "ended"
  /\ should_exit' = TRUE
  /\ signal_worker
  /\ teardown' = "join_worker"
  /\ UNCHANGED <<queue_lock, waiters, submissions, drain_count, queue_drain_count, thread,
                 current_drain, submitter, submitted, executed, before,
                 enqueued, batch, do_exit, promised, released>>

\* The worker is joined, and the queue freed.
FreeQueue ==
  /\ teardown = "join_worker" /\ worker = "ended"
  /\ teardown' = "freed"
  /\ UNCHANGED <<queue_lock, waiters, submissions, drain_count, queue_drain_count, thread,
                 current_drain, submitter, submitted, executed, before, fenceVars>>

LastRelease == SubmitStop \/ StopWorker \/ FreeQueue

-----------------------------------------------------------------------------
\* pthread_cond_wait may return on its own.
SpuriousWakeup ==
  /\ \/ /\ \E w \in waiters : waiters' = waiters \ {w}
        /\ UNCHANGED worker
     \/ /\ worker = "waiting" /\ worker' = "woken"
        /\ UNCHANGED waiters
  /\ UNCHANGED <<queue_lock, submissions, drain_count, queue_drain_count, thread,
                 current_drain, submitter, submitted, executed, before, teardown,
                 enqueued, batch, should_exit, do_exit, promised, released>>

Drainer(t) == DrainReturns(t) \/ DrainWaitsAgain(t)

Next ==
  \/ \E t \in Threads : AddSubmission(t)
  \/ \E t \in Threads : Acquire(t)
  \/ \E t \in Threads : Drainer(t)
  \/ \E t \in Threads : Release(t)
  \/ SubmissionThread
  \/ FenceWorker
  \/ LastRelease
  \/ SpuriousWakeup

Spec == Init /\ [][Next]_vars

\* The submission thread runs, a thread that was woken runs, and whoever
\* acquired the VkQueue releases it.  A mutex is not fair, but one that is free
\* again and again is granted in the end: hence strong fairness.  The fence worker
\* runs, because the GPU gets to what was submitted, and a Release goes on.
Fairness ==
  /\ SF_vars(Takes) /\ SF_vars(FindsNothing)
  /\ SF_vars(ExecutesCommand) /\ SF_vars(ExecutesDrain)
  /\ WF_vars(ExecutesStop)
  /\ \A t \in Threads : SF_vars(Drainer(t)) /\ WF_vars(Release(t))
  /\ WF_vars(FenceWorker)
  /\ WF_vars(StopWorker) /\ WF_vars(FreeQueue)

FairSpec == Spec /\ Fairness
-----------------------------------------------------------------------------
(***************************************************************************)
(* Correctness.                                                            *)
(***************************************************************************)
TypeOK ==
  /\ queue_lock \in Threads \cup {NoHolder}
  /\ waiters \subseteq Threads \cup {Submitter}
  /\ submissions \in Seq([type : {"command", "drain", "stop"}, number : Nat])
  /\ drain_count \in 0 .. MaxDrains
  /\ queue_drain_count \in 0 .. drain_count
  /\ thread \in [Threads -> {"outside", "draining", "holding"}]
  /\ current_drain \in [Threads -> 0 .. MaxDrains]
  /\ submitter \in {"taking", "command", "drain", "stop", "ended"}
  /\ submitted \in 0 .. MaxCommands
  /\ executed \in 0 .. submitted
  /\ before \in [Threads -> 0 .. MaxCommands]
  /\ teardown \in {"none", "join", "join_worker", "freed"}
  /\ worker \in {"taking", "waiting", "woken", "working", "ended"}
  /\ released \in 0 .. promised /\ promised \in 0 .. MaxEntries
  /\ enqueued \in 0 .. promised /\ batch \in 0 .. promised
  /\ should_exit \in BOOLEAN /\ do_exit \in BOOLEAN

\* Whoever holds the drained queue finds every command that was added before
\* its call executed ("in order to make sure all pending operations queued so
\* far have been submitted").
AcquireMeansDrained ==
  \A t \in Threads : thread[t] = "holding" => before[t] <= executed

\* Nobody can move on his own: the mutex is free and everybody inside waits.
Asleep ==
  /\ LockIsFree
  /\ submitter = "taking" /\ Submitter \in waiters
  /\ \A t \in Threads : thread[t] = "draining" => t \in waiters

\* The shared condition variable loses no wakeup: when everybody inside is
\* asleep, no command is left in the queue and no drain unanswered.
NobodyOversleeps ==
  Asleep => /\ submissions = <<>>
            /\ \A t \in Threads : thread[t] # "draining"

\* The last Release loses nothing: when the queue is freed, every command was
\* executed, every entry the fence worker was handed was released, so that signals
\* are published and allocators let go, and no thread is left inside.
ReleaseLosesNothing ==
  teardown = "freed" =>
    /\ submissions = <<>> /\ executed = submitted
    /\ released = promised
    /\ waiters = {} /\ submitter = "ended" /\ worker = "ended"

\* Every drain and the last Release return.
CallsReturn ==
  /\ \A t \in Threads : thread[t] = "draining" ~> thread[t] = "holding"
  /\ teardown # "none" ~> teardown = "freed"
=============================================================================
