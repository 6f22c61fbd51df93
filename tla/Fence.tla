-------------------------------- MODULE Fence --------------------------------
(***************************************************************************)
(* One d3d12_fence and everybody who can touch it: application threads     *)
(* (Signal, SetEventOnCompletion, Release), the submission threads of the  *)
(* command queues (a queued Wait, a queued Signal) and the fence workers   *)
(* that publish a GPU signal once its work is done.                        *)
(*                                                                         *)
(* Every locked section of fence->mutex is one action.  The fence knows    *)
(* nothing of the order in which queues reach it, so neither does this     *)
(* module: a fence worker may publish any update that was handed out, in   *)
(* any order.  CommandQueues puts real queues around the same operators.   *)
(***************************************************************************)
EXTENDS FenceOps

CONSTANTS
  Queues,         \* command queues, each with one submission thread
  Timelines,      \* submission timelines, one per physical queue
  TimelineOf,     \* the physical queue's timeline each command queue feeds
  TimelineValues, \* values a signal may record of its timeline
  Threads,        \* application threads that block on a NULL event
  Handles,        \* native event handles
  MaxUpdates,     \* bound: queue Signals on this fence
  MaxTickets      \* bound: queue Waits on this fence

ASSUME FenceAssumption ==
  /\ TimelineOf \in [Queues -> Timelines]
  /\ TimelineValues \subseteq Nat
  /\ Threads \cap Handles = {}
  /\ MaxUpdates \in Nat
  /\ MaxTickets \in Nat

VARIABLES
  fence,        \* the fence, see FenceOps
  released,     \* the public reference count has reached zero
  unpublished,  \* update counts whose fence worker callback has yet to run
  wait,         \* per queue: the Wait it holds and where its thread is
  blocked,      \* per thread: inside SetEventOnCompletion(NULL), or not
  signalled     \* handles in the signalled state

vars == <<fence, released, unpublished, wait, blocked, signalled>>

NoWait == [pc |-> "idle", value |-> 0, ticket |-> 0]

\* idle: no Wait; queued: ticket taken, not resolved; asleep: in
\* pthread_cond_wait on fence->cond; awake: woken, rescan still to be done.
WaitState ==
  [ pc     : {"idle", "queued", "asleep", "awake"},
    value  : Value,
    ticket : 0 .. MaxTickets ]

Init ==
  /\ \E v \in Value : fence = fence_init(v)
  /\ released = FALSE
  /\ unpublished = {}
  /\ wait = [q \in Queues |-> NoWait]
  /\ blocked = [t \in Threads |-> "no"]
  /\ signalled = {}

-----------------------------------------------------------------------------
(***************************************************************************)
(* Effects shared by the handlers.                                         *)
(***************************************************************************)

\* Mutant: the broadcast is forgotten.
broadcast_forgotten == UNCHANGED wait

\* pthread_cond_broadcast(&fence->cond)
broadcast ==
  wait' = [q \in Queues |->
            IF wait[q].pc = "asleep" THEN [wait[q] EXCEPT !.pc = "awake"]
                                     ELSE wait[q]]

\* Mutant: the handle is set but a NULL event's latch is not.
signal_events_without_latch ==
  /\ signalled' = signalled \cup
       ({ e.handle : e \in fence.events \ fence'.events } \cap Handles)
  /\ UNCHANGED blocked

\* vkd3d_waiting_event_signal for each event that left the list: a handle is
\* set, a NULL event sets the latch of the thread blocked on it.
signal_events ==
  LET fired == { e.handle : e \in fence.events \ fence'.events }
  IN  /\ signalled' = signalled \cup (fired \cap Handles)
      /\ blocked' = [t \in Threads |->
                      IF t \in fired THEN "latched" ELSE blocked[t]]

-----------------------------------------------------------------------------
(***************************************************************************)
(* The application.                                                        *)
(***************************************************************************)

\* ID3D12Fence::Signal
Signal(value) ==
  /\ ~released
  /\ fence' = signal_cpu_timeline_semaphore(fence, value)
  /\ signal_events
  /\ broadcast
  /\ UNCHANGED <<released, unpublished>>

\* The last ID3D12Fence::Release lets every waiter go.  The application does not
\* release the fence under a thread that is inside SetEventOnCompletion.
Release ==
  /\ ~released
  /\ \A t \in Threads : blocked[t] = "no"
  /\ released' = TRUE
  /\ fence' = signal_cpu_timeline_semaphore(fence, MaxValue)
  /\ signal_events
  /\ broadcast
  /\ UNCHANGED unpublished

\* SetEventOnCompletion with a handle: signalled at once if the value is
\* already visible, listed otherwise (once per value and handle).
SetEvent(handle, value) ==
  /\ ~released
  /\ \/ /\ value <= fence.virtual_value
        /\ signalled' = signalled \cup {handle}
        /\ fence' = fence
     \/ /\ value > fence.virtual_value
        /\ fence' = [fence EXCEPT !.events =
                       @ \cup {[value |-> value, handle |-> handle]}]
        /\ UNCHANGED signalled
  /\ UNCHANGED <<released, unpublished, wait, blocked>>

\* SetEventOnCompletion with a NULL handle blocks the thread until its latch
\* is set; with a value already visible it returns at once.
SetNullEvent(thread, value) ==
  /\ ~released
  /\ blocked[thread] = "no"
  /\ value > fence.virtual_value
  /\ fence' = [fence EXCEPT !.events =
                 @ \cup {[value |-> value, handle |-> thread]}]
  /\ blocked' = [blocked EXCEPT ![thread] = "waiting"]
  /\ UNCHANGED <<released, unpublished, wait, signalled>>

\* The thread wakes on null_event_cond, finds its latch set and returns.
NullEventReturns(thread) ==
  /\ blocked[thread] = "latched"
  /\ blocked' = [blocked EXCEPT ![thread] = "no"]
  /\ UNCHANGED <<fence, released, unpublished, wait, signalled>>

\* The application waits for the handle and resets it.
ResetEvent(handle) ==
  /\ handle \in signalled
  /\ signalled' = signalled \ {handle}
  /\ UNCHANGED <<fence, released, unpublished, wait, blocked>>

\* ID3D12CommandQueue::Wait takes its ticket at the API call, long before the
\* submission thread gets to it.
QueueWait(q, value) ==
  /\ ~released
  /\ wait[q].pc = "idle"
  /\ fence.wait_ticket_counter < MaxTickets
  /\ fence' = register_pending_gpu_wait(fence, value)
  /\ wait' = [wait EXCEPT ![q] =
                [pc |-> "queued", value |-> value,
                 ticket |-> fence'.wait_ticket_counter]]
  /\ UNCHANGED <<released, unpublished, blocked, signalled>>

-----------------------------------------------------------------------------
(***************************************************************************)
(* The submission thread inside                                            *)
(* d3d12_fence_block_until_pending_value_reaches_locked.                   *)
(***************************************************************************)
InWait(q) == wait[q].pc \in {"queued", "awake"}

\* The ticket is gone: the value was visible at some moment since the Wait
\* was queued, and nothing is waited for, whatever the value is now.
WaitAlreadySatisfied(q) ==
  /\ InWait(q)
  /\ ~HasTicket(fence, wait[q].ticket)
  /\ wait' = [wait EXCEPT ![q] = NoWait]
  /\ UNCHANGED <<fence, released, unpublished, blocked, signalled>>

\* No submitted signal reaches the value yet: sleep on fence->cond.
WaitSleeps(q) ==
  /\ InWait(q)
  /\ HasTicket(fence, wait[q].ticket)
  /\ wait[q].value > fence.max_pending
  /\ wait' = [wait EXCEPT ![q].pc = "asleep"]
  /\ UNCHANGED <<fence, released, unpublished, blocked, signalled>>

\* A submitted signal reaches the value: consume the ticket and leave with
\* that update (or without, when the update is on the queue's own timeline).
WaitMaterialises(q) ==
  /\ InWait(q)
  /\ HasTicket(fence, wait[q].ticket)
  /\ wait[q].value <= fence.max_pending
  /\ fence' = consume_ticket(fence, wait[q].ticket)
  /\ wait' = [wait EXCEPT ![q] = NoWait]
  /\ UNCHANGED <<released, unpublished, blocked, signalled>>

\* pthread_cond_wait may return without a broadcast.
SpuriousWakeup(q) ==
  /\ wait[q].pc = "asleep"
  /\ wait' = [wait EXCEPT ![q].pc = "awake"]
  /\ UNCHANGED <<fence, released, unpublished, blocked, signalled>>

\* d3d12_command_queue_signal; a thread that is inside a Wait does not signal.
QueueSignal(q, value, timeline_value) ==
  /\ wait[q].pc \in {"idle", "queued"}
  /\ fence.update_count < MaxUpdates
  /\ fence' = update_pending_value(
                add_pending_signal(fence, value, TimelineOf[q], timeline_value))
  /\ unpublished' = unpublished \cup {fence'.update_count}
  /\ broadcast
  /\ UNCHANGED <<released, blocked, signalled>>

\* A fence worker has seen the GPU reach the update.
Publish(count) ==
  /\ count \in unpublished
  /\ fence' = fence_signal(fence, count)
  /\ unpublished' = unpublished \ {count}
  /\ signal_events
  /\ broadcast
  /\ UNCHANGED released

-----------------------------------------------------------------------------
WaitStep(q) ==
  \/ WaitAlreadySatisfied(q)
  \/ WaitSleeps(q)
  \/ WaitMaterialises(q)

Next ==
  \/ \E v \in Value : Signal(v)
  \/ Release
  \/ \E h \in Handles, v \in Value : SetEvent(h, v)
  \/ \E t \in Threads, v \in Value : SetNullEvent(t, v)
  \/ \E t \in Threads : NullEventReturns(t)
  \/ \E h \in Handles : ResetEvent(h)
  \/ \E q \in Queues, v \in Value : QueueWait(q, v)
  \/ \E q \in Queues : WaitStep(q)
  \/ \E q \in Queues : SpuriousWakeup(q)
  \/ \E q \in Queues, v \in Value, tv \in TimelineValues : QueueSignal(q, v, tv)
  \/ \E count \in 1 .. MaxUpdates : Publish(count)

Spec == Init /\ [][Next]_vars

\* The submission threads run, and the fence workers get to every update: the
\* GPU finishes what was submitted.  Nothing is asked of the application.
Fairness ==
  /\ \A q \in Queues : WF_vars(WaitStep(q))
  /\ \A count \in 1 .. MaxUpdates : WF_vars(Publish(count))

FairSpec == Spec /\ Fairness
-----------------------------------------------------------------------------
(***************************************************************************)
(* Correctness.                                                            *)
(***************************************************************************)
Update ==
  [ update_count : 1 .. MaxUpdates, virtual_value : Value,
    vk_semaphore : Timelines, vk_semaphore_value : TimelineValues ]

Ticket == [ ticket : 1 .. MaxTickets, virtual_value : Value ]

Event == [ value : Value, handle : Handles \cup Threads ]

FenceState ==
  [ virtual_value       : Value,
    max_pending         : Value,
    update_count        : 0 .. MaxUpdates,
    signal_count        : 0 .. MaxUpdates,
    wait_ticket_counter : 0 .. MaxTickets,
    pending_updates     : SUBSET Update,
    wait_tickets        : SUBSET Ticket,
    events              : SUBSET Event ]

\* Every variable has the type its C declaration and its use give it.
TypeOK ==
  /\ fence \in FenceState
  /\ released \in BOOLEAN
  /\ unpublished \subseteq 1 .. MaxUpdates
  /\ wait \in [Queues -> WaitState]
  /\ blocked \in [Threads -> {"no", "waiting", "latched"}]
  /\ signalled \subseteq Handles

\* No ticket and no event outlives the value it waits for, whichever thread
\* made it visible and however soon it was rewound: "the instant a queued WAIT
\* can be satisfied, it is forever satisfied" (update_wait_tickets_locked).
NothingWaitsForAVisibleValue == WaitersUnsatisfied(fence)

\* The pending updates are exactly those numbered signal_count + 1 to
\* update_count, one of each, so d3d12_fence_signal finds every number its loop
\* steps over ("Did not signal a virtual value?" is never reported).
PendingUpdatesAreTheUnsignalledOnes == PendingWindow(fence)

\* max_pending_virtual_timeline_value is the greatest value that is visible or
\* submitted, after rewinds too.
MaxPendingIsExact == MaxPendingExact(fence)

\* The assert(update_count != UINT64_MAX) at the end of block_until_pending:
\* whenever a submission thread holds an unsatisfied ticket and the maximum
\* pending value reaches it, some pending update can be waited for.
WaitFindsAnUpdate ==
  \A q \in Queues :
    /\ wait[q].pc # "idle"
    /\ HasTicket(fence, wait[q].ticket)
    /\ wait[q].value <= fence.max_pending
    => Satisfying(fence, wait[q].value) # {}

\* No lost wakeup: a submission thread asleep on fence->cond has a ticket that
\* still stands and a value no visible or submitted update reaches.
SleepersHaveNothingToDo ==
  \A q \in Queues :
    wait[q].pc = "asleep" =>
      /\ HasTicket(fence, wait[q].ticket)
      /\ fence.max_pending < wait[q].value

\* A thread blocked on a NULL event is owed exactly one latch: its event is in
\* the list, so the next value that reaches it lets the thread go.
BlockedThreadsAreListed ==
  \A t \in Threads :
    blocked[t] = "waiting" <=> \E e \in fence.events : e.handle = t

\* What the fence knows of submitted signals is right: every one that is not
\* visible yet is in the array, and the cached maximum is theirs.
SubmittedSignalsAreKnown ==
  /\ PendingUpdatesAreTheUnsignalledOnes
  /\ MaxPendingIsExact

\* No thread sleeps on the fence without a reason, neither on fence->cond nor on
\* the latch of a NULL event.
NobodySleepsInVain ==
  /\ SleepersHaveNothingToDo
  /\ BlockedThreadsAreListed

\* GPU signals become visible in the order in which queues submitted them,
\* however the fence workers are scheduled: when a step advances signal_count,
\* what it leaves visible is the update with that number, and no earlier one is
\* still to come ("all signals happen in correct order if there are rewinds").
SignalsBecomeVisibleInOrder ==
  [][ fence'.signal_count # fence.signal_count =>
        /\ \E p \in fence.pending_updates :
             /\ p.update_count = fence'.signal_count
             /\ p.virtual_value = fence'.virtual_value
        /\ \A p \in fence'.pending_updates :
             fence'.signal_count < p.update_count ]_vars

\* A queue's Wait that a visible or submitted signal can satisfy gets past the
\* fence, even if the value is rewound before its thread looks again; and a listed
\* event fires once a signal that reaches its value is submitted.
WaitersAreServed ==
  /\ \A q \in Queues :
       (wait[q].pc # "idle" /\ wait[q].value <= fence.max_pending)
         ~> wait[q].pc = "idle"
  /\ \A h \in Handles \cup Threads, v \in Value :
       (/\ [value |-> v, handle |-> h] \in fence.events
        /\ \E p \in fence.pending_updates : v <= p.virtual_value)
         ~> [value |-> v, handle |-> h] \notin fence.events
=============================================================================
