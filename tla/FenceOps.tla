------------------------------ MODULE FenceOps ------------------------------
(***************************************************************************)
(* What each function of a d3d12_fence does to the fence while it holds    *)
(* fence->mutex (src/libs/vkd3d/command.c).  A fence is a record, and each *)
(* operator below maps the fence a function found to the fence it leaves;  *)
(* the state machines (Fence, CommandQueues) say who calls them and when.  *)
(*                                                                         *)
(* The code keeps wait_tickets, pending_updates and events in unordered    *)
(* arrays with swap-removal.  They are sets here: the order of an array    *)
(* matters in one place only (which same-queue update a wait finds first), *)
(* and there the model allows every choice.                                *)
(***************************************************************************)
EXTENDS Integers

CONSTANT
  \* the largest fence value, UINT64_MAX in the code
  MaxValue

ASSUME MaxValueAssumption == MaxValue \in Nat

Value == 0 .. MaxValue

\* The greatest element of a set of values.
Greatest(S) == CHOOSE x \in S : \A y \in S : y <= x

VirtualValues(updates) == { p.virtual_value : p \in updates }

-----------------------------------------------------------------------------
(***************************************************************************)
(* d3d12_fence_init: both the visible value and the maximum pending value  *)
(* start at the initial value, every counter at zero.                      *)
(***************************************************************************)
fence_init(initial_value) ==
  [ virtual_value       |-> initial_value,
    max_pending         |-> initial_value,
    update_count        |-> 0,
    signal_count        |-> 0,
    wait_ticket_counter |-> 0,
    pending_updates     |-> {},
    wait_tickets        |-> {},
    events              |-> {} ]

\* Mutant: the maximum is raised but never lowered, so a rewind leaves it stale.
update_pending_value_keeps_old(f) ==
  [f EXCEPT !.max_pending =
     Greatest({@, f.virtual_value} \cup VirtualValues(f.pending_updates))]

(***************************************************************************)
(* The recomputation of max_pending_virtual_timeline_value.  The broadcast *)
(* that follows it in the code wakes every thread asleep on fence->cond;   *)
(* it belongs to the actions, which own the set of sleepers.               *)
(***************************************************************************)
update_pending_value(f) ==
  [f EXCEPT !.max_pending =
     Greatest({f.virtual_value} \cup VirtualValues(f.pending_updates))]

\* Events whose value one of the values just made visible has reached are
\* signalled and removed.
signal_external_events(f, visible) ==
  [f EXCEPT !.events = { e \in @ : \A v \in visible : v < e.value }]

\* Mutant: a ticket for exactly the visible value survives (> for >=).
update_wait_tickets_strict(f, visible) ==
  [f EXCEPT !.wait_tickets =
     { t \in @ : \A v \in visible : v <= t.virtual_value }]

\* A queued Wait whose value became visible is satisfied for good: its ticket
\* goes away.
update_wait_tickets(f, visible) ==
  [f EXCEPT !.wait_tickets =
     { t \in @ : \A v \in visible : v < t.virtual_value }]

\* ID3D12Fence::Signal and the last ID3D12Fence::Release.
signal_cpu_timeline_semaphore(f, value) ==
  update_pending_value(
    update_wait_tickets(
      signal_external_events([f EXCEPT !.virtual_value = value], {value}),
      {value}))

\* A queue Signal that has been submitted but not yet seen to complete.
add_pending_signal(f, value, timeline, timeline_value) ==
  [f EXCEPT
     !.update_count = @ + 1,
     !.pending_updates = @ \cup
       {[ update_count       |-> f.update_count + 1,
          virtual_value      |-> value,
          vk_semaphore       |-> timeline,
          vk_semaphore_value |-> timeline_value ]}]

\* The ticket a Wait takes at the API call.  No ticket is kept for a wait that
\* is already satisfied; the number is used up all the same.
register_pending_gpu_wait(f, value) ==
  [f EXCEPT
     !.wait_ticket_counter = @ + 1,
     !.wait_tickets =
       IF f.virtual_value < value
         THEN @ \cup {[ ticket        |-> f.wait_ticket_counter + 1,
                        virtual_value |-> value ]}
         ELSE @]

\* Mutant: only the update the worker was called for, not those before it.
DueUpdates_only_own(f, count) ==
  { p \in f.pending_updates : f.signal_count < count /\ p.update_count = count }

(***************************************************************************)
(* d3d12_fence_signal: the loop makes every update numbered signal_count+1 *)
(* to update_count visible, in that order, whatever the order in which the *)
(* fence workers get here.  Only the last of them stays visible, but each  *)
(* one signals the events and satisfies the tickets it reaches.            *)
(***************************************************************************)
DueUpdates(f, count) ==
  { p \in f.pending_updates :
      f.signal_count < p.update_count /\ p.update_count <= count }

LastUpdate(updates) ==
  CHOOSE p \in updates : \A q \in updates : q.update_count <= p.update_count

\* Mutant: the published updates are not removed from the array.
publish_due_keeps(f, due, count) ==
  [f EXCEPT
     !.signal_count  = IF @ < count THEN count ELSE @,
     !.virtual_value = IF due = {} THEN @ ELSE LastUpdate(due).virtual_value]

\* Mutant: the loop leaves signal_count one past the update.
publish_due_off_by_one(f, due, count) ==
  [f EXCEPT
     !.signal_count    = IF @ <= count THEN count + 1 ELSE @,
     !.virtual_value   = IF due = {} THEN @ ELSE LastUpdate(due).virtual_value,
     !.pending_updates = @ \ due]

publish_due(f, due, count) ==
  [f EXCEPT
     !.signal_count    = IF @ < count THEN count ELSE @,
     !.virtual_value   = IF due = {} THEN @ ELSE LastUpdate(due).virtual_value,
     !.pending_updates = @ \ due]

\* Mutant: events and tickets only see the value that stays visible.
fence_signal_last_value_only(f, count) ==
  LET due     == DueUpdates(f, count)
      visible == IF due = {} THEN {} ELSE {LastUpdate(due).virtual_value}
  IN  update_pending_value(
        update_wait_tickets(
          signal_external_events(publish_due(f, due, count), visible),
          visible))

fence_signal(f, count) ==
  LET due     == DueUpdates(f, count)
      visible == VirtualValues(due)
  IN  update_pending_value(
        update_wait_tickets(
          signal_external_events(publish_due(f, due, count), visible),
          visible))

-----------------------------------------------------------------------------
(***************************************************************************)
(* The parts of d3d12_fence_block_until_pending_value_reaches_locked.      *)
(***************************************************************************)

\* The rescan: does the ticket still stand?
HasTicket(f, ticket) == \E t \in f.wait_tickets : t.ticket = ticket

consume_ticket(f, ticket) ==
  [f EXCEPT !.wait_tickets = { t \in @ : t.ticket # ticket }]

\* Submitted signals that will satisfy a wait for value, and those of them on
\* the physical queue the waiter itself submits to.
Satisfying(f, value) ==
  { p \in f.pending_updates : p.virtual_value >= value }

SatisfyingOnQueue(f, value, timeline) ==
  { p \in Satisfying(f, value) : p.vk_semaphore = timeline }

\* Among several, the update that took its number first.
EarliestUpdate(updates) ==
  CHOOSE p \in updates : \A q \in updates : p.update_count <= q.update_count
-----------------------------------------------------------------------------
(***************************************************************************)
(* What must hold of a fence whenever its mutex is free.                   *)
(***************************************************************************)

\* Whoever still waits, waits for a value that is not visible.
WaitersUnsatisfied(f) ==
  /\ \A t \in f.wait_tickets : f.virtual_value < t.virtual_value
  /\ \A e \in f.events : f.virtual_value < e.value

\* The pending updates carry the numbers signal_count + 1 to update_count, each
\* of them once.
PendingWindow(f) ==
  /\ f.signal_count <= f.update_count
  /\ { p.update_count : p \in f.pending_updates }
       = f.signal_count + 1 .. f.update_count
  /\ \A p, q \in f.pending_updates : p.update_count = q.update_count => p = q

\* The maximum pending value is the greatest value visible or submitted.
MaxPendingExact(f) ==
  /\ f.virtual_value <= f.max_pending
  /\ \A p \in f.pending_updates : p.virtual_value <= f.max_pending
  /\ \/ f.max_pending = f.virtual_value
     \/ \E p \in f.pending_updates : p.virtual_value = f.max_pending
=============================================================================
