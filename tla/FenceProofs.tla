----------------------------- MODULE FenceProofs -----------------------------
(***************************************************************************)
(* What module Fence promises, for every set of queues and threads and     *)
(* every bound.  First what each operator of FenceOps does to a fence that *)
(* is in order, then the inductive invariant, then the theorems.           *)
(***************************************************************************)
EXTENDS Fence, WellFoundedInduction, TLAPS

-----------------------------------------------------------------------------
(***************************************************************************)
(* The greatest element of a set of values exists.                         *)
(***************************************************************************)
LessThanOnNat == { ss \in Nat \X Nat : ss[1] < ss[2] }

\* The library's well-foundedness of < on Nat, as a set of pairs.
LEMMA LessThanOnNatWellFounded == IsWellFoundedOn(LessThanOnNat, Nat)
BY NatLessThanWellFounded DEF OpToRel, LessThanOnNat

\* Every non-empty set of naturals has a least element.
LEMMA LeastNatural ==
  ASSUME NEW T, T \subseteq Nat, T # {}
  PROVE  \E m \in T : \A y \in T : m <= y
<1>1. PICK m \in T : \A y \in T : <<y, m>> \notin LessThanOnNat
  BY LessThanOnNatWellFounded, WFMin
<1>2. ASSUME NEW y \in T PROVE m <= y
  <2>1. y \in Nat /\ m \in Nat
    OBVIOUS
  <2>2. ~ (y < m)
    BY <2>1, <1>1 DEF LessThanOnNat
  <2>3. QED
    BY <2>1, <2>2
<1>3. QED
  BY <1>2

\* Greatest(S) is what its name says for every non-empty set of values: they
\* are bounded by MaxValue.
LEMMA GreatestProperty ==
  ASSUME NEW S \in SUBSET Value, S # {}
  PROVE  /\ Greatest(S) \in S
         /\ \A y \in S : y <= Greatest(S)
<1> DEFINE T == { MaxValue - x : x \in S }
<1>1. \A x \in S : x \in Nat /\ x <= MaxValue
  BY MaxValueAssumption DEF Value
<1>2. T \subseteq Nat
  BY <1>1, MaxValueAssumption
<1>3. T # {}
  OBVIOUS
<1>4. PICK m \in T : \A y \in T : m <= y
  <2> HIDE DEF T
  <2> QED BY <1>2, <1>3, LeastNatural
<1>5. PICK x \in S : m = MaxValue - x
  OBVIOUS
<1>6. ASSUME NEW y \in S PROVE y <= x
  <2>1. MaxValue - x <= MaxValue - y
    BY <1>4, <1>5
  <2>2. QED
    BY <2>1, <1>1, MaxValueAssumption
<1>7. QED
  BY <1>6 DEF Greatest

-----------------------------------------------------------------------------
(***************************************************************************)
(* The operators of FenceOps on a fence in order.                          *)
(***************************************************************************)
InOrder(f) ==
  /\ f \in FenceState
  /\ WaitersUnsatisfied(f)
  /\ PendingWindow(f)
  /\ MaxPendingExact(f)

\* Recomputing the maximum pending value makes it exact and changes nothing
\* else of the fence.
LEMMA UpdatePendingValueFacts ==
  ASSUME NEW f \in FenceState
  PROVE  LET g == update_pending_value(f)
         IN  /\ g \in FenceState
             /\ MaxPendingExact(g)
             /\ g = [f EXCEPT !.max_pending = g.max_pending]
<1> DEFINE S == {f.virtual_value} \cup VirtualValues(f.pending_updates)
           m == Greatest(S)
           g == [f EXCEPT !.max_pending = m]
<1>1. S \in SUBSET Value
  BY DEF VirtualValues, FenceState, Update
<1>2. m \in S /\ \A y \in S : y <= m
  <2> HIDE DEF S
  <2>1. S # {}
    BY DEF S
  <2>2. QED
    BY <1>1, <2>1, GreatestProperty
<1>3. m \in Value
  BY <1>1, <1>2
<1>4. update_pending_value(f) = g
  BY DEF update_pending_value
<1>5. g \in FenceState /\ g = [f EXCEPT !.max_pending = g.max_pending]
  <2> HIDE DEF m
  <2> QED BY <1>3 DEF FenceState
<1>6. MaxPendingExact(g)
  <2>1. f.virtual_value \in S /\ \A p \in f.pending_updates : p.virtual_value \in S
    BY DEF VirtualValues
  <2>2. m = f.virtual_value \/ \E p \in f.pending_updates : p.virtual_value = m
    BY <1>2 DEF VirtualValues
  <2>3. /\ g.max_pending = m
        /\ g.virtual_value = f.virtual_value
        /\ g.pending_updates = f.pending_updates
    BY DEF FenceState
  <2> HIDE DEF S, m, g
  <2>4. QED
    BY <2>1, <2>2, <2>3, <1>2 DEF MaxPendingExact
<1>7. QED
  BY <1>4, <1>5, <1>6

\* A CPU signal leaves the fence in order; it settles every ticket and event it
\* reaches, adds none, and leaves the pending updates alone.
LEMMA CpuSignalFacts ==
  ASSUME NEW f, InOrder(f), NEW v \in Value
  PROVE  LET g == signal_cpu_timeline_semaphore(f, v)
         IN  /\ InOrder(g)
             /\ g.wait_tickets \subseteq f.wait_tickets
             /\ g.events \subseteq f.events
             /\ g.signal_count = f.signal_count
             /\ g.update_count = f.update_count
             /\ g.wait_ticket_counter = f.wait_ticket_counter
<1> DEFINE h == update_wait_tickets(
                  signal_external_events([f EXCEPT !.virtual_value = v], {v}),
                  {v})
           g == update_pending_value(h)
<1>1. signal_cpu_timeline_semaphore(f, v) = g
  BY DEF signal_cpu_timeline_semaphore
<1>2. f \in FenceState
  BY DEF InOrder
<1>3. h = [f EXCEPT !.virtual_value = v,
                    !.events = { e \in f.events : v < e.value },
                    !.wait_tickets =
                      { t \in f.wait_tickets : v < t.virtual_value }]
  BY <1>2 DEF update_wait_tickets, signal_external_events, FenceState
<1>4. h \in FenceState
  BY <1>2, <1>3 DEF FenceState
<1>5. /\ g \in FenceState
      /\ MaxPendingExact(g)
      /\ g = [h EXCEPT !.max_pending = g.max_pending]
  <2> HIDE DEF h
  <2> QED BY <1>4, UpdatePendingValueFacts
<1> HIDE DEF g, h
<1>6. /\ g.virtual_value = v
      /\ g.events = { e \in f.events : v < e.value }
      /\ g.wait_tickets = { t \in f.wait_tickets : v < t.virtual_value }
      /\ g.pending_updates = f.pending_updates
      /\ g.signal_count = f.signal_count
      /\ g.update_count = f.update_count
      /\ g.wait_ticket_counter = f.wait_ticket_counter
  BY <1>2, <1>3, <1>4, <1>5 DEF FenceState
<1>7. WaitersUnsatisfied(g)
  BY <1>6 DEF WaitersUnsatisfied
<1>8. PendingWindow(g)
  BY <1>6 DEF PendingWindow, InOrder
<1>9. QED
  BY <1>1, <1>5, <1>6, <1>7, <1>8 DEF InOrder

\* What is due when the fence is in order: the last due update is the one the
\* loop was called for.
LEMMA DueUpdatesFacts ==
  ASSUME NEW f, InOrder(f), NEW count \in 1 .. f.update_count,
         f.signal_count < count
  PROVE  /\ DueUpdates(f, count) # {}
         /\ LastUpdate(DueUpdates(f, count)) \in DueUpdates(f, count)
         /\ LastUpdate(DueUpdates(f, count)).update_count = count
<1> DEFINE due == DueUpdates(f, count)
<1>1. /\ f.update_count \in Nat /\ f.signal_count \in Nat
      /\ \A p \in f.pending_updates : p.update_count \in Nat
  BY DEF InOrder, FenceState, Update
<1>2. count \in f.signal_count + 1 .. f.update_count
  BY <1>1
<1>3. PICK p \in f.pending_updates : p.update_count = count
  BY <1>2 DEF InOrder, PendingWindow
<1>4. p \in due
  BY <1>1, <1>3 DEF DueUpdates
<1>5. \A q \in due : q.update_count <= p.update_count
  BY <1>3 DEF DueUpdates
<1>6. /\ LastUpdate(due) \in due
      /\ p.update_count <= LastUpdate(due).update_count
  BY <1>4, <1>5 DEF LastUpdate
<1>7. /\ LastUpdate(due).update_count <= count
      /\ LastUpdate(due).update_count \in Nat
  BY <1>1, <1>6 DEF DueUpdates
<1>8. QED
  BY <1>3, <1>4, <1>6, <1>7

\* Every pending update is numbered above signal_count.
LEMMA PendingWindowBelow ==
  ASSUME NEW f, InOrder(f), NEW p \in f.pending_updates
  PROVE  f.signal_count < p.update_count
<1>1. p.update_count \in f.signal_count + 1 .. f.update_count
  BY DEF InOrder, PendingWindow
<1>2. f.signal_count \in Nat /\ f.update_count \in Nat
  BY DEF InOrder, FenceState
<1>3. QED
  BY <1>1, <1>2

\* Publishing up to an update that was handed out leaves the fence in order,
\* and makes exactly that update visible if it was not yet.
LEMMA FenceSignalFacts ==
  ASSUME NEW f, InOrder(f), NEW count \in 1 .. f.update_count
  PROVE  LET g == fence_signal(f, count)
         IN  /\ InOrder(g)
             /\ g.wait_tickets \subseteq f.wait_tickets
             /\ g.events \subseteq f.events
             /\ g.update_count = f.update_count
             /\ g.wait_ticket_counter = f.wait_ticket_counter
             /\ \/ /\ g.signal_count = f.signal_count
                   /\ count <= f.signal_count
                \/ /\ g.signal_count = count
                   /\ \E p \in f.pending_updates :
                        /\ p.update_count = count
                        /\ p.virtual_value = g.virtual_value
                   /\ \A p \in g.pending_updates : count < p.update_count
<1> DEFINE due == DueUpdates(f, count)
           visible == VirtualValues(due)
           d == publish_due(f, due, count)
           h == update_wait_tickets(signal_external_events(d, visible), visible)
           g == update_pending_value(h)
<1>1. fence_signal(f, count) = g
  BY DEF fence_signal
<1>2. /\ f \in FenceState
      /\ f.signal_count \in Nat /\ f.update_count \in Nat
      /\ MaxUpdates \in Nat /\ f.update_count <= MaxUpdates
      /\ count \in Nat /\ count <= f.update_count
      /\ \A p \in f.pending_updates :
           /\ p.update_count \in Nat
           /\ p.virtual_value \in Value
      /\ f.signal_count <= f.update_count
  BY FenceAssumption DEF InOrder, FenceState, Update, PendingWindow
<1>3. due \subseteq f.pending_updates
  BY DEF DueUpdates
<1>4. f.signal_count < count =>
        /\ due # {} /\ LastUpdate(due) \in due
        /\ LastUpdate(due).update_count = count
  BY DueUpdatesFacts
<1>5. count <= f.signal_count => due = {}
  BY <1>2 DEF DueUpdates
<1>6. DEFINE sc == IF f.signal_count < count THEN count ELSE f.signal_count
             vv == IF due = {} THEN f.virtual_value
                               ELSE LastUpdate(due).virtual_value
<1>7. sc \in 0 .. MaxUpdates /\ vv \in Value /\ sc <= f.update_count
  <2>1. sc \in 0 .. MaxUpdates /\ sc <= f.update_count
    BY <1>2
  <2>2. vv \in Value
    <3>1. f.virtual_value \in Value
      BY <1>2 DEF FenceState
    <3>2. CASE due = {}
      BY <3>1, <3>2
    <3>3. CASE due # {}
      BY <3>3, <1>2, <1>3, <1>4, <1>5
    <3>4. QED BY <3>2, <3>3
  <2>3. QED BY <2>1, <2>2
<1>8. h = [f EXCEPT !.signal_count = sc,
                    !.virtual_value = vv,
                    !.pending_updates = f.pending_updates \ due,
                    !.events =
                      { e \in f.events : \A v \in visible : v < e.value },
                    !.wait_tickets =
                      { t \in f.wait_tickets :
                          \A v \in visible : v < t.virtual_value }]
  <2> HIDE DEF due, visible
  <2> QED BY <1>2 DEF update_wait_tickets, signal_external_events,
                      publish_due, FenceState
<1> HIDE DEF sc, vv, visible, due
<1>9. h \in FenceState
  BY <1>2, <1>7, <1>8 DEF FenceState
<1>10. /\ g \in FenceState
       /\ MaxPendingExact(g)
       /\ g = [h EXCEPT !.max_pending = g.max_pending]
  <2> HIDE DEF h
  <2> QED BY <1>9, UpdatePendingValueFacts
<1> HIDE DEF g, h
<1>11. /\ g.signal_count = sc
       /\ g.virtual_value = vv
       /\ g.pending_updates = f.pending_updates \ due
       /\ g.events = { e \in f.events : \A v \in visible : v < e.value }
       /\ g.wait_tickets =
            { t \in f.wait_tickets : \A v \in visible : v < t.virtual_value }
       /\ g.update_count = f.update_count
       /\ g.wait_ticket_counter = f.wait_ticket_counter
  BY <1>2, <1>8, <1>9, <1>10 DEF FenceState
<1>12. vv = f.virtual_value \/ vv \in visible
  BY <1>4, <1>5, <1>2 DEF vv, visible, VirtualValues
<1>13. WaitersUnsatisfied(g)
  BY <1>11, <1>12 DEF WaitersUnsatisfied, InOrder
<1>14. \A p \in f.pending_updates : p \in due <=> p.update_count <= sc
  BY <1>2, PendingWindowBelow DEF due, DueUpdates, sc
<1>15. PendingWindow(g)
  <2>1. g.signal_count <= g.update_count
    BY <1>7, <1>11
  <2>2. \A p, q \in g.pending_updates : p.update_count = q.update_count => p = q
    BY <1>11 DEF InOrder, PendingWindow
  <2>3. { p.update_count : p \in g.pending_updates }
          = g.signal_count + 1 .. g.update_count
    <3>1. ASSUME NEW p \in g.pending_updates
          PROVE  p.update_count \in sc + 1 .. f.update_count
      <4>1. p \in f.pending_updates /\ ~ (p.update_count <= sc)
        BY <1>11, <1>14
      <4>2. p.update_count \in f.signal_count + 1 .. f.update_count
        BY <4>1 DEF InOrder, PendingWindow
      <4>3. QED
        BY <4>1, <4>2, <1>2, <1>7
    <3>2. ASSUME NEW n \in sc + 1 .. f.update_count
          PROVE  \E p \in g.pending_updates : p.update_count = n
      <4>1. n \in f.signal_count + 1 .. f.update_count
        BY <1>2, <1>7 DEF sc
      <4>2. PICK p \in f.pending_updates : p.update_count = n
        BY <4>1 DEF InOrder, PendingWindow
      <4>3. ~ (p.update_count <= sc)
        BY <4>2, <1>7
      <4>4. QED
        BY <4>2, <4>3, <1>11, <1>14
    <3>3. QED
      BY <3>1, <3>2, <1>11
  <2>4. QED
    BY <2>1, <2>2, <2>3 DEF PendingWindow
<1>16. \/ g.signal_count = f.signal_count /\ count <= f.signal_count
       \/ /\ g.signal_count = count
          /\ \E p \in f.pending_updates :
               /\ p.update_count = count
               /\ p.virtual_value = g.virtual_value
          /\ \A p \in g.pending_updates : count < p.update_count
  <2>1. CASE count <= f.signal_count
    BY <2>1, <1>2, <1>11 DEF sc
  <2>2. CASE f.signal_count < count
    <3>1. sc = count
      BY <2>2 DEF sc
    <3>2. LastUpdate(due) \in f.pending_updates
          /\ vv = LastUpdate(due).virtual_value
      BY <2>2, <1>3, <1>4 DEF vv
    <3>3. \A p \in g.pending_updates : count < p.update_count
      BY <1>2, <1>11, <1>14, <3>1
    <3>4. QED
      BY <2>2, <1>4, <1>11, <3>1, <3>2, <3>3
  <2>3. QED
    BY <2>1, <2>2, <1>2
<1>17. QED
  BY <1>1, <1>10, <1>11, <1>13, <1>15, <1>16 DEF InOrder

\* A queue Signal leaves the fence in order, with one more update pending.
LEMMA QueueSignalFacts ==
  ASSUME NEW f, InOrder(f), f.update_count < MaxUpdates,
         NEW v \in Value, NEW tl \in Timelines, NEW tv \in TimelineValues
  PROVE  LET g == update_pending_value(add_pending_signal(f, v, tl, tv))
         IN  /\ InOrder(g)
             /\ g.wait_tickets = f.wait_tickets
             /\ g.events = f.events
             /\ g.signal_count = f.signal_count
             /\ g.update_count = f.update_count + 1
             /\ g.wait_ticket_counter = f.wait_ticket_counter
<1> DEFINE n == f.update_count + 1
           u == [ update_count |-> n, virtual_value |-> v,
                  vk_semaphore |-> tl, vk_semaphore_value |-> tv ]
           h == add_pending_signal(f, v, tl, tv)
           g == update_pending_value(h)
<1>1. /\ f \in FenceState
      /\ f.update_count \in Nat /\ f.signal_count \in Nat
      /\ f.signal_count <= f.update_count
      /\ MaxUpdates \in Nat
  BY FenceAssumption DEF InOrder, FenceState, PendingWindow
<1>2. n \in 1 .. MaxUpdates /\ u \in Update
  BY <1>1 DEF Update
<1>3. h = [f EXCEPT !.update_count = n,
                    !.pending_updates = f.pending_updates \cup {u}]
  BY <1>1 DEF add_pending_signal, FenceState
<1> HIDE DEF h
<1>4. h \in FenceState
  <2> HIDE DEF n, u
  <2>1. n \in 0 .. MaxUpdates
    BY <1>1, <1>2
  <2>2. f.pending_updates \cup {u} \in SUBSET Update
    BY <1>1, <1>2 DEF FenceState
  <2>3. QED
    BY <1>1, <1>3, <2>1, <2>2 DEF FenceState
<1>5. /\ g \in FenceState
      /\ MaxPendingExact(g)
      /\ g = [h EXCEPT !.max_pending = g.max_pending]
  BY <1>4, UpdatePendingValueFacts
<1> HIDE DEF g
<1>6. /\ g.virtual_value = f.virtual_value
      /\ g.wait_tickets = f.wait_tickets
      /\ g.events = f.events
      /\ g.pending_updates = f.pending_updates \cup {u}
      /\ g.signal_count = f.signal_count
      /\ g.update_count = n
      /\ g.wait_ticket_counter = f.wait_ticket_counter
  <2> HIDE DEF n, u
  <2> QED BY <1>1, <1>3, <1>4, <1>5 DEF FenceState
<1>7. WaitersUnsatisfied(g)
  BY <1>6 DEF WaitersUnsatisfied, InOrder
<1>8. PendingWindow(g)
  <2>1. \A p \in f.pending_updates :
           p.update_count \in f.signal_count + 1 .. f.update_count
    BY DEF InOrder, PendingWindow
  <2>2. \A m \in f.signal_count + 1 .. f.update_count :
           \E p \in f.pending_updates : p.update_count = m
    BY DEF InOrder, PendingWindow
  <2>3. u.update_count = n
    OBVIOUS
  <2>4. \A p, q \in f.pending_updates : p.update_count = q.update_count => p = q
    BY DEF InOrder, PendingWindow
  <2>5. \A p \in f.pending_updates : p.update_count # n
    BY <1>1, <2>1
  <2> HIDE DEF u
  <2>6. \A p, q \in g.pending_updates : p.update_count = q.update_count => p = q
    BY <1>6, <2>3, <2>4, <2>5
  <2>7. ASSUME NEW p \in g.pending_updates
        PROVE  p.update_count \in g.signal_count + 1 .. g.update_count
    BY <1>1, <1>6, <2>1, <2>3
  <2>8. ASSUME NEW m \in g.signal_count + 1 .. g.update_count
        PROVE  \E p \in g.pending_updates : p.update_count = m
    <3>1. m = n \/ m \in f.signal_count + 1 .. f.update_count
      BY <1>1, <1>6
    <3>2. QED
      BY <3>1, <1>6, <2>2, <2>3
  <2>9. g.signal_count <= g.update_count
    BY <1>1, <1>6
  <2>10. QED
    BY <2>6, <2>7, <2>8, <2>9 DEF PendingWindow
<1>9. QED
  BY <1>5, <1>6, <1>7, <1>8 DEF g, h, InOrder

\* Taking a ticket leaves the fence in order; the ticket is new.
LEMMA RegisterFacts ==
  ASSUME NEW f, InOrder(f), f.wait_ticket_counter < MaxTickets, NEW v \in Value
  PROVE  LET g == register_pending_gpu_wait(f, v)
         IN  /\ InOrder(g)
             /\ g.wait_ticket_counter = f.wait_ticket_counter + 1
             /\ \A t \in g.wait_tickets :
                  \/ t \in f.wait_tickets
                  \/ /\ t.ticket = g.wait_ticket_counter
                     /\ t.virtual_value = v
             /\ f.wait_tickets \subseteq g.wait_tickets
             /\ g = [f EXCEPT !.wait_ticket_counter = g.wait_ticket_counter,
                              !.wait_tickets = g.wait_tickets]
<1> DEFINE n == f.wait_ticket_counter + 1
           t0 == [ticket |-> n, virtual_value |-> v]
           tickets == IF f.virtual_value < v THEN f.wait_tickets \cup {t0}
                                             ELSE f.wait_tickets
           g == register_pending_gpu_wait(f, v)
<1>1. f \in FenceState
  BY DEF InOrder
<1>2. n \in 0 .. MaxTickets /\ n \in 1 .. MaxTickets
  BY <1>1, FenceAssumption DEF FenceState
<1>3. t0 \in Ticket /\ t0.ticket = n /\ t0.virtual_value = v
  BY <1>2 DEF Ticket
<1>4. g = [f EXCEPT !.wait_ticket_counter = n, !.wait_tickets = tickets]
  BY <1>1 DEF register_pending_gpu_wait, FenceState
<1> HIDE DEF t0, n, g
<1>5. tickets \subseteq Ticket /\ f.wait_tickets \subseteq tickets
  BY <1>1, <1>3 DEF FenceState
<1>6. \A t \in tickets : t \in f.wait_tickets \/ (t = t0 /\ f.virtual_value < v)
  OBVIOUS
<1> HIDE DEF tickets
<1>7. /\ g \in FenceState
      /\ g.wait_tickets = tickets /\ g.wait_ticket_counter = n
      /\ g.virtual_value = f.virtual_value
      /\ g.max_pending = f.max_pending
      /\ g.pending_updates = f.pending_updates
      /\ g.signal_count = f.signal_count /\ g.update_count = f.update_count
      /\ g.events = f.events
  BY <1>1, <1>2, <1>4, <1>5 DEF FenceState
<1>8. WaitersUnsatisfied(g)
  BY <1>3, <1>6, <1>7 DEF WaitersUnsatisfied, InOrder
<1>9. PendingWindow(g) /\ MaxPendingExact(g)
  BY <1>7 DEF PendingWindow, MaxPendingExact, InOrder
<1>10. QED
  BY <1>3, <1>4, <1>5, <1>6, <1>7, <1>8, <1>9 DEF InOrder, g, n

\* Consuming a ticket leaves the fence in order.
LEMMA ConsumeFacts ==
  ASSUME NEW f, InOrder(f), NEW k
  PROVE  LET g == consume_ticket(f, k)
         IN  /\ InOrder(g)
             /\ g.wait_tickets = { t \in f.wait_tickets : t.ticket # k }
             /\ g = [f EXCEPT !.wait_tickets = g.wait_tickets]
<1> DEFINE tickets == { t \in f.wait_tickets : t.ticket # k }
           g == consume_ticket(f, k)
<1>1. f \in FenceState
  BY DEF InOrder
<1>2. g = [f EXCEPT !.wait_tickets = tickets]
  BY <1>1 DEF consume_ticket, FenceState
<1>3. tickets \subseteq f.wait_tickets
  OBVIOUS
<1> HIDE DEF tickets, g
<1>4. /\ g \in FenceState
      /\ g.wait_tickets = tickets
      /\ g.virtual_value = f.virtual_value
      /\ g.max_pending = f.max_pending
      /\ g.pending_updates = f.pending_updates
      /\ g.signal_count = f.signal_count /\ g.update_count = f.update_count
      /\ g.events = f.events
  BY <1>1, <1>2, <1>3 DEF FenceState
<1>5. WaitersUnsatisfied(g) /\ PendingWindow(g) /\ MaxPendingExact(g)
  BY <1>3, <1>4
     DEF WaitersUnsatisfied, PendingWindow, MaxPendingExact, InOrder
<1>6. QED
  BY <1>2, <1>4, <1>5 DEF InOrder, g, tickets
-----------------------------------------------------------------------------
(***************************************************************************)
(* The inductive invariant.  A sleeper keeps its ticket only if no other   *)
(* queue can consume it, so tickets of different queues must differ; a     *)
(* ticket stands for the value its queue waits for; a thread has no second *)
(* event that would outlive its latch.                                     *)
(***************************************************************************)
TicketsAreIssued ==
  /\ \A t \in fence.wait_tickets : t.ticket <= fence.wait_ticket_counter
  /\ \A q \in Queues : wait[q].pc # "idle" =>
       /\ 1 <= wait[q].ticket
       /\ wait[q].ticket <= fence.wait_ticket_counter

\* The ticket of a queue's Wait, while it stands, carries the value of the Wait.
TicketsStandForTheirWait ==
  \A q \in Queues : wait[q].pc # "idle" =>
    \A t \in fence.wait_tickets :
      t.ticket = wait[q].ticket => t.virtual_value = wait[q].value

\* No two queues hold the same ticket.
TicketsAreDistinct ==
  \A q, r \in Queues :
    wait[q].pc # "idle" /\ wait[r].pc # "idle" /\ wait[q].ticket = wait[r].ticket
      => q = r

\* A thread has at most one event in the list.
OneEventPerThread ==
  \A e1, e2 \in fence.events :
    e1.handle = e2.handle /\ e1.handle \in Threads => e1 = e2

\* The inductive invariant.
IInv ==
  /\ TypeOK
  /\ InOrder(fence)
  /\ unpublished \subseteq 1 .. fence.update_count
  /\ TicketsAreIssued
  /\ TicketsStandForTheirWait
  /\ TicketsAreDistinct
  /\ SleepersHaveNothingToDo
  /\ OneEventPerThread
  /\ BlockedThreadsAreListed

\* Init establishes it.
LEMMA InitEstablishesIInv == Init => IInv
<1> SUFFICES ASSUME Init PROVE IInv
  OBVIOUS
<1>1. PICK v \in Value : fence = fence_init(v)
  BY DEF Init
<1>2. /\ fence.virtual_value = v /\ fence.max_pending = v
      /\ fence.update_count = 0 /\ fence.signal_count = 0
      /\ fence.wait_ticket_counter = 0 /\ fence.pending_updates = {}
      /\ fence.wait_tickets = {} /\ fence.events = {}
  BY <1>1 DEF fence_init
<1>3. fence \in FenceState
  <2>1. 0 \in 0 .. MaxUpdates /\ 0 \in 0 .. MaxTickets
    BY FenceAssumption
  <2>2. QED
    BY <1>1, <2>1 DEF fence_init, FenceState
<1>4. v \in Int
  BY MaxValueAssumption DEF Value
<1>5. InOrder(fence)
  <2>1. WaitersUnsatisfied(fence)
    BY <1>2 DEF WaitersUnsatisfied
  <2>2. PendingWindow(fence)
    BY <1>2 DEF PendingWindow
  <2>3. MaxPendingExact(fence)
    BY <1>2, <1>4 DEF MaxPendingExact
  <2>4. QED
    BY <1>3, <2>1, <2>2, <2>3 DEF InOrder
<1>6. \A q \in Queues : wait[q].pc = "idle"
  BY DEF Init, NoWait
<1>7. TypeOK
  <2>1. NoWait \in WaitState
    BY FenceAssumption, MaxValueAssumption DEF NoWait, WaitState, Value
  <2>2. QED
    BY <1>3, <2>1 DEF Init, TypeOK
<1>8. SleepersHaveNothingToDo
  BY <1>6 DEF SleepersHaveNothingToDo
<1>9. BlockedThreadsAreListed
  BY <1>2 DEF Init, BlockedThreadsAreListed
<1>10. TicketsAreIssued /\ TicketsStandForTheirWait /\ TicketsAreDistinct
  BY <1>2, <1>6 DEF TicketsAreIssued, TicketsStandForTheirWait, TicketsAreDistinct
<1>11. QED
  BY <1>2, <1>5, <1>7, <1>8, <1>9, <1>10
     DEF Init, IInv, OneEventPerThread

\* A broadcast leaves nobody asleep and changes neither values nor tickets.
LEMMA BroadcastFacts ==
  ASSUME wait \in [Queues -> WaitState], broadcast
  PROVE  /\ wait' \in [Queues -> WaitState]
         /\ \A q \in Queues :
              /\ wait'[q].pc # "asleep"
              /\ wait'[q].pc = "idle" <=> wait[q].pc = "idle"
              /\ wait'[q].value = wait[q].value
              /\ wait'[q].ticket = wait[q].ticket
<1> SUFFICES ASSUME NEW q \in Queues
             PROVE  /\ wait'[q] \in WaitState
                    /\ wait'[q].pc # "asleep"
                    /\ wait'[q].pc = "idle" <=> wait[q].pc = "idle"
                    /\ wait'[q].value = wait[q].value
                    /\ wait'[q].ticket = wait[q].ticket
  BY DEF broadcast
<1>1. wait[q] \in WaitState
  OBVIOUS
<1>2. wait'[q] = IF wait[q].pc = "asleep" THEN [wait[q] EXCEPT !.pc = "awake"]
                                          ELSE wait[q]
  BY DEF broadcast
<1>3. QED
  BY <1>1, <1>2 DEF WaitState

\* Whatever makes a value visible (a CPU signal, the last Release, a fence
\* worker) settles tickets and events, latches and broadcasts.
LEMMA SettleStep ==
  ASSUME IInv,
         InOrder(fence'),
         fence'.wait_tickets \subseteq fence.wait_tickets,
         fence'.events \subseteq fence.events,
         fence'.update_count = fence.update_count,
         fence'.wait_ticket_counter = fence.wait_ticket_counter,
         unpublished' \subseteq unpublished,
         released' \in BOOLEAN,
         signal_events,
         broadcast
  PROVE  IInv'
<1> DEFINE fired == { e.handle : e \in fence.events \ fence'.events }
<1>1. /\ wait' \in [Queues -> WaitState]
      /\ \A q \in Queues :
           /\ wait'[q].pc # "asleep"
           /\ wait'[q].pc = "idle" <=> wait[q].pc = "idle"
           /\ wait'[q].value = wait[q].value
           /\ wait'[q].ticket = wait[q].ticket
  BY BroadcastFacts DEF IInv, TypeOK
<1>2. /\ signalled' = signalled \cup (fired \cap Handles)
      /\ blocked' = [t \in Threads |->
                      IF t \in fired THEN "latched" ELSE blocked[t]]
  BY DEF signal_events
<1>3. TypeOK'
  <2>1. fence' \in FenceState
    BY DEF InOrder
  <2>2. signalled' \subseteq Handles /\ blocked' \in [Threads -> {"no", "waiting", "latched"}]
    <3> HIDE DEF fired
    <3> QED BY <1>2 DEF IInv, TypeOK
  <2>3. QED
    BY <1>1, <2>1, <2>2 DEF IInv, TypeOK
<1>4. TicketsAreIssued' /\ TicketsStandForTheirWait' /\ TicketsAreDistinct'
  <2>1. TicketsAreIssued'
    BY <1>1 DEF IInv, TicketsAreIssued
  <2>2. TicketsStandForTheirWait'
    BY <1>1 DEF IInv, TicketsStandForTheirWait
  <2>3. TicketsAreDistinct'
    BY <1>1 DEF IInv, TicketsAreDistinct
  <2>4. QED BY <2>1, <2>2, <2>3
<1>5. SleepersHaveNothingToDo'
  BY <1>1 DEF SleepersHaveNothingToDo
<1>6. OneEventPerThread'
  BY DEF IInv, OneEventPerThread
<1>7. BlockedThreadsAreListed'
  <2> SUFFICES ASSUME NEW t \in Threads
               PROVE  blocked'[t] = "waiting"
                        <=> \E e \in fence'.events : e.handle = t
    BY DEF BlockedThreadsAreListed
  <2>1. blocked[t] = "waiting" <=> \E e \in fence.events : e.handle = t
    BY DEF IInv, BlockedThreadsAreListed
  <2>2. CASE t \in fired
    <3>1. PICK e \in fence.events \ fence'.events : e.handle = t
      BY <2>2
    <3>2. ~ \E e2 \in fence'.events : e2.handle = t
      BY <3>1 DEF IInv, OneEventPerThread
    <3> HIDE DEF fired
    <3>3. blocked'[t] = "latched"
      BY <1>2, <2>2
    <3>4. QED
      BY <3>2, <3>3
  <2>3. CASE t \notin fired
    <3>1. \A e \in fence.events : e.handle = t => e \in fence'.events
      BY <2>3
    <3> HIDE DEF fired
    <3>2. blocked'[t] = blocked[t]
      BY <1>2, <2>3
    <3>3. QED
      BY <2>1, <3>1, <3>2
  <2>4. QED
    BY <2>2, <2>3
<1>8. QED
  BY <1>3, <1>4, <1>5, <1>6, <1>7 DEF IInv
\* When only the events, the latches and the handles change.
LEMMA ApplicationStep ==
  ASSUME IInv, TypeOK',
         \E es \in SUBSET Event : fence' = [fence EXCEPT !.events = es],
         WaitersUnsatisfied(fence'),
         OneEventPerThread', BlockedThreadsAreListed',
         UNCHANGED <<unpublished, wait>>
  PROVE  IInv'
<1>1. fence \in FenceState
  BY DEF IInv, InOrder
<1>2. /\ fence'.wait_tickets = fence.wait_tickets
      /\ fence'.pending_updates = fence.pending_updates
      /\ fence'.virtual_value = fence.virtual_value
      /\ fence'.max_pending = fence.max_pending
      /\ fence'.update_count = fence.update_count
      /\ fence'.signal_count = fence.signal_count
      /\ fence'.wait_ticket_counter = fence.wait_ticket_counter
  BY <1>1 DEF FenceState
<1>3. InOrder(fence')
  BY <1>2 DEF IInv, TypeOK, InOrder, PendingWindow, MaxPendingExact
<1>4. TicketsAreIssued' /\ TicketsStandForTheirWait' /\ TicketsAreDistinct'
  BY <1>2 DEF IInv, TicketsAreIssued, TicketsStandForTheirWait, TicketsAreDistinct
<1>5. SleepersHaveNothingToDo'
  BY <1>2 DEF IInv, SleepersHaveNothingToDo, HasTicket
<1>6. QED
  BY <1>2, <1>3, <1>4, <1>5 DEF IInv

\* SetEventOnCompletion with a handle keeps the invariant.
LEMMA SetEventStep ==
  ASSUME IInv, NEW h \in Handles, NEW v \in Value, SetEvent(h, v)
  PROVE  IInv'
<1> DEFINE e0 == [value |-> v, handle |-> h]
<1>1. fence \in FenceState
  BY DEF IInv, InOrder
<1>2. e0 \in Event /\ e0.handle = h /\ e0.value = v
  BY DEF Event
<1> HIDE DEF e0
<1>3. CASE v <= fence.virtual_value /\ fence' = fence
                                    /\ signalled' = signalled \cup {h}
  <2>1. TypeOK'
    BY <1>3 DEF SetEvent, IInv, TypeOK
  <2>2. fence' = [fence EXCEPT !.events = fence.events] /\ fence.events \in SUBSET Event
    BY <1>1, <1>3 DEF FenceState
  <2>3. WaitersUnsatisfied(fence') /\ OneEventPerThread'
    BY <1>3 DEF IInv, InOrder, OneEventPerThread
  <2>4. BlockedThreadsAreListed'
    BY <1>3 DEF SetEvent, IInv, BlockedThreadsAreListed
  <2>5. QED
    BY <2>1, <2>2, <2>3, <2>4, ApplicationStep DEF SetEvent
<1>4. CASE /\ v > fence.virtual_value
           /\ fence' = [fence EXCEPT !.events = fence.events \cup {e0}]
           /\ UNCHANGED signalled
  <2>1. fence.events \cup {e0} \in SUBSET Event
    BY <1>1, <1>2 DEF FenceState
  <2>2. /\ fence' \in FenceState
        /\ fence'.events = fence.events \cup {e0}
        /\ fence'.virtual_value = fence.virtual_value
        /\ fence'.wait_tickets = fence.wait_tickets
    BY <1>1, <1>4, <2>1 DEF FenceState
  <2>3. TypeOK'
    BY <1>4, <2>2 DEF SetEvent, IInv, TypeOK
  <2>4. WaitersUnsatisfied(fence')
    <3>1. fence.virtual_value \in Int /\ v \in Int
      BY <1>1, MaxValueAssumption DEF FenceState, Value
    <3>2. fence.virtual_value < e0.value
      BY <3>1, <1>2, <1>4
    <3>3. QED
      BY <2>2, <3>2 DEF IInv, InOrder, WaitersUnsatisfied
  <2>5. h \notin Threads
    BY FenceAssumption
  <2>6. OneEventPerThread'
    BY <1>2, <2>2, <2>5 DEF IInv, OneEventPerThread
  <2>7. BlockedThreadsAreListed'
    BY <1>2, <2>2, <2>5 DEF SetEvent, IInv, BlockedThreadsAreListed
  <2>8. QED
    BY <1>4, <2>1, <2>3, <2>4, <2>6, <2>7, ApplicationStep DEF SetEvent
<1>5. QED
  BY <1>3, <1>4 DEF SetEvent, e0

\* SetEventOnCompletion with a NULL handle keeps it.
LEMMA SetNullEventStep ==
  ASSUME IInv, NEW a \in Threads, NEW v \in Value, SetNullEvent(a, v)
  PROVE  IInv'
<1> DEFINE e0 == [value |-> v, handle |-> a]
<1>1. fence \in FenceState
  BY DEF IInv, InOrder
<1>2. e0 \in Event /\ e0.handle = a /\ e0.value = v
  BY DEF Event
<1>3. fence' = [fence EXCEPT !.events = fence.events \cup {e0}]
  BY DEF SetNullEvent
<1> HIDE DEF e0
<1>4. fence.events \cup {e0} \in SUBSET Event
  BY <1>1, <1>2 DEF FenceState
<1>5. /\ fence' \in FenceState
      /\ fence'.events = fence.events \cup {e0}
      /\ fence'.virtual_value = fence.virtual_value
      /\ fence'.wait_tickets = fence.wait_tickets
  BY <1>1, <1>3, <1>4 DEF FenceState
<1>6. TypeOK'
  BY <1>5 DEF SetNullEvent, IInv, TypeOK
<1>7. WaitersUnsatisfied(fence')
  <2>1. fence.virtual_value \in Int /\ v \in Int
    BY <1>1, MaxValueAssumption DEF FenceState, Value
  <2>2. fence.virtual_value < e0.value
    BY <2>1, <1>2 DEF SetNullEvent
  <2>3. QED
    BY <1>5, <2>2 DEF IInv, InOrder, WaitersUnsatisfied
<1>8. \A e \in fence.events : e.handle # a
  BY DEF SetNullEvent, IInv, BlockedThreadsAreListed
<1>9. OneEventPerThread'
  BY <1>2, <1>5, <1>8 DEF IInv, OneEventPerThread
<1>10. BlockedThreadsAreListed'
  <2> SUFFICES ASSUME NEW t \in Threads
               PROVE  blocked'[t] = "waiting"
                        <=> \E e \in fence'.events : e.handle = t
    BY DEF BlockedThreadsAreListed
  <2>1. CASE t = a
    BY <2>1, <1>2, <1>5 DEF SetNullEvent, IInv, TypeOK
  <2>2. CASE t # a
    BY <2>2, <1>2, <1>5 DEF SetNullEvent, IInv, TypeOK, BlockedThreadsAreListed
  <2>3. QED
    BY <2>1, <2>2
<1>11. QED
  BY <1>3, <1>4, <1>6, <1>7, <1>9, <1>10, ApplicationStep DEF SetNullEvent

\* Returning from a NULL event and resetting a handle touch no event.
LEMMA ReturnStep ==
  ASSUME IInv,
         \/ \E t \in Threads : NullEventReturns(t)
         \/ \E h \in Handles : ResetEvent(h)
  PROVE  IInv'
<1>1. fence \in FenceState /\ fence' = fence /\ UNCHANGED <<unpublished, wait>>
  BY DEF IInv, InOrder, NullEventReturns, ResetEvent
<1>2. fence' = [fence EXCEPT !.events = fence.events] /\ fence.events \in SUBSET Event
  BY <1>1 DEF FenceState
<1>3. TypeOK'
  BY DEF IInv, TypeOK, NullEventReturns, ResetEvent
<1>4. WaitersUnsatisfied(fence') /\ OneEventPerThread'
  BY <1>1 DEF IInv, InOrder, OneEventPerThread
<1>5. BlockedThreadsAreListed'
  BY DEF IInv, TypeOK, BlockedThreadsAreListed, NullEventReturns, ResetEvent
<1>6. QED
  BY <1>1, <1>2, <1>3, <1>4, <1>5, ApplicationStep

\* Taking a ticket for a queue's Wait keeps it.
LEMMA QueueWaitStep ==
  ASSUME IInv, NEW q \in Queues, NEW v \in Value, QueueWait(q, v)
  PROVE  IInv'
<1> DEFINE w == [pc |-> "queued", value |-> v,
                 ticket |-> fence'.wait_ticket_counter]
<1>1. /\ InOrder(fence')
      /\ fence'.wait_ticket_counter = fence.wait_ticket_counter + 1
      /\ \A t \in fence'.wait_tickets :
           \/ t \in fence.wait_tickets
           \/ t.ticket = fence'.wait_ticket_counter /\ t.virtual_value = v
      /\ fence.wait_tickets \subseteq fence'.wait_tickets
      /\ fence' = [fence EXCEPT
                     !.wait_ticket_counter = fence'.wait_ticket_counter,
                     !.wait_tickets = fence'.wait_tickets]
  <2>1. /\ InOrder(fence) /\ fence.wait_ticket_counter < MaxTickets
        /\ fence' = register_pending_gpu_wait(fence, v)
    BY DEF QueueWait, IInv
  <2> DEFINE g == register_pending_gpu_wait(fence, v)
  <2>2. /\ InOrder(g)
        /\ g.wait_ticket_counter = fence.wait_ticket_counter + 1
        /\ \A t \in g.wait_tickets :
             \/ t \in fence.wait_tickets
             \/ t.ticket = g.wait_ticket_counter /\ t.virtual_value = v
        /\ fence.wait_tickets \subseteq g.wait_tickets
        /\ g = [fence EXCEPT !.wait_ticket_counter = g.wait_ticket_counter,
                             !.wait_tickets = g.wait_tickets]
    <3> HIDE DEF g
    <3> QED BY <2>1, RegisterFacts, Zenon DEF g
  <2> HIDE DEF g
  <2>3. fence' = g
    BY <2>1 DEF g
  <2>4. QED
    BY <2>2, <2>3
<1>2. fence \in FenceState /\ fence' \in FenceState
  BY <1>1 DEF IInv, InOrder
<1>3. /\ fence'.events = fence.events
      /\ fence'.max_pending = fence.max_pending
      /\ fence'.update_count = fence.update_count
  BY <1>1, <1>2 DEF FenceState
<1>4. /\ fence.wait_ticket_counter \in Nat
      /\ fence'.wait_ticket_counter \in 0 .. MaxTickets
      /\ \A t \in fence.wait_tickets : t.ticket \in Nat
  BY <1>2, FenceAssumption DEF FenceState, Ticket
<1>5. /\ w \in WaitState /\ w.pc = "queued" /\ w.value = v
      /\ w.ticket = fence.wait_ticket_counter + 1
  BY <1>1, <1>4 DEF WaitState
<1>6. wait' = [wait EXCEPT ![q] = w]
  BY DEF QueueWait
<1> HIDE DEF w
<1>7. wait \in [Queues -> WaitState]
  BY DEF IInv, TypeOK
<1>8. /\ wait' \in [Queues -> WaitState]
      /\ wait'[q] = w
      /\ \A r \in Queues : r # q => wait'[r] = wait[r]
  BY <1>5, <1>6, <1>7
<1>9. TypeOK'
  BY <1>2, <1>8 DEF QueueWait, IInv, TypeOK
<1>10. TicketsAreIssued'
  <2>1. \A t \in fence.wait_tickets : t.ticket <= fence.wait_ticket_counter
    BY DEF IInv, TicketsAreIssued
  <2>2. \A r \in Queues : wait[r].pc # "idle" =>
          1 <= wait[r].ticket /\ wait[r].ticket <= fence.wait_ticket_counter
    BY DEF IInv, TicketsAreIssued
  <2>3. \A r \in Queues : wait[r].ticket \in Nat
    BY <1>7, FenceAssumption DEF WaitState
  <2>4. \A t \in fence'.wait_tickets : t.ticket <= fence'.wait_ticket_counter
    BY <1>1, <1>4, <2>1
  <2>5. \A r \in Queues : wait'[r].pc # "idle" =>
          1 <= wait'[r].ticket /\ wait'[r].ticket <= fence'.wait_ticket_counter
    BY <1>1, <1>4, <1>5, <1>8, <2>2, <2>3
  <2>6. QED
    BY <2>4, <2>5 DEF TicketsAreIssued
<1>11. TicketsStandForTheirWait'
  <2> SUFFICES ASSUME NEW r \in Queues, wait'[r].pc # "idle",
                      NEW t \in fence'.wait_tickets,
                      t.ticket = wait'[r].ticket
               PROVE  t.virtual_value = wait'[r].value
    BY DEF TicketsStandForTheirWait
  <2>1. CASE r = q
    <3>1. t.ticket = fence.wait_ticket_counter + 1
      BY <1>5, <1>8, <2>1
    <3>2. t \notin fence.wait_tickets
      BY <1>4, <3>1 DEF IInv, TicketsAreIssued
    <3>3. QED
      BY <1>1, <1>5, <1>8, <2>1, <3>2
  <2>2. CASE r # q
    <3>1. wait'[r] = wait[r] /\ wait[r].ticket <= fence.wait_ticket_counter
      BY <1>8, <2>2 DEF IInv, TicketsAreIssued
    <3>2. t \in fence.wait_tickets
      <4>1. wait[r].ticket \in Nat
        BY <1>7, FenceAssumption DEF WaitState
      <4>2. t.ticket # fence'.wait_ticket_counter
        BY <1>1, <1>4, <3>1, <4>1
      <4>3. QED
        BY <1>1, <4>2
    <3>3. QED
      BY <3>1, <3>2 DEF IInv, TicketsStandForTheirWait
  <2>3. QED
    BY <2>1, <2>2
<1>12. TicketsAreDistinct'
  <2>1. \A r \in Queues : r # q /\ wait'[r].pc # "idle" =>
          wait'[r].ticket # w.ticket
    <3>1. \A r \in Queues : wait[r].ticket \in Nat
      BY <1>7, FenceAssumption DEF WaitState
    <3>2. QED
      BY <1>4, <1>5, <1>8, <3>1 DEF IInv, TicketsAreIssued
  <2>2. QED
    BY <1>8, <2>1 DEF IInv, TicketsAreDistinct
<1>13. SleepersHaveNothingToDo'
  BY <1>1, <1>3, <1>5, <1>8 DEF IInv, SleepersHaveNothingToDo, HasTicket
<1>14. OneEventPerThread' /\ BlockedThreadsAreListed'
  BY <1>3 DEF QueueWait, IInv, OneEventPerThread, BlockedThreadsAreListed
<1>15. QED
  BY <1>1, <1>3, <1>9, <1>10, <1>11, <1>12, <1>13, <1>14 DEF QueueWait, IInv

\* A queue leaves its wait: the tickets of the others stay.
LEMMA LeaveWaitStep ==
  ASSUME IInv, NEW q \in Queues,
         wait[q].pc # "idle",
         wait' = [wait EXCEPT ![q] = NoWait],
         InOrder(fence'),
         \/ fence'.wait_tickets = fence.wait_tickets
         \/ fence'.wait_tickets =
              { t \in fence.wait_tickets : t.ticket # wait[q].ticket },
         fence' = [fence EXCEPT !.wait_tickets = fence'.wait_tickets],
         UNCHANGED <<released, unpublished, blocked, signalled>>
  PROVE  IInv'
<1>1. fence \in FenceState /\ fence' \in FenceState
  BY DEF IInv, InOrder
<1>2. /\ fence'.events = fence.events
      /\ fence'.max_pending = fence.max_pending
      /\ fence'.update_count = fence.update_count
      /\ fence'.wait_ticket_counter = fence.wait_ticket_counter
  BY <1>1 DEF FenceState
<1>3. NoWait \in WaitState /\ NoWait.pc = "idle"
  BY FenceAssumption, MaxValueAssumption DEF NoWait, WaitState, Value
<1>4. wait \in [Queues -> WaitState]
  BY DEF IInv, TypeOK
<1>5. /\ wait' \in [Queues -> WaitState]
      /\ wait'[q].pc = "idle"
      /\ \A r \in Queues : r # q => wait'[r] = wait[r]
  BY <1>3, <1>4
<1>6. TypeOK'
  BY <1>1, <1>5 DEF IInv, TypeOK
<1>7. fence'.wait_tickets \subseteq fence.wait_tickets
  OBVIOUS
<1>8. TicketsAreIssued' /\ TicketsStandForTheirWait' /\ TicketsAreDistinct'
  <2>1. TicketsAreIssued'
    BY <1>2, <1>5, <1>7 DEF IInv, TicketsAreIssued
  <2>2. TicketsStandForTheirWait'
    BY <1>5, <1>7 DEF IInv, TicketsStandForTheirWait
  <2>3. TicketsAreDistinct'
    BY <1>5 DEF IInv, TicketsAreDistinct
  <2>4. QED BY <2>1, <2>2, <2>3
<1>9. SleepersHaveNothingToDo'
  <2> SUFFICES ASSUME NEW r \in Queues, wait'[r].pc = "asleep"
               PROVE  /\ \E t \in fence'.wait_tickets : t.ticket = wait'[r].ticket
                      /\ fence'.max_pending < wait'[r].value
    BY DEF SleepersHaveNothingToDo, HasTicket
  <2>1. r # q /\ wait'[r] = wait[r]
    BY <1>5
  <2>2. /\ fence.max_pending < wait[r].value
        /\ \E t \in fence.wait_tickets : t.ticket = wait[r].ticket
    BY <2>1 DEF IInv, SleepersHaveNothingToDo, HasTicket
  <2>3. wait[r].ticket # wait[q].ticket
    BY <2>1 DEF IInv, TicketsAreDistinct
  <2>4. QED
    BY <1>2, <2>1, <2>2, <2>3
<1>10. OneEventPerThread' /\ BlockedThreadsAreListed'
  BY <1>2 DEF IInv, OneEventPerThread, BlockedThreadsAreListed
<1>11. QED
  BY <1>2, <1>6, <1>8, <1>9, <1>10 DEF IInv

\* Falling asleep and waking up change the place of one thread only.
LEMMA SleepStep ==
  ASSUME IInv, NEW q \in Queues, WaitSleeps(q) \/ SpuriousWakeup(q)
  PROVE  IInv'
<1>1. /\ fence' = fence
      /\ UNCHANGED <<released, unpublished, blocked, signalled>>
  BY DEF WaitSleeps, SpuriousWakeup
<1>2. wait \in [Queues -> WaitState]
  BY DEF IInv, TypeOK
<1>3. PICK pc \in {"asleep", "awake"} :
        /\ wait' = [wait EXCEPT ![q].pc = pc]
        /\ pc = "asleep" => WaitSleeps(q)
  BY DEF WaitSleeps, SpuriousWakeup
<1>4. wait[q].pc # "idle"
  BY DEF WaitSleeps, SpuriousWakeup, InWait
<1>5. /\ wait' \in [Queues -> WaitState]
      /\ wait'[q].pc = pc
      /\ \A r \in Queues :
           /\ wait'[r].value = wait[r].value
           /\ wait'[r].ticket = wait[r].ticket
           /\ r # q => wait'[r].pc = wait[r].pc
  <2>1. [wait[q] EXCEPT !.pc = pc] \in WaitState
    BY <1>2, <1>3 DEF WaitState
  <2>2. wait[q] \in WaitState
    BY <1>2
  <2>3. /\ wait'[q] = [wait[q] EXCEPT !.pc = pc]
        /\ \A r \in Queues : r # q => wait'[r] = wait[r]
    BY <1>2, <1>3
  <2>4. /\ wait'[q].pc = pc /\ wait'[q].value = wait[q].value
        /\ wait'[q].ticket = wait[q].ticket
    BY <2>2, <2>3 DEF WaitState
  <2>5. QED
    BY <1>2, <1>3, <2>1, <2>3, <2>4
<1>6. TypeOK'
  BY <1>1, <1>5 DEF IInv, TypeOK
<1>7. TicketsAreIssued' /\ TicketsStandForTheirWait' /\ TicketsAreDistinct'
  <2>1. \A r \in Queues : wait'[r].pc # "idle" => wait[r].pc # "idle"
    BY <1>4, <1>5
  <2>2. TicketsAreIssued'
    BY <1>1, <1>5, <2>1 DEF IInv, TicketsAreIssued
  <2>3. TicketsStandForTheirWait'
    BY <1>1, <1>5, <2>1 DEF IInv, TicketsStandForTheirWait
  <2>4. TicketsAreDistinct'
    BY <1>1, <1>5, <2>1 DEF IInv, TicketsAreDistinct
  <2>5. QED BY <2>2, <2>3, <2>4
<1>8. SleepersHaveNothingToDo'
  <2> SUFFICES ASSUME NEW r \in Queues, wait'[r].pc = "asleep"
               PROVE  HasTicket(fence, wait[r].ticket) /\ fence.max_pending < wait[r].value
    BY <1>1, <1>5 DEF SleepersHaveNothingToDo
  <2>1. CASE r = q
    <3>1. WaitSleeps(q)
      BY <1>3, <1>5, <2>1
    <3>2. fence.max_pending \in Int /\ wait[q].value \in Int
      BY <1>2, MaxValueAssumption DEF IInv, TypeOK, FenceState, WaitState, Value
    <3>3. QED
      BY <2>1, <3>1, <3>2 DEF WaitSleeps
  <2>2. CASE r # q
    BY <2>2, <1>5 DEF IInv, SleepersHaveNothingToDo
  <2>3. QED BY <2>1, <2>2
<1>9. InOrder(fence') /\ OneEventPerThread' /\ BlockedThreadsAreListed'
  BY <1>1 DEF IInv, OneEventPerThread, BlockedThreadsAreListed
<1>10. QED
  BY <1>1, <1>6, <1>7, <1>8, <1>9 DEF IInv

\* A queue's Signal keeps it.
LEMMA QueueSignalStep ==
  ASSUME IInv, NEW q \in Queues, NEW v \in Value, NEW tv \in TimelineValues,
         QueueSignal(q, v, tv)
  PROVE  IInv'
<1>1. /\ InOrder(fence')
      /\ fence'.wait_tickets = fence.wait_tickets
      /\ fence'.events = fence.events
      /\ fence'.update_count = fence.update_count + 1
      /\ fence'.wait_ticket_counter = fence.wait_ticket_counter
  <2>1. /\ InOrder(fence) /\ fence.update_count < MaxUpdates
        /\ TimelineOf[q] \in Timelines
        /\ fence' = update_pending_value(
                      add_pending_signal(fence, v, TimelineOf[q], tv))
    BY FenceAssumption DEF QueueSignal, IInv
  <2>2. QED
    BY <2>1, QueueSignalFacts
<1>2. /\ wait' \in [Queues -> WaitState]
      /\ \A r \in Queues :
           /\ wait'[r].pc # "asleep"
           /\ wait'[r].pc = "idle" <=> wait[r].pc = "idle"
           /\ wait'[r].value = wait[r].value
           /\ wait'[r].ticket = wait[r].ticket
  BY BroadcastFacts DEF IInv, TypeOK, QueueSignal
<1>3. unpublished' = unpublished \cup {fence'.update_count}
  BY DEF QueueSignal
<1>4. /\ fence' \in FenceState
      /\ fence.update_count \in Nat
      /\ fence'.update_count \in 1 .. MaxUpdates
  BY <1>1, FenceAssumption DEF IInv, InOrder, FenceState
<1>5. unpublished' \subseteq 1 .. fence'.update_count
  <2>1. \A n \in unpublished : n \in 1 .. fence.update_count
    BY DEF IInv
  <2>2. \A n \in unpublished : n \in 1 .. fence'.update_count
    BY <1>1, <1>4, <2>1
  <2>3. fence'.update_count \in 1 .. fence'.update_count
    BY <1>4, FenceAssumption
  <2>4. QED
    BY <1>3, <2>2, <2>3
<1>6. TypeOK'
  <2>1. unpublished' \subseteq 1 .. MaxUpdates
    BY <1>3, <1>4 DEF IInv, TypeOK
  <2>2. QED
    BY <1>2, <1>4, <2>1 DEF IInv, TypeOK, QueueSignal
<1>7. TicketsAreIssued'
  BY <1>1, <1>2 DEF IInv, TicketsAreIssued
<1>8. TicketsStandForTheirWait'
  BY <1>1, <1>2 DEF IInv, TicketsStandForTheirWait
<1>9. TicketsAreDistinct'
  BY <1>2 DEF IInv, TicketsAreDistinct
<1>10. SleepersHaveNothingToDo'
  BY <1>2 DEF SleepersHaveNothingToDo
<1>11. OneEventPerThread' /\ BlockedThreadsAreListed'
  BY <1>1 DEF IInv, OneEventPerThread, BlockedThreadsAreListed, QueueSignal
<1>12. QED
  BY <1>1, <1>5, <1>6, <1>7, <1>8, <1>9, <1>10, <1>11 DEF IInv

\* A stuttering step keeps it.
LEMMA StutterStep ==
  ASSUME IInv, UNCHANGED vars
  PROVE  IInv'
BY DEF vars, IInv, TypeOK, TicketsAreIssued, TicketsStandForTheirWait,
       TicketsAreDistinct, SleepersHaveNothingToDo, OneEventPerThread,
       BlockedThreadsAreListed

\* Every step preserves the invariant.
LEMMA NextPreservesIInv == IInv /\ [Next]_vars => IInv'
<1> SUFFICES ASSUME IInv, [Next]_vars PROVE IInv'
  OBVIOUS
<1>1. ASSUME NEW v \in Value, Signal(v) PROVE IInv'
  <2>1. InOrder(fence) /\ fence' = signal_cpu_timeline_semaphore(fence, v)
    BY <1>1 DEF IInv, Signal
  <2>2. /\ InOrder(fence')
        /\ fence'.wait_tickets \subseteq fence.wait_tickets
        /\ fence'.events \subseteq fence.events
        /\ fence'.update_count = fence.update_count
        /\ fence'.wait_ticket_counter = fence.wait_ticket_counter
    BY <2>1, CpuSignalFacts
  <2>3. QED
    BY <1>1, <2>2, SettleStep DEF Signal, IInv, TypeOK
<1>2. ASSUME Release PROVE IInv'
  <2>1. /\ InOrder(fence) /\ MaxValue \in Value
        /\ fence' = signal_cpu_timeline_semaphore(fence, MaxValue)
    BY <1>2, MaxValueAssumption DEF IInv, Release, Value
  <2>2. /\ InOrder(fence')
        /\ fence'.wait_tickets \subseteq fence.wait_tickets
        /\ fence'.events \subseteq fence.events
        /\ fence'.update_count = fence.update_count
        /\ fence'.wait_ticket_counter = fence.wait_ticket_counter
    BY <2>1, CpuSignalFacts
  <2>3. QED
    BY <1>2, <2>2, SettleStep DEF Release, IInv, TypeOK
<1>3. ASSUME NEW h \in Handles, NEW v \in Value, SetEvent(h, v) PROVE IInv'
  BY <1>3, SetEventStep
<1>4. ASSUME NEW t \in Threads, NEW v \in Value, SetNullEvent(t, v) PROVE IInv'
  BY <1>4, SetNullEventStep
<1>5. ASSUME NEW t \in Threads, NullEventReturns(t) PROVE IInv'
  BY <1>5, ReturnStep
<1>6. ASSUME NEW h \in Handles, ResetEvent(h) PROVE IInv'
  BY <1>6, ReturnStep
<1>7. ASSUME NEW q \in Queues, NEW v \in Value, QueueWait(q, v) PROVE IInv'
  BY <1>7, QueueWaitStep
<1>8. ASSUME NEW q \in Queues, WaitAlreadySatisfied(q) PROVE IInv'
  <2>1. /\ wait[q].pc # "idle" /\ fence' = fence
        /\ fence \in FenceState
    BY <1>8 DEF WaitAlreadySatisfied, InWait, IInv, InOrder
  <2>2. InOrder(fence') /\ fence'.wait_tickets = fence.wait_tickets
    BY <2>1 DEF IInv
  <2>3. fence' = [fence EXCEPT !.wait_tickets = fence'.wait_tickets]
    BY <2>1 DEF FenceState
  <2>4. QED
    BY <1>8, <2>1, <2>2, <2>3, LeaveWaitStep DEF WaitAlreadySatisfied
<1>9. ASSUME NEW q \in Queues, WaitSleeps(q) PROVE IInv'
  BY <1>9, SleepStep
<1>10. ASSUME NEW q \in Queues, WaitMaterialises(q) PROVE IInv'
  <2>1. /\ wait[q].pc # "idle" /\ InOrder(fence)
        /\ fence' = consume_ticket(fence, wait[q].ticket)
    BY <1>10 DEF WaitMaterialises, InWait, IInv
  <2>2. /\ InOrder(fence')
        /\ fence'.wait_tickets =
             { t \in fence.wait_tickets : t.ticket # wait[q].ticket }
        /\ fence' = [fence EXCEPT !.wait_tickets = fence'.wait_tickets]
    BY <2>1, ConsumeFacts
  <2>3. QED
    BY <1>10, <2>1, <2>2, LeaveWaitStep DEF WaitMaterialises
<1>11. ASSUME NEW q \in Queues, SpuriousWakeup(q) PROVE IInv'
  BY <1>11, SleepStep
<1>12. ASSUME NEW q \in Queues, NEW v \in Value, NEW tv \in TimelineValues,
              QueueSignal(q, v, tv)
       PROVE  IInv'
  BY <1>12, QueueSignalStep
<1>13. ASSUME NEW count \in 1 .. MaxUpdates, Publish(count) PROVE IInv'
  <2>1. /\ InOrder(fence) /\ count \in 1 .. fence.update_count
        /\ fence' = fence_signal(fence, count)
    BY <1>13 DEF Publish, IInv
  <2>2. /\ InOrder(fence')
        /\ fence'.wait_tickets \subseteq fence.wait_tickets
        /\ fence'.events \subseteq fence.events
        /\ fence'.update_count = fence.update_count
        /\ fence'.wait_ticket_counter = fence.wait_ticket_counter
    BY <2>1, FenceSignalFacts
  <2>3. unpublished' \subseteq unpublished /\ released' \in BOOLEAN
    BY <1>13 DEF Publish, IInv, TypeOK
  <2>4. QED
    BY <1>13, <2>2, <2>3, SettleStep DEF Publish
<1>14. CASE UNCHANGED vars
  BY <1>14, StutterStep
<1>15. QED
  BY <1>1, <1>2, <1>3, <1>4, <1>5, <1>6, <1>7, <1>8, <1>9, <1>10, <1>11,
     <1>12, <1>13, <1>14
     DEF Next, WaitStep

\* The invariant holds in every reachable state.
LEMMA Invariance == Spec => []IInv
<1>1. QED
  BY InitEstablishesIInv, NextPreservesIInv, PTL DEF Spec

-----------------------------------------------------------------------------
(***************************************************************************)
(* The theorems.                                                           *)
(***************************************************************************)

\* Type correctness, for every set of queues, threads and handles.
THEOREM TypeCorrectness == Spec => []TypeOK
<1>1. IInv => TypeOK
  BY DEF IInv
<1>2. QED
  BY <1>1, Invariance, PTL

\* No ticket and no event outlives the moment its value is visible.
THEOREM WaitersAreSettled == Spec => []NothingWaitsForAVisibleValue
<1>1. IInv => NothingWaitsForAVisibleValue
  BY DEF IInv, InOrder, NothingWaitsForAVisibleValue
<1>2. QED
  BY <1>1, Invariance, PTL

\* The pending updates are the numbers signal_count + 1 to update_count.
THEOREM PendingUpdatesAreExact == Spec => []PendingUpdatesAreTheUnsignalledOnes
<1>1. IInv => PendingUpdatesAreTheUnsignalledOnes
  BY DEF IInv, InOrder, PendingUpdatesAreTheUnsignalledOnes
<1>2. QED
  BY <1>1, Invariance, PTL

\* The maximum pending value is exact, rewinds included.
THEOREM MaxPendingCorrect == Spec => []MaxPendingIsExact
<1>1. IInv => MaxPendingIsExact
  BY DEF IInv, InOrder, MaxPendingIsExact
<1>2. QED
  BY <1>1, Invariance, PTL

\* The assert at the end of block_until_pending never fails.
THEOREM WaitAlwaysFindsAnUpdate == Spec => []WaitFindsAnUpdate
<1>1. IInv => WaitFindsAnUpdate
  <2> SUFFICES ASSUME IInv, NEW q \in Queues, wait[q].pc # "idle",
                      HasTicket(fence, wait[q].ticket),
                      wait[q].value <= fence.max_pending
               PROVE  Satisfying(fence, wait[q].value) # {}
    BY DEF WaitFindsAnUpdate
  <2>1. PICK t \in fence.wait_tickets : t.ticket = wait[q].ticket
    BY DEF HasTicket
  <2>2. fence.virtual_value < wait[q].value
    BY <2>1 DEF IInv, InOrder, WaitersUnsatisfied, TicketsStandForTheirWait
  <2>3. /\ fence.virtual_value \in Int /\ fence.max_pending \in Int
        /\ wait[q].value \in Int
    BY MaxValueAssumption DEF IInv, TypeOK, FenceState, WaitState, Value
  <2>4. fence.max_pending # fence.virtual_value
    BY <2>2, <2>3
  <2>5. PICK p \in fence.pending_updates : p.virtual_value = fence.max_pending
    BY <2>4 DEF IInv, InOrder, MaxPendingExact
  <2>6. p.virtual_value >= wait[q].value
    BY <2>3, <2>5
  <2>7. QED
    BY <2>6 DEF Satisfying
<1>2. QED
  BY <1>1, Invariance, PTL

\* No lost wakeup on fence->cond.
THEOREM NoLostWakeup == Spec => []SleepersHaveNothingToDo
<1>1. IInv => SleepersHaveNothingToDo
  BY DEF IInv
<1>2. QED
  BY <1>1, Invariance, PTL

\* A thread blocked on a NULL event is always owed its latch.
THEOREM BlockedThreadsWillBeLatched == Spec => []BlockedThreadsAreListed
<1>1. IInv => BlockedThreadsAreListed
  BY DEF IInv
<1>2. QED
  BY <1>1, Invariance, PTL

\* Every submitted signal is in the array until it is visible, and the cached
\* maximum of update_pending_value is exact.
THEOREM SubmittedSignalsAreAlwaysKnown == Spec => []SubmittedSignalsAreKnown
<1>1. IInv => SubmittedSignalsAreKnown
  BY DEF IInv, InOrder, SubmittedSignalsAreKnown, PendingUpdatesAreTheUnsignalledOnes,
         MaxPendingIsExact
<1>2. QED
  BY <1>1, Invariance, PTL

\* No submission thread and no thread with a NULL event sleeps on for nothing.
THEOREM NobodyEverSleepsInVain == Spec => []NobodySleepsInVain
<1>1. IInv => NobodySleepsInVain
  BY DEF IInv, NobodySleepsInVain
<1>2. QED
  BY <1>1, Invariance, PTL

\* GPU signals become visible in submission order.
THEOREM SignalOrder == Spec => SignalsBecomeVisibleInOrder
<1> DEFINE InOrderStep ==
      fence'.signal_count # fence.signal_count =>
        /\ \E p \in fence.pending_updates :
             /\ p.update_count = fence'.signal_count
             /\ p.virtual_value = fence'.virtual_value
        /\ \A p \in fence'.pending_updates :
             fence'.signal_count < p.update_count
<1>1. IInv /\ [Next]_vars => [InOrderStep]_vars
  <2> SUFFICES ASSUME IInv, [Next]_vars,
                      fence'.signal_count # fence.signal_count
               PROVE  InOrderStep
    OBVIOUS
  <2>1. fence \in FenceState /\ InOrder(fence) /\ MaxValue \in Value
    BY MaxValueAssumption DEF IInv, InOrder, Value
  <2>2. ASSUME NEW v \in Value, fence' = signal_cpu_timeline_semaphore(fence, v)
        PROVE  FALSE
    BY <2>1, <2>2, CpuSignalFacts
  <2>3. ASSUME NEW q \in Queues, NEW v \in Value, NEW tv \in TimelineValues,
               QueueSignal(q, v, tv)
        PROVE  FALSE
    <3>1. TimelineOf[q] \in Timelines /\ fence.update_count < MaxUpdates
          /\ fence' = update_pending_value(
                        add_pending_signal(fence, v, TimelineOf[q], tv))
      BY <2>3, FenceAssumption DEF QueueSignal
    <3>2. QED
      BY <2>1, <3>1, QueueSignalFacts
  <2>4. ASSUME NEW q \in Queues, NEW v \in Value, QueueWait(q, v) PROVE FALSE
    BY <2>1, <2>4 DEF QueueWait, register_pending_gpu_wait, FenceState
  <2>5. ASSUME NEW q \in Queues, WaitMaterialises(q) PROVE FALSE
    BY <2>1, <2>5 DEF WaitMaterialises, consume_ticket, FenceState
  <2>6. ASSUME NEW h \in Handles \cup Threads, NEW v \in Value,
               SetEvent(h, v) \/ SetNullEvent(h, v)
        PROVE  FALSE
    BY <2>1, <2>6 DEF SetEvent, SetNullEvent, FenceState
  <2>7. CASE fence' = fence
    BY <2>7
  <2>8. ASSUME NEW count \in 1 .. MaxUpdates, Publish(count) PROVE InOrderStep
    <3>1. count \in 1 .. fence.update_count /\ fence' = fence_signal(fence, count)
      BY <2>8 DEF Publish, IInv
    <3>2. QED
      BY <2>1, <3>1, FenceSignalFacts
  <2>9. QED
    BY <2>1, <2>2, <2>3, <2>4, <2>5, <2>6, <2>7, <2>8
       DEF Next, WaitStep, vars, Signal, Release, NullEventReturns, ResetEvent,
           WaitAlreadySatisfied, WaitSleeps, SpuriousWakeup
<1>2. QED
  BY <1>1, Invariance, PTL DEF Spec, SignalsBecomeVisibleInOrder
=============================================================================
