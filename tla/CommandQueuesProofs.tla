------------------------- MODULE CommandQueuesProofs -------------------------
(***************************************************************************)
(* The order of work across command queues, for any number of queues,      *)
(* VkQueues and fences and any programs: when a wait that was resolved     *)
(* keeps its promise, and when a visible value does.  Neither holds of all *)
(* programs; the two conditions below are on what the application asks     *)
(* for, and nothing is assumed about the order of events.                  *)
(***************************************************************************)
EXTENDS CommandQueues, SequenceTheorems, FiniteSetTheorems, WellFoundedInduction, TLAPS

-----------------------------------------------------------------------------
(* The conditions.                                                         *)

Signals(p, q, f) ==
  \E k \in DOMAIN p[q] : p[q][k].type = "signal" /\ p[q][k].fence = f

\* q waits, as its call j, for a fence that is signalled on its own VkQueue.
WaitsForItsOwn(p, q, j) ==
  /\ p[q][j].type = "wait"
  /\ \E r \in Queues : VkQueueOf[r] = VkQueueOf[q] /\ Signals(p, r, p[q][j].fence)

\* A queue that waits for a signal of its own VkQueue executes something before
\* it signals in turn.
NoQuietRelay(p) ==
  \A q \in Queues : \A j, k \in DOMAIN p[q] :
    j < k /\ WaitsForItsOwn(p, q, j) /\ p[q][k].type = "signal" =>
      \E m \in DOMAIN p[q] : j < m /\ m < k /\ p[q][m].type = "execute"

\* A fence is signalled by one queue only.
OneSignaller(p) ==
  \A f \in Fences : \A q, r \in Queues : Signals(p, q, f) /\ Signals(p, r, f) => q = r

-----------------------------------------------------------------------------
(* Types.                                                                  *)

Command == [id : Nat, ticket : Nat]

PendingUpdate ==
  [update_count : Nat, virtual_value : Value, vk_semaphore : VkQueues,
   vk_semaphore_value : Nat]

WaitTicket == [ticket : Nat, virtual_value : Value]

FenceRecord ==
  [virtual_value : Value, max_pending : Value, update_count : Nat, signal_count : Nat,
   wait_ticket_counter : Nat, pending_updates : SUBSET PendingUpdate,
   wait_tickets : SUBSET WaitTicket, events : {{}}]

Waits == UNION {[D -> Nat] : D \in SUBSET VkQueues}

GpuSubmission == [waits : Waits, value : Nat, work : SUBSET Works, after : SUBSET Works]

Entry ==
  [type : {"signal"}, fence : Fences, update_count : Nat,
   vk_semaphore : VkQueues, vk_semaphore_value : Nat]
    \cup [type : {"order"}, fence : Fences, update_count : Nat]
    \cup [type : {"release"}, id : Nat, vk_semaphore : VkQueues, vk_semaphore_value : Nat]

Types ==
  /\ program \in Programs
  /\ next \in [Queues -> Nat \ {0}]
  /\ submissions \in [Queues -> Seq(Command)]
  /\ thread \in [Queues -> {"ready", "asleep", "awake", "cpu_wait", "flushed"}]
  /\ cpu_until \in [Queues -> SemaphoreValue]
  /\ wait_fences \in [Queues -> Seq([fence : Fences, update_count : Nat])]
  /\ wait_semaphores \in [Queues -> Waits]
  /\ last_value \in [Queues -> Nat]
  /\ timeline_count \in [VkQueues -> Nat]
  /\ vk_queue \in [VkQueues -> Seq(GpuSubmission)]
  /\ timeline \in [VkQueues -> Nat]
  /\ worker \in [Queues -> Seq(Entry)]
  /\ fences \in [Fences -> FenceRecord]
  /\ completed \subseteq Works
  /\ follows \in [Queues -> SUBSET Works]
  /\ promised \in [Fences -> Seq(SUBSET Works)]

-----------------------------------------------------------------------------
(* The inductive invariant.                                                *)

\* Commands are in the order of the calls that queued them, and no execute
\* among those calls is missing.
CommandsInOrder ==
  \A q \in Queues :
    /\ \A i \in DOMAIN submissions[q] :
         submissions[q][i].id \in DOMAIN program[q] /\ submissions[q][i].id < next[q]
    /\ \A i, j \in DOMAIN submissions[q] :
         i < j => submissions[q][i].id < submissions[q][j].id
    /\ \A i \in DOMAIN submissions[q], m \in DOMAIN program[q] :
         submissions[q][i].id < m /\ m < next[q] /\ program[q][m].type = "execute" =>
           \E j \in DOMAIN submissions[q] : submissions[q][j].id = m

\* Where a submission thread can be.
ThreadsAtWork ==
  \A q \in Queues :
    /\ thread[q] \in {"asleep", "awake", "cpu_wait"} => Has(q, "wait")
    /\ thread[q] = "flushed" => Has(q, "signal") /\ wait_semaphores[q] = NoSemaphores
    /\ thread[q] # "cpu_wait" => cpu_until[q] = Nothing

\* A VkQueue holds what its timeline has not reached.
TimelinesExact ==
  /\ \A t \in VkQueues :
       /\ timeline_count[t] = timeline[t] + Len(vk_queue[t])
       /\ \A i \in DOMAIN vk_queue[t] : vk_queue[t][i].value = timeline[t] + i
  /\ \A q \in Queues : last_value[q] <= timeline_count[VkQueueOf[q]]

InOrder(f) ==
  /\ f \in FenceRecord
  /\ WaitersUnsatisfied(f)
  /\ PendingWindow(f)
  /\ MaxPendingExact(f)
  /\ \A t \in f.wait_tickets : t.ticket <= f.wait_ticket_counter

FencesInOrder ==
  \A f \in Fences : InOrder(fences[f]) /\ Len(promised[f]) = fences[f].update_count

\* A ticket stands for the value of the Wait that took it.
TicketsStand ==
  \A q \in Queues : \A i \in DOMAIN submissions[q] :
    LET call == program[q][submissions[q][i].id]
        ticket == submissions[q][i].ticket
    IN  call.type = "wait" =>
          /\ ticket <= fences[call.fence].wait_ticket_counter
          /\ \A x \in fences[call.fence].wait_tickets :
               x.ticket = ticket => x.virtual_value = call.value

\* A pending update was signalled by a queue of its VkQueue.
UpdatesHaveSignallers ==
  \A f \in Fences : \A u \in fences[f].pending_updates :
    \E r \in Queues : VkQueueOf[r] = u.vk_semaphore /\ Signals(program, r, f)

\* An entry of a fence worker waits for what its update waits for.
EntriesMatch ==
  \A q \in Queues : \A i \in DOMAIN worker[q] :
    LET e == worker[q][i]
    IN  e.type = "signal" =>
          /\ e.update_count \in 1..fences[e.fence].update_count
          /\ \A u \in fences[e.fence].pending_updates :
               u.update_count = e.update_count =>
                 /\ u.vk_semaphore = e.vk_semaphore
                 /\ u.vk_semaphore_value = e.vk_semaphore_value

Inv ==
  /\ Types
  /\ CommandsInOrder
  /\ ThreadsAtWork
  /\ TimelinesExact
  /\ FencesInOrder
  /\ TicketsStand
  /\ UpdatesHaveSignallers
  /\ EntriesMatch

-----------------------------------------------------------------------------
(* Who covers what.                                                        *)

\* The work that is done when the timeline of t has reached v.
Ensured(t, v) ==
  completed \cup UNION {vk_queue[t][i].work \cup vk_queue[t][i].after :
                          i \in {j \in DOMAIN vk_queue[t] : vk_queue[t][j].value <= v}}

EnsuredBy(waits) == UNION {Ensured(x, waits[x]) : x \in DOMAIN waits}

EnsuredOnCpu(q) == Ensured(cpu_until[q].vk_semaphore, cpu_until[q].vk_semaphore_value)

\* A submission comes after what precedes it on its VkQueue or what it waits for.
SubmissionsCovered ==
  \A t \in VkQueues : \A i \in DOMAIN vk_queue[t] :
    vk_queue[t][i].after \subseteq
      Ensured(t, vk_queue[t][i].value - 1) \cup EnsuredBy(vk_queue[t][i].waits)

\* So does whatever a queue submits next.
QueuesCovered ==
  \A q \in Queues :
    follows[q] \subseteq Ensured(VkQueueOf[q], timeline_count[VkQueueOf[q]])
                           \cup EnsuredBy(wait_semaphores[q]) \cup EnsuredOnCpu(q)

\* A pending update's semaphore value stands for all that was promised with it.
UpdatesCovered ==
  \A f \in Fences : \A u \in fences[f].pending_updates :
    promised[f][u.update_count] \subseteq Ensured(u.vk_semaphore, u.vk_semaphore_value)

\* The calls that the submission thread of q has not finished, and whether the
\* first of its Signals comes before its first execute.
Remaining(q) ==
  {submissions[q][i].id : i \in DOMAIN submissions[q]}
    \cup {k \in DOMAIN program[q] : next[q] <= k}

SignalsNext(q) ==
  \E k \in Remaining(q) :
    /\ program[q][k].type = "signal"
    /\ \A m \in Remaining(q) : m < k => program[q][m].type # "execute"

\* A queue that signals next can do so with the value it submitted last.
LastValueCovers ==
  \A q \in Queues : SignalsNext(q) =>
    follows[q] \subseteq Ensured(VkQueueOf[q], last_value[q])
                           \cup EnsuredBy(wait_semaphores[q]) \cup EnsuredOnCpu(q)

Covered == SubmissionsCovered /\ QueuesCovered /\ UpdatesCovered /\ LastValueCovers

-----------------------------------------------------------------------------
(* One signaller.                                                          *)

\* The semaphore values of a fence's updates ascend, up to the last one its
\* signaller submitted.
UpdatesAscend ==
  \A f \in Fences :
    /\ \A q \in Queues, u \in fences[f].pending_updates :
         Signals(program, q, f) =>
           u.vk_semaphore = VkQueueOf[q] /\ u.vk_semaphore_value <= last_value[q]
    /\ \A u, w \in fences[f].pending_updates :
         u.update_count <= w.update_count => u.vk_semaphore_value <= w.vk_semaphore_value

IInv ==
  /\ Inv
  /\ NoQuietRelay(program) => Covered
  /\ NoQuietRelay(program) /\ OneSignaller(program) => UpdatesAscend /\ VisibleMeansDone
-----------------------------------------------------------------------------
(* Sequences.                                                              *)

LEMMA AppendFacts ==
  ASSUME NEW S, NEW s \in Seq(S), NEW e \in S
  PROVE  /\ Append(s, e) \in Seq(S)
         /\ Len(Append(s, e)) = Len(s) + 1
         /\ DOMAIN s = 1..Len(s) /\ Len(s) \in Nat
         /\ DOMAIN Append(s, e) = 1..(Len(s) + 1)
         /\ \A i \in 1..Len(s) : Append(s, e)[i] = s[i]
         /\ Append(s, e)[Len(s) + 1] = e
BY LenProperties

LEMMA TailFacts ==
  ASSUME NEW S, NEW s \in Seq(S), s # <<>>
  PROVE  /\ Tail(s) \in Seq(S)
         /\ Len(s) \in Nat \ {0} /\ DOMAIN s = 1..Len(s)
         /\ Len(Tail(s)) = Len(s) - 1
         /\ DOMAIN Tail(s) = 1..(Len(s) - 1)
         /\ \A i \in 1..(Len(s) - 1) : Tail(s)[i] = s[i + 1]
         /\ Head(s) = s[1] /\ 1 \in DOMAIN s /\ Head(s) \in S
BY HeadTailProperties, LenProperties, EmptySeq

LEMMA ConcatFacts ==
  ASSUME NEW S, NEW s \in Seq(S), NEW r \in Seq(S)
  PROVE  /\ s \o r \in Seq(S)
         /\ \A i \in DOMAIN (s \o r) :
              \/ i \in DOMAIN s /\ (s \o r)[i] = s[i]
              \/ \E j \in DOMAIN r : (s \o r)[i] = r[j]
         /\ \A i \in DOMAIN s : i \in DOMAIN (s \o r) /\ (s \o r)[i] = s[i]
         /\ \A j \in DOMAIN r : \E i \in DOMAIN (s \o r) : (s \o r)[i] = r[j]
<1>1. /\ s \o r \in Seq(S)
      /\ Len(s \o r) = Len(s) + Len(r)
      /\ \A i \in 1 .. Len(s) + Len(r) :
           (s \o r)[i] = IF i <= Len(s) THEN s[i] ELSE r[i - Len(s)]
  BY ConcatProperties
<1>2. /\ Len(s) \in Nat /\ Len(r) \in Nat
      /\ DOMAIN s = 1..Len(s) /\ DOMAIN r = 1..Len(r)
      /\ DOMAIN (s \o r) = 1 .. Len(s) + Len(r)
  BY <1>1, LenProperties
<1> DEFINE x == s \o r
<1>3. /\ DOMAIN x = 1 .. Len(s) + Len(r)
      /\ \A i \in 1 .. Len(s) + Len(r) :
           x[i] = IF i <= Len(s) THEN s[i] ELSE r[i - Len(s)]
  BY <1>1, <1>2
<1> HIDE DEF x
<1>4. \A i \in DOMAIN x : (i \in DOMAIN s /\ x[i] = s[i]) \/ \E j \in DOMAIN r : x[i] = r[j]
  <2> SUFFICES ASSUME NEW i \in DOMAIN x, i \notin DOMAIN s
               PROVE  \E j \in DOMAIN r : x[i] = r[j]
    BY <1>2, <1>3
  <2>1. i - Len(s) \in DOMAIN r /\ ~ (i <= Len(s)) /\ i \in 1 .. Len(s) + Len(r)
    BY <1>2, <1>3
  <2>2. x[i] = r[i - Len(s)]
    BY <2>1, <1>3
  <2> QED
    BY <2>1, <2>2
<1>5. \A i \in DOMAIN s : i \in DOMAIN x /\ x[i] = s[i]
  BY <1>2, <1>3
<1>6. \A j \in DOMAIN r : \E i \in DOMAIN x : x[i] = r[j]
  <2> SUFFICES ASSUME NEW j \in DOMAIN r PROVE \E i \in DOMAIN x : x[i] = r[j]
    OBVIOUS
  <2>1. /\ Len(s) + j \in 1 .. Len(s) + Len(r) /\ ~ (Len(s) + j <= Len(s))
        /\ (Len(s) + j) - Len(s) = j
    BY <1>2
  <2>2. x[Len(s) + j] = r[(Len(s) + j) - Len(s)]
    BY <2>1, <1>3
  <2> QED
    BY <2>1, <2>2, <1>3
<1> QED
  BY <1>1, <1>4, <1>5, <1>6 DEF x

-----------------------------------------------------------------------------
(* The calls of a program.                                                 *)

LEMMA CallFacts ==
  ASSUME program \in Programs, NEW q \in Queues, NEW k \in DOMAIN program[q]
  PROVE  /\ program[q] \in Seq(Call) /\ DOMAIN program[q] \subseteq Nat
         /\ program[q][k] \in Call
         /\ program[q][k].type \in {"execute", "signal", "wait", "cpu_signal", "release"}
         /\ program[q][k].type \in {"signal", "wait", "cpu_signal"} =>
              program[q][k].fence \in Fences /\ program[q][k].value \in Value
         /\ program[q][k].type = "release" => program[q][k].fence \in Fences
<1>1. program[q] \in Seq(Call)
  BY QueuesAssumption
<1>2. /\ program[q] \in [1..Len(program[q]) -> Call] /\ Len(program[q]) \in Nat
      /\ DOMAIN program[q] = 1..Len(program[q])
  BY <1>1, LenProperties
<1>3. program[q][k] \in Call /\ DOMAIN program[q] \subseteq Nat
  BY <1>2
<1> DEFINE c == program[q][k]
<1>4. c \in Call
  BY <1>3
<1> HIDE DEF c
<1>5. /\ c.type \in {"execute", "signal", "wait", "cpu_signal", "release"}
      /\ c.type \in {"signal", "wait", "cpu_signal"} => c.fence \in Fences /\ c.value \in Value
      /\ c.type = "release" => c.fence \in Fences
  BY <1>4 DEF Call
<1> QED
  BY <1>1, <1>3, <1>5 DEF c

-----------------------------------------------------------------------------
(* Least and greatest elements.                                            *)

LessThanOnNat == {ss \in Nat \X Nat : ss[1] < ss[2]}

\* The library's well-foundedness of < on Nat, as a set of pairs.
LEMMA LessThanOnNatWellFounded == IsWellFoundedOn(LessThanOnNat, Nat)
BY NatLessThanWellFounded DEF OpToRel, LessThanOnNat

\* Every non-empty set of naturals has a least element.
LEMMA LeastNatural ==
  ASSUME NEW S, S \subseteq Nat, S # {}
  PROVE  \E m \in S : \A y \in S : m <= y
<1>1. PICK m \in S : \A y \in S : <<y, m>> \notin LessThanOnNat
  BY LessThanOnNatWellFounded, WFMin
<1>2. ASSUME NEW y \in S PROVE m <= y
  <2>1. y \in Nat /\ m \in Nat
    OBVIOUS
  <2>2. ~ (y < m)
    BY <2>1, <1>1 DEF LessThanOnNat
  <2> QED
    BY <2>1, <2>2
<1> QED
  BY <1>2

\* Every non-empty set of fence values has a greatest element.
LEMMA GreatestProperty ==
  ASSUME NEW S \in SUBSET Value, S # {}
  PROVE  Greatest(S) \in S /\ \A y \in S : y <= Greatest(S)
<1> DEFINE D == {MaxValue - x : x \in S}
<1>1. \A x \in S : x \in Nat /\ x <= MaxValue
  BY MaxValueAssumption DEF Value
<1>2. D \subseteq Nat /\ D # {}
  BY <1>1, MaxValueAssumption
<1>3. PICK m \in D : \A y \in D : m <= y
  <2> HIDE DEF D
  <2> QED
    BY <1>2, LeastNatural
<1>4. PICK x \in S : m = MaxValue - x
  OBVIOUS
<1>5. ASSUME NEW y \in S PROVE y <= x
  <2>1. MaxValue - x <= MaxValue - y
    BY <1>3, <1>4
  <2> QED
    BY <2>1, <1>1, MaxValueAssumption
<1> QED
  BY <1>5 DEF Greatest

\* A set of updates has one that is numbered first.
LEMMA EarliestProperty ==
  ASSUME NEW S \in SUBSET PendingUpdate, S # {}
  PROVE  EarliestUpdate(S) \in S
<1> DEFINE N == {u.update_count : u \in S}
<1>1. N \subseteq Nat /\ N # {}
  BY DEF PendingUpdate
<1>2. PICK m \in N : \A y \in N : m <= y
  <2> HIDE DEF N
  <2> QED
    BY <1>1, LeastNatural
<1>3. PICK u \in S : u.update_count = m
  OBVIOUS
<1>4. \A w \in S : u.update_count <= w.update_count
  BY <1>2, <1>3
<1> QED
  BY <1>4 DEF EarliestUpdate

-----------------------------------------------------------------------------
(* What each function does to a fence in order.                            *)

\* A record with the fields of a fence.
LEMMA FenceFields ==
  ASSUME NEW f \in FenceRecord
  PROVE  /\ f.virtual_value \in Value /\ f.max_pending \in Value
         /\ f.update_count \in Nat /\ f.signal_count \in Nat
         /\ f.wait_ticket_counter \in Nat
         /\ f.pending_updates \subseteq PendingUpdate
         /\ f.wait_tickets \subseteq WaitTicket /\ f.events = {}
         /\ \A u \in f.pending_updates :
              /\ u.update_count \in Nat /\ u.virtual_value \in Value
              /\ u.vk_semaphore \in VkQueues /\ u.vk_semaphore_value \in Nat
         /\ \A x \in f.wait_tickets : x.ticket \in Nat /\ x.virtual_value \in Value
BY DEF FenceRecord, PendingUpdate, WaitTicket

\* Recomputing the maximum pending value makes it exact and changes nothing else.
LEMMA UpdatePendingValueFacts ==
  ASSUME NEW f \in FenceRecord
  PROVE  LET g == update_pending_value(f)
         IN  /\ g \in FenceRecord
             /\ MaxPendingExact(g)
             /\ g = [f EXCEPT !.max_pending = g.max_pending]
<1> DEFINE S == {f.virtual_value} \cup VirtualValues(f.pending_updates)
           m == Greatest(S)
           g == [f EXCEPT !.max_pending = m]
<1>1. S \in SUBSET Value /\ S # {}
  BY FenceFields DEF VirtualValues
<1>2. m \in S /\ \A y \in S : y <= m
  <2> HIDE DEF S
  <2> QED
    BY <1>1, GreatestProperty
<1>3. m \in Value
  BY <1>1, <1>2
<1>4. update_pending_value(f) = g
  BY DEF update_pending_value
<1>5. /\ f.virtual_value \in S /\ \A u \in f.pending_updates : u.virtual_value \in S
      /\ m = f.virtual_value \/ \E u \in f.pending_updates : u.virtual_value = m
  BY <1>2 DEF VirtualValues
<1> HIDE DEF m, S
<1>6. g \in FenceRecord /\ g = [f EXCEPT !.max_pending = g.max_pending]
  BY <1>3 DEF FenceRecord
<1>7. /\ g.max_pending = m /\ g.virtual_value = f.virtual_value
      /\ g.pending_updates = f.pending_updates
  BY DEF FenceRecord
<1> HIDE DEF g
<1>8. MaxPendingExact(g)
  BY <1>2, <1>5, <1>7 DEF MaxPendingExact
<1> QED
  BY <1>4, <1>6, <1>8

\* Nothing of what makes a fence right depends on the events, which the queues do
\* not use.
LEMMA SettledFacts ==
  ASSUME NEW f \in FenceRecord, NEW visible
  PROVE  update_wait_tickets(signal_external_events(f, visible), visible)
           = [f EXCEPT !.wait_tickets =
                {x \in f.wait_tickets : \A v \in visible : v < x.virtual_value}]
BY FenceFields DEF update_wait_tickets, signal_external_events, FenceRecord

\* A CPU signal or the last release: tickets go, updates stay.
LEMMA CpuSignalFacts ==
  ASSUME NEW f, InOrder(f), NEW v \in Value
  PROVE  LET g == signal_cpu_timeline_semaphore(f, v)
         IN  /\ InOrder(g)
             /\ g.wait_tickets \subseteq f.wait_tickets
             /\ g.pending_updates = f.pending_updates
             /\ g.signal_count = f.signal_count
             /\ g.update_count = f.update_count
             /\ g.wait_ticket_counter = f.wait_ticket_counter
<1> DEFINE e == [f EXCEPT !.virtual_value = v]
           tickets == {x \in f.wait_tickets : v < x.virtual_value}
           h == [e EXCEPT !.wait_tickets = tickets]
           g == update_pending_value(h)
<1>1. f \in FenceRecord
  BY DEF InOrder
<1>2. e \in FenceRecord /\ e.wait_tickets = f.wait_tickets
  BY <1>1 DEF FenceRecord
<1>3. {x \in e.wait_tickets : \A w \in {v} : w < x.virtual_value} = tickets
  BY <1>2
<1> HIDE DEF e, tickets
<1>4. update_wait_tickets(signal_external_events(e, {v}), {v}) = h
  BY <1>2, <1>3, SettledFacts
<1>5. signal_cpu_timeline_semaphore(f, v) = g
  BY <1>4 DEF signal_cpu_timeline_semaphore, e
<1>6. tickets \subseteq f.wait_tickets /\ \A x \in tickets : v < x.virtual_value
  BY DEF tickets
<1>7. h \in FenceRecord
  BY <1>1, <1>2, <1>6 DEF FenceRecord, e
<1>8. /\ h.virtual_value = v /\ h.wait_tickets = tickets
      /\ h.pending_updates = f.pending_updates /\ h.events = {}
      /\ h.signal_count = f.signal_count /\ h.update_count = f.update_count
      /\ h.wait_ticket_counter = f.wait_ticket_counter
  BY <1>1 DEF FenceRecord, e
<1> HIDE DEF h
<1>9. /\ g \in FenceRecord /\ MaxPendingExact(g)
      /\ g = [h EXCEPT !.max_pending = g.max_pending]
  BY <1>7, UpdatePendingValueFacts
<1> HIDE DEF g
<1>10. /\ g.virtual_value = v /\ g.wait_tickets = tickets
       /\ g.pending_updates = f.pending_updates /\ g.events = {}
       /\ g.signal_count = f.signal_count /\ g.update_count = f.update_count
       /\ g.wait_ticket_counter = f.wait_ticket_counter
  BY <1>7, <1>8, <1>9 DEF FenceRecord
<1>11. WaitersUnsatisfied(g) /\ PendingWindow(g)
  BY <1>6, <1>10 DEF WaitersUnsatisfied, PendingWindow, InOrder
<1>12. \A x \in g.wait_tickets : x.ticket <= g.wait_ticket_counter
  BY <1>6, <1>10 DEF InOrder
<1> QED
  BY <1>5, <1>6, <1>9, <1>10, <1>11, <1>12 DEF InOrder

\* Publishing up to a number that was handed out.
LEMMA PublishFacts ==
  ASSUME NEW f, InOrder(f), NEW count \in 1..f.update_count
  PROVE  LET g == fence_signal(f, count)
         IN  /\ InOrder(g)
             /\ g.wait_tickets \subseteq f.wait_tickets
             /\ g.pending_updates \subseteq f.pending_updates
             /\ g.signal_count = IF f.signal_count < count THEN count ELSE f.signal_count
             /\ g.update_count = f.update_count
             /\ g.wait_ticket_counter = f.wait_ticket_counter
<1> DEFINE due == DueUpdates(f, count)
           visible == VirtualValues(due)
           sc == IF f.signal_count < count THEN count ELSE f.signal_count
           vv == IF due = {} THEN f.virtual_value ELSE LastUpdate(due).virtual_value
           d == publish_due(f, due, count)
           tickets == {x \in f.wait_tickets : \A v \in visible : v < x.virtual_value}
           h == [d EXCEPT !.wait_tickets = tickets]
           g == update_pending_value(h)
<1>1. /\ f \in FenceRecord
      /\ f.signal_count \in Nat /\ f.update_count \in Nat
      /\ count \in Nat /\ count <= f.update_count
      /\ \A u \in f.pending_updates : u.update_count \in Nat /\ u.virtual_value \in Value
      /\ f.signal_count <= f.update_count
      /\ f.virtual_value \in Value
  BY FenceFields DEF InOrder, PendingWindow
<1>2. due \subseteq f.pending_updates
  BY DEF DueUpdates
<1>3. f.signal_count < count => due # {} /\ LastUpdate(due) \in due
  <2> SUFFICES ASSUME f.signal_count < count PROVE due # {} /\ LastUpdate(due) \in due
    OBVIOUS
  <2>1. count \in f.signal_count + 1 .. f.update_count
    BY <1>1
  <2>2. PICK p \in f.pending_updates : p.update_count = count
    BY <2>1 DEF InOrder, PendingWindow
  <2>3. p \in due /\ \A w \in due : w.update_count <= p.update_count
    BY <1>1, <2>2 DEF DueUpdates
  <2> QED
    BY <2>3 DEF LastUpdate
<1>4. count <= f.signal_count => due = {}
  BY <1>1 DEF DueUpdates
<1>5. \A u \in f.pending_updates : u \in due <=> u.update_count <= sc
  <2>1. \A u \in f.pending_updates : f.signal_count < u.update_count
    <3> SUFFICES ASSUME NEW u \in f.pending_updates PROVE f.signal_count < u.update_count
      OBVIOUS
    <3>1. u.update_count \in f.signal_count + 1 .. f.update_count
      BY DEF InOrder, PendingWindow
    <3> QED
      BY <1>1, <3>1
  <2> QED
    BY <1>1, <2>1 DEF DueUpdates
<1>6. sc \in Nat /\ sc <= f.update_count /\ f.signal_count <= sc
  BY <1>1
<1>7. vv \in Value /\ (vv = f.virtual_value \/ vv \in visible)
  <2>1. CASE count <= f.signal_count
    BY <1>1, <1>4, <2>1
  <2>2. CASE f.signal_count < count
    BY <1>1, <1>2, <1>3, <2>2 DEF VirtualValues
  <2> QED
    BY <1>1, <2>1, <2>2
<1>8. d = [f EXCEPT !.signal_count = sc, !.virtual_value = vv,
                    !.pending_updates = f.pending_updates \ due]
  <2> HIDE DEF due
  <2> QED
    BY <1>1 DEF publish_due, FenceRecord
<1> HIDE DEF due, visible, sc, vv
<1>9. d \in FenceRecord /\ d.wait_tickets = f.wait_tickets
  BY <1>1, <1>6, <1>7, <1>8 DEF FenceRecord
<1>10. fence_signal(f, count) = g
  <2>1. update_wait_tickets(signal_external_events(d, visible), visible) = h
    <3> HIDE DEF d
    <3> QED
      BY <1>9, SettledFacts
  <2> QED
    BY <2>1 DEF fence_signal, due, visible
<1> HIDE DEF tickets, d
<1>11. tickets \subseteq f.wait_tickets /\ \A x \in tickets, v \in visible : v < x.virtual_value
  BY DEF tickets
<1>12. h \in FenceRecord
  BY <1>1, <1>9, <1>11 DEF FenceRecord
<1>13. /\ h.virtual_value = vv /\ h.wait_tickets = tickets
       /\ h.pending_updates = f.pending_updates \ due /\ h.events = {}
       /\ h.signal_count = sc /\ h.update_count = f.update_count
       /\ h.wait_ticket_counter = f.wait_ticket_counter
  <2>1. /\ d.virtual_value = vv /\ d.pending_updates = f.pending_updates \ due
        /\ d.events = {} /\ d.signal_count = sc /\ d.update_count = f.update_count
        /\ d.wait_ticket_counter = f.wait_ticket_counter
    BY <1>1, <1>8 DEF FenceRecord
  <2> QED
    BY <2>1, <1>9 DEF FenceRecord
<1> HIDE DEF h
<1>14. /\ g \in FenceRecord /\ MaxPendingExact(g)
       /\ g = [h EXCEPT !.max_pending = g.max_pending]
  BY <1>12, UpdatePendingValueFacts
<1> HIDE DEF g
<1>15. /\ g.virtual_value = vv /\ g.wait_tickets = tickets
       /\ g.pending_updates = f.pending_updates \ due /\ g.events = {}
       /\ g.signal_count = sc /\ g.update_count = f.update_count
       /\ g.wait_ticket_counter = f.wait_ticket_counter
  BY <1>12, <1>13, <1>14 DEF FenceRecord
<1>16. WaitersUnsatisfied(g)
  BY <1>7, <1>11, <1>15 DEF WaitersUnsatisfied, InOrder
<1>17. PendingWindow(g)
  <2>1. g.signal_count <= g.update_count
    BY <1>6, <1>15
  <2>2. \A u, w \in g.pending_updates : u.update_count = w.update_count => u = w
    BY <1>15 DEF InOrder, PendingWindow
  <2>3. ASSUME NEW u \in g.pending_updates PROVE u.update_count \in sc + 1 .. f.update_count
    <3>1. u \in f.pending_updates /\ ~ (u.update_count <= sc)
      BY <1>5, <1>15
    <3>2. u.update_count \in f.signal_count + 1 .. f.update_count
      BY <3>1 DEF InOrder, PendingWindow
    <3> QED
      BY <3>1, <3>2, <1>1, <1>6
  <2>4. ASSUME NEW n \in sc + 1 .. f.update_count
        PROVE  \E u \in g.pending_updates : u.update_count = n
    <3>1. n \in f.signal_count + 1 .. f.update_count
      BY <1>1, <1>6
    <3>2. PICK u \in f.pending_updates : u.update_count = n
      BY <3>1 DEF InOrder, PendingWindow
    <3>3. ~ (n <= sc)
      BY <1>1, <1>6
    <3>4. u \in g.pending_updates
      BY <3>2, <3>3, <1>5, <1>15
    <3> QED
      BY <3>2, <3>4
  <2> QED
    BY <2>1, <2>2, <2>3, <2>4, <1>15 DEF PendingWindow
<1>18. \A x \in g.wait_tickets : x.ticket <= g.wait_ticket_counter
  BY <1>11, <1>15 DEF InOrder
<1> QED
  BY <1>10, <1>11, <1>14, <1>15, <1>16, <1>17, <1>18 DEF InOrder, sc

\* A queue Signal: one more update pending, numbered last.
LEMMA AddFacts ==
  ASSUME NEW f, InOrder(f), NEW v \in Value, NEW t \in VkQueues, NEW tv \in Nat
  PROVE  LET g == update_pending_value(add_pending_signal(f, v, t, tv))
             u == [update_count |-> f.update_count + 1, virtual_value |-> v,
                   vk_semaphore |-> t, vk_semaphore_value |-> tv]
         IN  /\ InOrder(g)
             /\ g.wait_tickets = f.wait_tickets
             /\ g.pending_updates = f.pending_updates \cup {u}
             /\ g.signal_count = f.signal_count
             /\ g.update_count = f.update_count + 1
             /\ g.wait_ticket_counter = f.wait_ticket_counter
<1> DEFINE n == f.update_count + 1
           u == [update_count |-> n, virtual_value |-> v,
                 vk_semaphore |-> t, vk_semaphore_value |-> tv]
           h == [f EXCEPT !.update_count = n, !.pending_updates = f.pending_updates \cup {u}]
           g == update_pending_value(h)
<1>1. /\ f \in FenceRecord
      /\ f.update_count \in Nat /\ f.signal_count \in Nat
      /\ f.signal_count <= f.update_count
      /\ f.pending_updates \subseteq PendingUpdate
  BY FenceFields DEF InOrder, PendingWindow
<1>2. n \in Nat /\ u \in PendingUpdate /\ u.update_count = n
  BY <1>1 DEF PendingUpdate
<1>3. add_pending_signal(f, v, t, tv) = h
  BY <1>1 DEF add_pending_signal, FenceRecord
<1> HIDE DEF u
<1>4. h \in FenceRecord
  <2>1. f.pending_updates \cup {u} \in SUBSET PendingUpdate
    BY <1>1, <1>2
  <2> HIDE DEF n
  <2> QED
    BY <1>1, <1>2, <2>1 DEF FenceRecord
<1>5. /\ h.virtual_value = f.virtual_value /\ h.wait_tickets = f.wait_tickets
      /\ h.pending_updates = f.pending_updates \cup {u} /\ h.events = f.events
      /\ h.signal_count = f.signal_count /\ h.update_count = n
      /\ h.wait_ticket_counter = f.wait_ticket_counter
  BY <1>1 DEF FenceRecord
<1> HIDE DEF h
<1>6. /\ g \in FenceRecord /\ MaxPendingExact(g)
      /\ g = [h EXCEPT !.max_pending = g.max_pending]
  BY <1>4, UpdatePendingValueFacts
<1> HIDE DEF g
<1>7. /\ g.virtual_value = f.virtual_value /\ g.wait_tickets = f.wait_tickets
      /\ g.pending_updates = f.pending_updates \cup {u} /\ g.events = f.events
      /\ g.signal_count = f.signal_count /\ g.update_count = n
      /\ g.wait_ticket_counter = f.wait_ticket_counter
  BY <1>4, <1>5, <1>6 DEF FenceRecord
<1>8. WaitersUnsatisfied(g)
  BY <1>7 DEF WaitersUnsatisfied, InOrder
<1>9. PendingWindow(g)
  <2>1. \A p \in f.pending_updates : p.update_count \in f.signal_count + 1 .. f.update_count
    BY DEF InOrder, PendingWindow
  <2>2. \A m \in f.signal_count + 1 .. f.update_count :
           \E p \in f.pending_updates : p.update_count = m
    BY DEF InOrder, PendingWindow
  <2>3. \A p, q \in f.pending_updates : p.update_count = q.update_count => p = q
    BY DEF InOrder, PendingWindow
  <2>4. \A p \in f.pending_updates : p.update_count # n
    BY <1>1, <2>1
  <2>5. \A p, q \in g.pending_updates : p.update_count = q.update_count => p = q
    BY <1>2, <1>7, <2>3, <2>4
  <2>6. ASSUME NEW p \in g.pending_updates
        PROVE  p.update_count \in g.signal_count + 1 .. g.update_count
    BY <1>1, <1>2, <1>7, <2>1
  <2>7. ASSUME NEW m \in g.signal_count + 1 .. g.update_count
        PROVE  \E p \in g.pending_updates : p.update_count = m
    <3>1. m = n \/ m \in f.signal_count + 1 .. f.update_count
      BY <1>1, <1>7
    <3> QED
      BY <3>1, <1>2, <1>7, <2>2
  <2>8. g.signal_count <= g.update_count
    BY <1>1, <1>7
  <2> QED
    BY <2>5, <2>6, <2>7, <2>8 DEF PendingWindow
<1>10. \A x \in g.wait_tickets : x.ticket <= g.wait_ticket_counter
  BY <1>7 DEF InOrder
<1> QED
  BY <1>3, <1>6, <1>7, <1>8, <1>9, <1>10 DEF InOrder, g, u, n

\* Taking a ticket: the number is new, and stands for the value.
LEMMA RegisterFacts ==
  ASSUME NEW f, InOrder(f), NEW v \in Value
  PROVE  LET g == register_pending_gpu_wait(f, v)
         IN  /\ InOrder(g)
             /\ g.wait_ticket_counter = f.wait_ticket_counter + 1
             /\ \A x \in g.wait_tickets :
                  \/ x \in f.wait_tickets
                  \/ x.ticket = g.wait_ticket_counter /\ x.virtual_value = v
             /\ g.pending_updates = f.pending_updates
             /\ g.signal_count = f.signal_count
             /\ g.update_count = f.update_count
<1> DEFINE n == f.wait_ticket_counter + 1
           x0 == [ticket |-> n, virtual_value |-> v]
           tickets == IF f.virtual_value < v THEN f.wait_tickets \cup {x0} ELSE f.wait_tickets
           g == [f EXCEPT !.wait_ticket_counter = n, !.wait_tickets = tickets]
<1>1. /\ f \in FenceRecord /\ n \in Nat /\ f.wait_ticket_counter \in Nat
      /\ f.wait_tickets \subseteq WaitTicket
  BY FenceFields DEF InOrder
<1>2. x0 \in WaitTicket /\ x0.ticket = n /\ x0.virtual_value = v
  BY <1>1 DEF WaitTicket
<1>3. register_pending_gpu_wait(f, v) = g
  BY <1>1 DEF register_pending_gpu_wait, FenceRecord
<1> HIDE DEF x0, n
<1>4. /\ tickets \subseteq WaitTicket
      /\ \A x \in tickets : x \in f.wait_tickets \/ (x = x0 /\ f.virtual_value < v)
  BY <1>1, <1>2
<1> HIDE DEF tickets
<1>5. g \in FenceRecord
  BY <1>1, <1>4 DEF FenceRecord
<1>6. /\ g.wait_tickets = tickets /\ g.wait_ticket_counter = n
      /\ g.virtual_value = f.virtual_value /\ g.max_pending = f.max_pending
      /\ g.pending_updates = f.pending_updates /\ g.events = f.events
      /\ g.signal_count = f.signal_count /\ g.update_count = f.update_count
  BY <1>1 DEF FenceRecord
<1> HIDE DEF g
<1>7. WaitersUnsatisfied(g)
  BY <1>2, <1>4, <1>6 DEF WaitersUnsatisfied, InOrder
<1>8. PendingWindow(g) /\ MaxPendingExact(g)
  BY <1>6 DEF PendingWindow, MaxPendingExact, InOrder
<1>9. \A x \in f.wait_tickets : x.ticket \in Nat /\ x.ticket <= f.wait_ticket_counter
  BY FenceFields DEF InOrder
<1>10. \A x \in g.wait_tickets : x.ticket <= g.wait_ticket_counter
  BY <1>1, <1>2, <1>4, <1>6, <1>9 DEF n
<1> QED
  BY <1>2, <1>3, <1>4, <1>5, <1>6, <1>7, <1>8, <1>10 DEF InOrder, n

\* Giving up a ticket.
LEMMA ConsumeFacts ==
  ASSUME NEW f, InOrder(f), NEW ticket
  PROVE  LET g == consume_ticket(f, ticket)
         IN  /\ InOrder(g)
             /\ g.wait_tickets \subseteq f.wait_tickets
             /\ g.pending_updates = f.pending_updates
             /\ g.signal_count = f.signal_count
             /\ g.update_count = f.update_count
             /\ g.wait_ticket_counter = f.wait_ticket_counter
<1> DEFINE tickets == {x \in f.wait_tickets : x.ticket # ticket}
           g == [f EXCEPT !.wait_tickets = tickets]
<1>1. f \in FenceRecord /\ tickets \subseteq f.wait_tickets
  BY DEF InOrder
<1>2. consume_ticket(f, ticket) = g
  BY <1>1 DEF consume_ticket, FenceRecord
<1> HIDE DEF tickets
<1>3. g \in FenceRecord
  BY <1>1 DEF FenceRecord
<1>4. /\ g.wait_tickets = tickets /\ g.wait_ticket_counter = f.wait_ticket_counter
      /\ g.virtual_value = f.virtual_value /\ g.max_pending = f.max_pending
      /\ g.pending_updates = f.pending_updates /\ g.events = f.events
      /\ g.signal_count = f.signal_count /\ g.update_count = f.update_count
  BY <1>1 DEF FenceRecord
<1> HIDE DEF g
<1>5. WaitersUnsatisfied(g) /\ PendingWindow(g) /\ MaxPendingExact(g)
  BY <1>1, <1>4 DEF WaitersUnsatisfied, PendingWindow, MaxPendingExact, InOrder
<1>6. \A x \in g.wait_tickets : x.ticket <= g.wait_ticket_counter
  BY <1>1, <1>4 DEF InOrder
<1> QED
  BY <1>1, <1>2, <1>3, <1>4, <1>5, <1>6 DEF InOrder

\* A Wait whose ticket still stands, and whose value is not above the maximum
\* pending value, finds an update.
LEMMA ChosenFacts ==
  ASSUME NEW f, InOrder(f), NEW v \in Value, v <= f.max_pending,
         NEW x \in f.wait_tickets, x.virtual_value = v
  PROVE  /\ Satisfying(f, v) # {}
         /\ EarliestUpdate(Satisfying(f, v)) \in f.pending_updates
<1>1. /\ f.virtual_value \in Nat /\ v \in Nat /\ f.max_pending \in Nat
      /\ f.pending_updates \subseteq PendingUpdate
  BY FenceFields, MaxValueAssumption DEF InOrder, Value
<1>2. f.virtual_value < v
  BY DEF InOrder, WaitersUnsatisfied
<1>3. PICK u \in f.pending_updates : u.virtual_value = f.max_pending
  BY <1>1, <1>2 DEF InOrder, MaxPendingExact
<1>4. u \in Satisfying(f, v)
  BY <1>1, <1>3 DEF Satisfying
<1>5. Satisfying(f, v) \subseteq f.pending_updates
  BY DEF Satisfying
<1>6. EarliestUpdate(Satisfying(f, v)) \in Satisfying(f, v)
  BY <1>1, <1>4, <1>5, EarliestProperty
<1> QED
  BY <1>4, <1>5, <1>6

-----------------------------------------------------------------------------
(* What a step does to the commands.                                       *)

\* The application makes a call of q that is queued, or one that is not; the
\* submission thread of q is done with its command.
Queued(q, ticket) ==
  /\ next[q] \in DOMAIN program[q]
  /\ next' = [next EXCEPT ![q] = next[q] + 1]
  /\ submissions' = [submissions EXCEPT ![q] =
                       Append(submissions[q], [id |-> next[q], ticket |-> ticket])]

Skipped(q) ==
  /\ next[q] \in DOMAIN program[q]
  /\ program[q][next[q]].type \in {"cpu_signal", "release"}
  /\ next' = [next EXCEPT ![q] = next[q] + 1]
  /\ submissions' = submissions

Finished(q) ==
  /\ submissions[q] # <<>>
  /\ submissions' = [submissions EXCEPT ![q] = Tail(submissions[q])]
  /\ next' = next

LEMMA CommandFacts ==
  ASSUME Types, CommandsInOrder, NEW q \in Queues
  PROVE  /\ submissions[q] \in Seq(Command) /\ next[q] \in Nat \ {0}
         /\ DOMAIN submissions[q] = 1..Len(submissions[q]) /\ Len(submissions[q]) \in Nat
         /\ program \in Programs
         /\ \A i \in DOMAIN submissions[q] :
              submissions[q][i] \in Command /\ submissions[q][i].id \in Nat
                /\ submissions[q][i].id \in Indices /\ submissions[q][i].ticket \in Nat
         /\ submissions[q] # <<>> =>
              /\ 1 \in DOMAIN submissions[q] /\ Head(submissions[q]) = submissions[q][1]
              /\ Head(submissions[q]).id \in DOMAIN program[q]
              /\ <<q, Head(submissions[q]).id>> \in Works
<1>1. submissions[q] \in Seq(Command) /\ next[q] \in Nat \ {0} /\ program \in Programs
  BY DEF Types
<1>2. /\ DOMAIN submissions[q] = 1..Len(submissions[q]) /\ Len(submissions[q]) \in Nat
      /\ \A i \in DOMAIN submissions[q] : submissions[q][i] \in Command
  BY <1>1, LenProperties
<1>3. submissions[q] # <<>> =>
        1 \in DOMAIN submissions[q] /\ Head(submissions[q]) = submissions[q][1]
  BY <1>1, TailFacts
<1>4. \A i \in DOMAIN submissions[q] :
        submissions[q][i].id \in Nat /\ submissions[q][i].ticket \in Nat
  BY <1>2 DEF Command
<1>5. \A i \in DOMAIN submissions[q] : submissions[q][i].id \in DOMAIN program[q]
  BY DEF CommandsInOrder
<1>6. \A i \in DOMAIN program[q] : i \in Indices
  BY <1>1 DEF Indices
<1>7. \A i \in DOMAIN submissions[q] :
        submissions[q][i].id \in Indices /\ <<q, submissions[q][i].id>> \in Works
  BY <1>5, <1>6 DEF Works
<1> QED
  BY <1>1, <1>2, <1>3, <1>4, <1>5, <1>7

\* The fence and the value of the Wait or Signal a thread is at.
LEMMA CurrentFacts ==
  ASSUME Types, CommandsInOrder, NEW q \in Queues,
         Has(q, "wait") \/ Has(q, "signal")
  PROVE  Current(q).fence \in Fences /\ Current(q).value \in Value
BY CommandFacts, CallFacts DEF Has, Current

LEMMA CallingFacts ==
  ASSUME Types, NEW q \in Queues, NEW type, Calls(q, type)
  PROVE  /\ next[q] \in DOMAIN program[q] /\ NextCall(q) = program[q][next[q]]
         /\ next' = [next EXCEPT ![q] = next[q] + 1]
         /\ type \in {"signal", "wait", "cpu_signal"} =>
              NextCall(q).fence \in Fences /\ NextCall(q).value \in Value
         /\ type = "release" => NextCall(q).fence \in Fences
<1>1. program \in Programs /\ next[q] \in Nat \ {0}
  BY DEF Types
<1>2. DOMAIN program[q] = 1..Len(program[q]) /\ Len(program[q]) \in Nat
  BY <1>1, LenProperties, QueuesAssumption
<1>3. next[q] \in DOMAIN program[q]
  BY <1>1, <1>2 DEF Calls
<1>4. NextCall(q).type = type /\ next' = [next EXCEPT ![q] = next[q] + 1]
  BY DEF Calls
<1> QED
  BY <1>1, <1>3, <1>4, CallFacts DEF NextCall

LEMMA CommandStep ==
  ASSUME Inv, Next
  PROVE  /\ program' = program
         /\ \/ UNCHANGED <<next, submissions>>
            \/ \E q \in Queues :
                 (\E ticket \in Nat : Queued(q, ticket)) \/ Skipped(q) \/ Finished(q)
<1> USE DEF Inv
<1>1. ASSUME NEW q \in Queues, Application(q)
      PROVE  /\ program' = program
             /\ (\E ticket \in Nat : Queued(q, ticket)) \/ Skipped(q)
  <2>1. CASE ApiExecute(q)
    <3>1. Queued(q, 0) /\ program' = program
      BY <2>1, CallingFacts DEF ApiExecute, add_submission, Queued
    <3> QED
      BY <3>1
  <2>2. CASE ApiSignal(q)
    <3>1. Queued(q, 0) /\ program' = program
      BY <2>2, CallingFacts DEF ApiSignal, add_submission, Queued
    <3> QED
      BY <3>1
  <2>3. CASE ApiWait(q)
    <3> DEFINE f == NextCall(q).fence
               ticket == fences'[f].wait_ticket_counter
    <3>1. f \in Fences /\ NextCall(q).value \in Value
      BY <2>3, CallingFacts DEF ApiWait
    <3>2. InOrder(fences[f])
      BY <3>1 DEF FencesInOrder
    <3>3. ticket \in Nat
      <4>1. fences'[f] = register_pending_gpu_wait(fences[f], NextCall(q).value)
        BY <2>3, <3>1 DEF ApiWait, Types
      <4>2. InOrder(fences'[f])
        BY <3>1, <3>2, <4>1, RegisterFacts
      <4> QED
        BY <4>2, FenceFields DEF InOrder
    <3>4. Queued(q, ticket) /\ program' = program
      BY <2>3, CallingFacts DEF ApiWait, add_submission, Queued
    <3> QED
      BY <3>3, <3>4
  <2>4. CASE ApiCpuSignal(q)
    <3>1. Skipped(q) /\ program' = program
      BY <2>4, CallingFacts DEF ApiCpuSignal, Skipped, Calls
    <3> QED
      BY <3>1
  <2>5. CASE ApiRelease(q)
    <3>1. Skipped(q) /\ program' = program
      BY <2>5, CallingFacts DEF ApiRelease, Skipped, Calls
    <3> QED
      BY <3>1
  <2> QED
    BY <1>1, <2>1, <2>2, <2>3, <2>4, <2>5 DEF Application
<1>2. ASSUME NEW q \in Queues, SubmissionThread(q)
      PROVE  program' = program /\ (UNCHANGED <<next, submissions>> \/ Finished(q))
  <2>0. thread[q] \in {"cpu_wait", "flushed"} => submissions[q] # <<>>
    BY DEF ThreadsAtWork, Has
  <2>1. CASE WaitAlreadySatisfied(q)
    BY <2>1 DEF WaitAlreadySatisfied, InWait, Has, Finish, Finished, app_vars
  <2>2. CASE WaitSleeps(q)
    BY <2>2 DEF WaitSleeps, app_vars
  <2>3. CASE WaitOnOwnVkQueue(q)
    BY <2>3 DEF WaitOnOwnVkQueue, Materialises, InWait, Has, Finish, Finished, app_vars
  <2>4. CASE WaitDeferred(q)
    BY <2>4 DEF WaitDeferred, OnOtherVkQueue, Materialises, InWait, Has, Finish, Finished, app_vars
  <2>5. CASE WaitOnCpu(q)
    BY <2>5 DEF WaitOnCpu, app_vars
  <2>6. CASE CpuWaitReturns(q)
    BY <2>0, <2>6 DEF CpuWaitReturns, Finish, Finished, app_vars
  <2>7. CASE FlushWaiters(q)
    BY <2>7 DEF FlushWaiters, app_vars
  <2>8. CASE SignalFence(q)
    BY <2>0, <2>8 DEF SignalFence, Finish, Finished, app_vars
  <2>9. CASE Execute(q)
    BY <2>9 DEF Execute, Has, Finish, Finished, app_vars
  <2> QED
    BY <1>2, <2>1, <2>2, <2>3, <2>4, <2>5, <2>6, <2>7, <2>8, <2>9 DEF SubmissionThread
<1>3. ASSUME NEW q \in Queues, FenceWorker(q)
      PROVE  program' = program /\ UNCHANGED <<next, submissions>>
  BY <1>3 DEF FenceWorker, RetireSignal, RetireOrder, RetireRelease, app_vars, thread_vars
<1>4. ASSUME NEW t \in VkQueues, GpuExecutes(t)
      PROVE  program' = program /\ UNCHANGED <<next, submissions>>
  BY <1>4 DEF GpuExecutes, app_vars, thread_vars
<1> QED
  BY <1>1, <1>2, <1>3, <1>4 DEF Next

-----------------------------------------------------------------------------
(* The commands stay in order.                                             *)

\* What a step makes of the commands of one queue.
LEMMA QueuedFacts ==
  ASSUME Types, CommandsInOrder, NEW q \in Queues, NEW ticket \in Nat, Queued(q, ticket)
  PROVE  /\ submissions' \in [Queues -> Seq(Command)]
         /\ next' \in [Queues -> Nat \ {0}] /\ next'[q] = next[q] + 1
         /\ \A r \in Queues : r # q => submissions'[r] = submissions[r] /\ next'[r] = next[r]
         /\ DOMAIN submissions'[q] = 1..(Len(submissions[q]) + 1)
         /\ \A i \in DOMAIN submissions[q] : submissions'[q][i] = submissions[q][i]
         /\ submissions'[q][Len(submissions[q]) + 1] = [id |-> next[q], ticket |-> ticket]
<1> DEFINE c == [id |-> next[q], ticket |-> ticket]
<1>1. submissions \in [Queues -> Seq(Command)] /\ next \in [Queues -> Nat \ {0}]
  BY DEF Types
<1>2. c \in Command
  BY <1>1 DEF Command
<1>3. submissions' = [submissions EXCEPT ![q] = Append(submissions[q], c)]
  BY DEF Queued
<1> HIDE DEF c
<1>4. /\ Append(submissions[q], c) \in Seq(Command)
      /\ DOMAIN submissions[q] = 1..Len(submissions[q])
      /\ DOMAIN Append(submissions[q], c) = 1..(Len(submissions[q]) + 1)
      /\ \A i \in 1..Len(submissions[q]) : Append(submissions[q], c)[i] = submissions[q][i]
      /\ Append(submissions[q], c)[Len(submissions[q]) + 1] = c
  BY <1>1, <1>2, AppendFacts
<1>5. submissions'[q] = Append(submissions[q], c)
  BY <1>1, <1>3
<1>6. submissions' \in [Queues -> Seq(Command)]
  BY <1>1, <1>3, <1>4
<1>7. \A r \in Queues : r # q => submissions'[r] = submissions[r]
  BY <1>1, <1>3
<1>8. /\ next' \in [Queues -> Nat \ {0}] /\ next'[q] = next[q] + 1
      /\ \A r \in Queues : r # q => next'[r] = next[r]
  BY <1>1 DEF Queued
<1> QED
  BY <1>4, <1>5, <1>6, <1>7, <1>8 DEF c

LEMMA FinishedFacts ==
  ASSUME Types, CommandsInOrder, NEW q \in Queues, Finished(q)
  PROVE  /\ submissions' \in [Queues -> Seq(Command)]
         /\ \A r \in Queues : r # q => submissions'[r] = submissions[r]
         /\ submissions[q] # <<>> /\ Len(submissions[q]) \in Nat \ {0}
         /\ DOMAIN submissions[q] = 1..Len(submissions[q])
         /\ DOMAIN submissions'[q] = 1..(Len(submissions[q]) - 1)
         /\ \A i \in DOMAIN submissions'[q] : submissions'[q][i] = submissions[q][i + 1]
<1>1. submissions \in [Queues -> Seq(Command)] /\ submissions[q] \in Seq(Command)
  BY DEF Types
<1>2. /\ submissions[q] # <<>>
      /\ submissions' = [submissions EXCEPT ![q] = Tail(submissions[q])]
  BY DEF Finished
<1>3. /\ Tail(submissions[q]) \in Seq(Command)
      /\ Len(submissions[q]) \in Nat \ {0} /\ DOMAIN submissions[q] = 1..Len(submissions[q])
      /\ DOMAIN Tail(submissions[q]) = 1..(Len(submissions[q]) - 1)
      /\ \A i \in 1..(Len(submissions[q]) - 1) : Tail(submissions[q])[i] = submissions[q][i + 1]
  BY <1>1, <1>2, TailFacts
<1>4. submissions'[q] = Tail(submissions[q])
  BY <1>1, <1>2
<1>5. submissions' \in [Queues -> Seq(Command)]
  BY <1>1, <1>2, <1>3
<1>6. \A r \in Queues : r # q => submissions'[r] = submissions[r]
  BY <1>1, <1>2
<1> QED
  BY <1>2, <1>3, <1>4, <1>5, <1>6

LEMMA CommandsStayInOrder ==
  ASSUME Inv, Next
  PROVE  CommandsInOrder'
<1>1. Types /\ CommandsInOrder /\ program' = program
  BY CommandStep DEF Inv
<1>2. CASE UNCHANGED <<next, submissions>>
  BY <1>1, <1>2 DEF CommandsInOrder
<1>3. ASSUME NEW q \in Queues, NEW ticket \in Nat, Queued(q, ticket)
      PROVE  CommandsInOrder'
  <2> DEFINE s == submissions[q]
             t == submissions'[q]
             n == next[q]
             L == Len(submissions[q])
  <2>0. /\ n \in DOMAIN program[q] /\ program \in Programs
        /\ DOMAIN program[q] \subseteq Nat
    BY <1>1, <1>3, CallFacts DEF Queued, Types
  <2>1. /\ DOMAIN t = 1..(L + 1) /\ DOMAIN s = 1..L /\ L \in Nat /\ n \in Nat \ {0}
        /\ \A i \in DOMAIN s : t[i] = s[i]
        /\ t[L + 1].id = n /\ next'[q] = n + 1 /\ n \in DOMAIN program[q]
        /\ \A i \in DOMAIN s : s[i].id \in Nat
        /\ DOMAIN program[q] \subseteq Nat
    <3>1. DOMAIN s = 1..L /\ L \in Nat /\ n \in Nat \ {0} /\ \A i \in DOMAIN s : s[i].id \in Nat
      BY <1>1, CommandFacts
    <3>2. /\ DOMAIN t = 1..(L + 1) /\ \A i \in DOMAIN s : t[i] = s[i]
          /\ t[L + 1] = [id |-> n, ticket |-> ticket] /\ next'[q] = n + 1
      BY <1>1, <1>3, QueuedFacts
    <3> QED
      BY <2>0, <3>1, <3>2
  <2>2. /\ \A i \in DOMAIN s : s[i].id \in DOMAIN program[q] /\ s[i].id < n
        /\ \A i, j \in DOMAIN s : i < j => s[i].id < s[j].id
        /\ \A i \in DOMAIN s, m \in DOMAIN program[q] :
             s[i].id < m /\ m < n /\ program[q][m].type = "execute" =>
               \E j \in DOMAIN s : s[j].id = m
    BY <1>1 DEF CommandsInOrder
  <2> HIDE DEF s, t, n, L
  <2>3. \A i \in DOMAIN t : (i \in DOMAIN s /\ t[i] = s[i]) \/ (i = L + 1 /\ t[i].id = n)
    BY <2>1
  <2>4. \A i \in DOMAIN t : t[i].id \in DOMAIN program[q] /\ t[i].id < n + 1
    BY <2>1, <2>2, <2>3
  <2>5. \A i, j \in DOMAIN t : i < j => t[i].id < t[j].id
    <3> SUFFICES ASSUME NEW i \in DOMAIN t, NEW j \in DOMAIN t, i < j PROVE t[i].id < t[j].id
      OBVIOUS
    <3>1. i \in DOMAIN s /\ t[i] = s[i]
      BY <2>1
    <3>2. CASE j \in DOMAIN s
      BY <3>1, <3>2, <2>1, <2>2
    <3>3. CASE j = L + 1
      BY <3>1, <3>3, <2>1, <2>2
    <3> QED
      BY <3>2, <3>3, <2>3
  <2>6. ASSUME NEW i \in DOMAIN t, NEW m \in DOMAIN program[q],
               t[i].id < m, m < n + 1, program[q][m].type = "execute"
        PROVE  \E j \in DOMAIN t : t[j].id = m
    <3>0. m \in Nat
      BY <2>1
    <3>1. CASE m = n
      BY <2>1, <3>1
    <3>2. CASE m # n
      <4>1. m < n
        BY <2>1, <2>6, <3>0, <3>2
      <4>2. i \in DOMAIN s /\ t[i] = s[i]
        BY <2>1, <2>3, <2>6, <3>0, <4>1
      <4>3. PICK j \in DOMAIN s : s[j].id = m
        BY <2>2, <2>6, <4>1, <4>2
      <4> QED
        BY <2>1, <4>3
    <3> QED
      BY <3>1, <3>2
  <2>7. \A r \in Queues : r # q => submissions'[r] = submissions[r] /\ next'[r] = next[r]
    BY <1>1, <1>3, QueuedFacts
  <2>8. ASSUME NEW r \in Queues
        PROVE  /\ \A i \in DOMAIN submissions'[r] :
                    submissions'[r][i].id \in DOMAIN program[r] /\ submissions'[r][i].id < next'[r]
               /\ \A i, j \in DOMAIN submissions'[r] :
                    i < j => submissions'[r][i].id < submissions'[r][j].id
               /\ \A i \in DOMAIN submissions'[r], m \in DOMAIN program[r] :
                    submissions'[r][i].id < m /\ m < next'[r] /\ program[r][m].type = "execute" =>
                      \E j \in DOMAIN submissions'[r] : submissions'[r][j].id = m
    <3>1. CASE r # q
      BY <1>1, <2>7, <3>1 DEF CommandsInOrder
    <3>2. CASE r = q
      BY <2>1, <2>4, <2>5, <2>6, <3>2 DEF t
    <3> QED
      BY <3>1, <3>2
  <2> QED
    BY <1>1, <2>8 DEF CommandsInOrder
<1>4. ASSUME NEW q \in Queues, Skipped(q)
      PROVE  CommandsInOrder'
  <2>1. /\ submissions' = submissions
        /\ next[q] \in Nat \ {0} /\ next'[q] = next[q] + 1
        /\ \A r \in Queues : r # q => next'[r] = next[r]
        /\ program[q][next[q]].type # "execute"
        /\ DOMAIN program[q] \subseteq Nat
        /\ \A i \in DOMAIN submissions[q] : submissions[q][i].id \in Nat
    BY <1>1, <1>4, CommandFacts, CallFacts DEF Skipped, Types
  <2>2. ASSUME NEW r \in Queues
        PROVE  /\ \A i \in DOMAIN submissions[r] :
                    submissions[r][i].id \in DOMAIN program[r] /\ submissions[r][i].id < next'[r]
               /\ \A i \in DOMAIN submissions[r], m \in DOMAIN program[r] :
                    submissions[r][i].id < m /\ m < next'[r] /\ program[r][m].type = "execute" =>
                      \E j \in DOMAIN submissions[r] : submissions[r][j].id = m
    <3>1. CASE r # q
      BY <1>1, <2>1, <3>1 DEF CommandsInOrder
    <3>2. CASE r = q
      <4>1. \A i \in DOMAIN submissions[r] :
              submissions[r][i].id \in DOMAIN program[r] /\ submissions[r][i].id < next'[r]
        BY <1>1, <2>1, <3>2 DEF CommandsInOrder
      <4>2. ASSUME NEW i \in DOMAIN submissions[r], NEW m \in DOMAIN program[r],
                   submissions[r][i].id < m, m < next'[r], program[r][m].type = "execute"
            PROVE  \E j \in DOMAIN submissions[r] : submissions[r][j].id = m
        <5>1. m \in Nat /\ m # next[q] /\ m < next[q] + 1
          BY <2>1, <3>2, <4>2
        <5>2. m < next[q]
          BY <5>1, <2>1
        <5> QED
          BY <1>1, <3>2, <4>2, <5>2 DEF CommandsInOrder
      <4> QED
        BY <4>1, <4>2
    <3> QED
      BY <3>1, <3>2
  <2> QED
    BY <1>1, <2>1, <2>2 DEF CommandsInOrder
<1>5. ASSUME NEW q \in Queues, Finished(q)
      PROVE  CommandsInOrder'
  <2> DEFINE s == submissions[q]
             t == submissions'[q]
             n == next[q]
             L == Len(submissions[q])
  <2>1. /\ DOMAIN t = 1..(L - 1) /\ DOMAIN s = 1..L /\ L \in Nat \ {0}
        /\ \A i \in DOMAIN t : t[i] = s[i + 1]
        /\ \A i \in DOMAIN s : s[i].id \in Nat
        /\ next' = next
    BY <1>1, <1>5, FinishedFacts, CommandFacts DEF Finished
  <2>2. /\ \A i \in DOMAIN s : s[i].id \in DOMAIN program[q] /\ s[i].id < n
        /\ \A i, j \in DOMAIN s : i < j => s[i].id < s[j].id
        /\ \A i \in DOMAIN s, m \in DOMAIN program[q] :
             s[i].id < m /\ m < n /\ program[q][m].type = "execute" =>
               \E j \in DOMAIN s : s[j].id = m
    BY <1>1 DEF CommandsInOrder
  <2> HIDE DEF s, t, n, L
  <2>3. \A i \in DOMAIN t : i + 1 \in DOMAIN s /\ t[i] = s[i + 1] /\ i \in Nat
    BY <2>1
  <2>4. \A i \in DOMAIN t : t[i].id \in DOMAIN program[q] /\ t[i].id < n
    BY <2>2, <2>3
  <2>5. \A i, j \in DOMAIN t : i < j => t[i].id < t[j].id
    <3>1. \A i, j \in DOMAIN t : i < j => i + 1 < j + 1
      BY <2>3
    <3> QED
      BY <2>2, <2>3, <3>1
  <2>6. ASSUME NEW i \in DOMAIN t, NEW m \in DOMAIN program[q],
               t[i].id < m, m < n, program[q][m].type = "execute"
        PROVE  \E j \in DOMAIN t : t[j].id = m
    <3>1. PICK j \in DOMAIN s : s[j].id = m
      BY <2>2, <2>3, <2>6
    <3>2. s[i + 1].id < s[j].id
      BY <2>3, <2>6, <3>1
    <3>3. j # 1
      <4>1. 1 \in DOMAIN s /\ 1 < i + 1 /\ i + 1 \in DOMAIN s
        BY <2>1, <2>3
      <4>2. s[1].id < s[i + 1].id /\ s[1].id \in Nat /\ s[i + 1].id \in Nat /\ s[j].id \in Nat
        BY <4>1, <2>1, <2>2
      <4> QED
        BY <3>2, <4>2
    <3>4. j - 1 \in DOMAIN t /\ (j - 1) + 1 = j
      BY <2>1, <3>3
    <3>5. t[j - 1] = s[(j - 1) + 1]
      BY <2>3, <3>4
    <3> QED
      BY <3>1, <3>4, <3>5
  <2>7. \A r \in Queues : r # q => submissions'[r] = submissions[r]
    BY <1>1, <1>5, FinishedFacts
  <2>8. ASSUME NEW r \in Queues
        PROVE  /\ \A i \in DOMAIN submissions'[r] :
                    submissions'[r][i].id \in DOMAIN program[r] /\ submissions'[r][i].id < next[r]
               /\ \A i, j \in DOMAIN submissions'[r] :
                    i < j => submissions'[r][i].id < submissions'[r][j].id
               /\ \A i \in DOMAIN submissions'[r], m \in DOMAIN program[r] :
                    submissions'[r][i].id < m /\ m < next[r] /\ program[r][m].type = "execute" =>
                      \E j \in DOMAIN submissions'[r] : submissions'[r][j].id = m
    <3>1. CASE r # q
      BY <1>1, <2>7, <3>1 DEF CommandsInOrder
    <3>2. CASE r = q
      BY <2>4, <2>5, <2>6, <3>2 DEF t, n
    <3> QED
      BY <3>1, <3>2
  <2> QED
    BY <1>1, <2>1, <2>8 DEF CommandsInOrder
<1> QED
  BY <1>1, <1>2, <1>3, <1>4, <1>5, CommandStep

-----------------------------------------------------------------------------
(* Who signals next.                                                       *)

\* Only an execute that is done brings a queue from not signalling next to
\* signalling next.
LEMMA SignalsNextStep ==
  ASSUME Inv, Next, NEW q \in Queues, SignalsNext(q)'
  PROVE  SignalsNext(q) \/ (Has(q, "execute") /\ Finished(q))
<1>1. Types /\ CommandsInOrder /\ program' = program
  BY CommandStep DEF Inv
<1>2. PICK k \in Remaining(q)' :
        /\ program[q][k].type = "signal"
        /\ \A m \in Remaining(q)' : m < k => program[q][m].type # "execute"
  BY <1>1 DEF SignalsNext
<1>3. \A m \in DOMAIN program[q] : m \in Nat
  BY <1>1, CallFacts DEF Types
<1>4. \A i \in DOMAIN submissions[q] : submissions[q][i].id \in DOMAIN program[q]
  BY <1>1 DEF CommandsInOrder
<1>5. CASE submissions'[q] = submissions[q] /\ next'[q] = next[q]
  BY <1>1, <1>2, <1>5 DEF Remaining, SignalsNext
<1>6. ASSUME NEW ticket \in Nat, Queued(q, ticket)
      PROVE  SignalsNext(q)
  <2>1. /\ DOMAIN submissions'[q] = 1..(Len(submissions[q]) + 1)
        /\ DOMAIN submissions[q] = 1..Len(submissions[q]) /\ Len(submissions[q]) \in Nat
        /\ \A i \in DOMAIN submissions[q] : submissions'[q][i] = submissions[q][i]
        /\ submissions'[q][Len(submissions[q]) + 1].id = next[q]
        /\ next'[q] = next[q] + 1 /\ next[q] \in DOMAIN program[q] /\ next[q] \in Nat
    <3>1. DOMAIN submissions[q] = 1..Len(submissions[q]) /\ Len(submissions[q]) \in Nat
      BY <1>1, CommandFacts
    <3>2. /\ DOMAIN submissions'[q] = 1..(Len(submissions[q]) + 1)
          /\ \A i \in DOMAIN submissions[q] : submissions'[q][i] = submissions[q][i]
          /\ submissions'[q][Len(submissions[q]) + 1] = [id |-> next[q], ticket |-> ticket]
          /\ next'[q] = next[q] + 1
      BY <1>1, <1>6, QueuedFacts
    <3>3. next[q] \in DOMAIN program[q] /\ next[q] \in Nat
      BY <1>1, <1>3, <1>6 DEF Queued
    <3> QED
      BY <3>1, <3>2, <3>3
  <2>2. \A m : m \in Remaining(q)' => m \in Remaining(q)
    <3> SUFFICES ASSUME NEW m, m \in Remaining(q)' PROVE m \in Remaining(q)
      OBVIOUS
    <3>1. CASE m \in DOMAIN program[q] /\ next'[q] <= m
      BY <1>3, <2>1, <3>1 DEF Remaining
    <3>2. ASSUME NEW i \in DOMAIN submissions'[q], m = submissions'[q][i].id
          PROVE  m \in Remaining(q)
      <4>1. CASE i \in DOMAIN submissions[q]
        BY <2>1, <3>2, <4>1 DEF Remaining
      <4>2. CASE i = Len(submissions[q]) + 1
        BY <2>1, <3>2, <4>2 DEF Remaining
      <4> QED
        BY <2>1, <4>1, <4>2
    <3> QED
      BY <1>1, <3>1, <3>2 DEF Remaining
  <2>3. \A m : m \in Remaining(q) => m \in Remaining(q)'
    <3> SUFFICES ASSUME NEW m, m \in Remaining(q) PROVE m \in Remaining(q)'
      OBVIOUS
    <3>1. CASE m = next[q]
      <4>1. Len(submissions[q]) + 1 \in DOMAIN submissions'[q]
        BY <2>1
      <4> QED
        BY <2>1, <3>1, <4>1 DEF Remaining
    <3>2. CASE m \in DOMAIN program[q] /\ next[q] <= m /\ m # next[q]
      <4>1. next'[q] <= m
        BY <1>3, <2>1, <3>2
      <4> QED
        BY <1>1, <3>2, <4>1 DEF Remaining
    <3>3. ASSUME NEW i \in DOMAIN submissions[q], m = submissions[q][i].id
          PROVE  m \in Remaining(q)'
      <4>1. i \in DOMAIN submissions'[q] /\ submissions'[q][i].id = m
        BY <2>1, <3>3
      <4> QED
        BY <4>1 DEF Remaining
    <3> QED
      BY <3>1, <3>2, <3>3 DEF Remaining
  <2> QED
    BY <1>2, <2>2, <2>3 DEF SignalsNext
<1>7. ASSUME Skipped(q)
      PROVE  SignalsNext(q)
  <2>1. /\ submissions' = submissions
        /\ next'[q] = next[q] + 1 /\ next[q] \in DOMAIN program[q] /\ next[q] \in Nat
        /\ program[q][next[q]].type # "execute"
    BY <1>1, <1>7, CommandFacts DEF Skipped, Types
  <2>2. \A m : m \in Remaining(q)' => m \in Remaining(q)
    BY <1>1, <1>3, <2>1 DEF Remaining
  <2>3. \A m : m \in Remaining(q) /\ m # next[q] => m \in Remaining(q)'
    <3> SUFFICES ASSUME NEW m, m \in Remaining(q), m # next[q] PROVE m \in Remaining(q)'
      OBVIOUS
    <3>1. CASE m \in DOMAIN program[q] /\ next[q] <= m
      <4>1. next'[q] <= m
        BY <1>3, <2>1, <3>1
      <4> QED
        BY <1>1, <3>1, <4>1 DEF Remaining
    <3>2. CASE \E i \in DOMAIN submissions[q] : m = submissions[q][i].id
      BY <2>1, <3>2 DEF Remaining
    <3> QED
      BY <3>1, <3>2 DEF Remaining
  <2> QED
    BY <1>2, <2>1, <2>2, <2>3 DEF SignalsNext
<1>8. ASSUME Finished(q), ~Has(q, "execute")
      PROVE  SignalsNext(q)
  <2>1. /\ submissions[q] # <<>> /\ next' = next
        /\ DOMAIN submissions'[q] = 1..(Len(submissions[q]) - 1)
        /\ DOMAIN submissions[q] = 1..Len(submissions[q]) /\ Len(submissions[q]) \in Nat \ {0}
        /\ \A i \in DOMAIN submissions'[q] : submissions'[q][i] = submissions[q][i + 1]
        /\ program[q][submissions[q][1].id].type # "execute"
    BY <1>1, <1>8, FinishedFacts, CommandFacts DEF Finished, Has
  <2>2. \A m : m \in Remaining(q)' => m \in Remaining(q)
    <3> SUFFICES ASSUME NEW m, m \in Remaining(q)' PROVE m \in Remaining(q)
      OBVIOUS
    <3>1. CASE m \in DOMAIN program[q] /\ next[q] <= m
      BY <3>1 DEF Remaining
    <3>2. ASSUME NEW i \in DOMAIN submissions'[q], m = submissions'[q][i].id
          PROVE  m \in Remaining(q)
      <4>1. i + 1 \in DOMAIN submissions[q] /\ m = submissions[q][i + 1].id
        BY <2>1, <3>2
      <4> QED
        BY <4>1 DEF Remaining
    <3> QED
      BY <1>1, <2>1, <3>1, <3>2 DEF Remaining
  <2>3. \A m : m \in Remaining(q) /\ m # submissions[q][1].id => m \in Remaining(q)'
    <3> SUFFICES ASSUME NEW m, m \in Remaining(q), m # submissions[q][1].id
                 PROVE  m \in Remaining(q)'
      OBVIOUS
    <3>1. CASE m \in DOMAIN program[q] /\ next[q] <= m
      BY <1>1, <2>1, <3>1 DEF Remaining
    <3>2. ASSUME NEW i \in DOMAIN submissions[q], m = submissions[q][i].id
          PROVE  m \in Remaining(q)'
      <4>1. i # 1
        BY <3>2
      <4>2. i - 1 \in DOMAIN submissions'[q] /\ (i - 1) + 1 = i
        BY <2>1, <4>1
      <4>3. submissions'[q][i - 1].id = m
        BY <2>1, <3>2, <4>2
      <4> QED
        BY <4>2, <4>3 DEF Remaining
    <3> QED
      BY <3>1, <3>2 DEF Remaining
  <2> QED
    BY <1>2, <2>1, <2>2, <2>3 DEF SignalsNext
<1>9. ASSUME NEW r \in Queues, r # q,
             (\E ticket \in Nat : Queued(r, ticket)) \/ Skipped(r) \/ Finished(r)
      PROVE  submissions'[q] = submissions[q] /\ next'[q] = next[q]
  <2>1. CASE \E ticket \in Nat : Queued(r, ticket)
    BY <1>1, <1>9, <2>1, QueuedFacts
  <2>2. CASE Skipped(r)
    BY <1>1, <1>9, <2>2 DEF Skipped, Types
  <2>3. CASE Finished(r)
    BY <1>1, <1>9, <2>3, FinishedFacts DEF Finished
  <2> QED
    BY <1>9, <2>1, <2>2, <2>3
<1> QED
  <2>1. CASE UNCHANGED <<next, submissions>>
    BY <1>5, <2>1
  <2>2. ASSUME NEW r \in Queues,
               (\E ticket \in Nat : Queued(r, ticket)) \/ Skipped(r) \/ Finished(r)
        PROVE  SignalsNext(q) \/ (Has(q, "execute") /\ Finished(q))
    <3>1. CASE r # q
      BY <1>5, <1>9, <2>2, <3>1
    <3>2. CASE r = q
      BY <1>6, <1>7, <1>8, <2>2, <3>2
    <3> QED
      BY <3>1, <3>2
  <2> QED
    BY <2>1, <2>2, CommandStep

\* A thread at a Signal signals next.
LEMMA AtSignalSignalsNext ==
  ASSUME Types, CommandsInOrder, NEW q \in Queues, Has(q, "signal")
  PROVE  SignalsNext(q)
<1>1. /\ DOMAIN submissions[q] = 1..Len(submissions[q]) /\ Len(submissions[q]) \in Nat
      /\ 1 \in DOMAIN submissions[q] /\ Head(submissions[q]) = submissions[q][1]
      /\ \A i \in DOMAIN submissions[q] : submissions[q][i].id \in Nat
      /\ next[q] \in Nat /\ program \in Programs
  BY CommandFacts DEF Has
<1> DEFINE k == submissions[q][1].id
<1>2. program[q][k].type = "signal" /\ k \in Remaining(q)
  BY <1>1 DEF Has, Remaining
<1>3. k < next[q] /\ \A i \in DOMAIN submissions[q] : i # 1 => k < submissions[q][i].id
  BY <1>1 DEF CommandsInOrder
<1>4. \A m \in DOMAIN program[q] : m \in Nat
  BY <1>1, CallFacts
<1>5. \A m \in Remaining(q) : ~ (m < k)
  <2> SUFFICES ASSUME NEW m \in Remaining(q) PROVE ~ (m < k)
    OBVIOUS
  <2>1. CASE m \in DOMAIN program[q] /\ next[q] <= m
    BY <1>1, <1>3, <1>4, <2>1
  <2>2. ASSUME NEW i \in DOMAIN submissions[q], m = submissions[q][i].id
        PROVE  ~ (m < k)
    BY <1>1, <1>3, <2>2
  <2> QED
    BY <2>1, <2>2 DEF Remaining
<1> QED
  BY <1>2, <1>5 DEF SignalsNext

\* One that is done with a wait for a signal of its own VkQueue does not.
LEMMA AfterOwnWaitNoSignalNext ==
  ASSUME Inv, Next, NoQuietRelay(program), NEW q \in Queues,
         Has(q, "wait"), Finished(q),
         WaitsForItsOwn(program, q, submissions[q][1].id)
  PROVE  ~SignalsNext(q)'
<1>1. Types /\ CommandsInOrder /\ program' = program
  BY CommandStep DEF Inv
<1> DEFINE j == submissions[q][1].id
<1>2. /\ submissions[q] # <<>> /\ next' = next
      /\ DOMAIN submissions'[q] = 1..(Len(submissions[q]) - 1)
      /\ DOMAIN submissions[q] = 1..Len(submissions[q]) /\ Len(submissions[q]) \in Nat \ {0}
      /\ \A i \in DOMAIN submissions'[q] : submissions'[q][i] = submissions[q][i + 1]
      /\ \A i \in DOMAIN submissions[q] : submissions[q][i].id \in Nat
      /\ next[q] \in Nat /\ program \in Programs
      /\ 1 \in DOMAIN submissions[q]
  BY <1>1, FinishedFacts, CommandFacts DEF Finished
<1>3. \A m \in DOMAIN program[q] : m \in Nat
  BY <1>2, CallFacts
<1>4. j \in DOMAIN program[q] /\ j < next[q]
  BY <1>1, <1>2 DEF CommandsInOrder
<1>5. \A k \in Remaining(q)' : k \in DOMAIN program[q] /\ j < k
  <2> SUFFICES ASSUME NEW k \in Remaining(q)' PROVE k \in DOMAIN program[q] /\ j < k
    OBVIOUS
  <2>1. CASE k \in DOMAIN program[q] /\ next[q] <= k
    BY <1>2, <1>3, <1>4, <2>1
  <2>2. ASSUME NEW i \in DOMAIN submissions'[q], k = submissions'[q][i].id
        PROVE  k \in DOMAIN program[q] /\ j < k
    <3>1. i + 1 \in DOMAIN submissions[q] /\ 1 < i + 1 /\ k = submissions[q][i + 1].id
      BY <1>2, <2>2
    <3> QED
      BY <1>1, <1>2, <3>1 DEF CommandsInOrder
  <2> QED
    BY <1>1, <1>2, <2>1, <2>2 DEF Remaining
<1>6. ASSUME NEW m \in DOMAIN program[q], j < m, program[q][m].type = "execute"
      PROVE  m \in Remaining(q)'
  <2>1. CASE next[q] <= m
    BY <1>1, <1>2, <2>1 DEF Remaining
  <2>2. CASE m < next[q]
    <3>1. PICK i \in DOMAIN submissions[q] : submissions[q][i].id = m
      BY <1>1, <1>2, <1>6, <2>2 DEF CommandsInOrder
    <3>2. i # 1
      BY <1>2, <1>3, <1>6, <3>1
    <3>3. i - 1 \in DOMAIN submissions'[q] /\ (i - 1) + 1 = i
      BY <1>2, <3>2
    <3>4. submissions'[q][i - 1].id = m
      BY <1>2, <3>1, <3>3
    <3> QED
      BY <3>3, <3>4 DEF Remaining
  <2> QED
    BY <1>2, <1>3, <2>1, <2>2
<1>7. SUFFICES ASSUME SignalsNext(q)' PROVE FALSE
  OBVIOUS
<1>8. PICK k \in Remaining(q)' :
        /\ program[q][k].type = "signal"
        /\ \A m \in Remaining(q)' : m < k => program[q][m].type # "execute"
  BY <1>1, <1>7 DEF SignalsNext
<1>9. PICK m \in DOMAIN program[q] : j < m /\ m < k /\ program[q][m].type = "execute"
  BY <1>4, <1>5, <1>8 DEF NoQuietRelay
<1> QED
  BY <1>6, <1>8, <1>9

-----------------------------------------------------------------------------
(* What a step does to the fences.                                         *)

\* Nothing is added to a fence.
Settles(f, g) ==
  /\ InOrder(g)
  /\ g.wait_tickets \subseteq f.wait_tickets
  /\ g.wait_ticket_counter = f.wait_ticket_counter
  /\ g.pending_updates \subseteq f.pending_updates
  /\ g.update_count = f.update_count

FencesSettle ==
  /\ fences' \in [Fences -> FenceRecord]
  /\ \A f \in Fences : Settles(fences[f], fences'[f])
  /\ promised' = promised

LEMMA OneSettles ==
  ASSUME Types, FencesInOrder, NEW f \in Fences, NEW g, Settles(fences[f], g),
         fences' = [fences EXCEPT ![f] = g], promised' = promised
  PROVE  FencesSettle
<1>1. fences \in [Fences -> FenceRecord] /\ g \in FenceRecord
  BY DEF Types, Settles, InOrder
<1>2. \A h \in Fences : Settles(fences[h], fences[h])
  BY DEF FencesInOrder, Settles
<1>3. fences' \in [Fences -> FenceRecord]
  BY <1>1
<1>4. ASSUME NEW h \in Fences PROVE Settles(fences[h], fences'[h])
  <2>1. CASE h = f
    BY <1>1, <2>1
  <2>2. CASE h # f
    BY <1>1, <1>2, <2>2
  <2> QED
    BY <2>1, <2>2
<1> QED
  BY <1>3, <1>4 DEF FencesSettle

LEMMA NoneChanges ==
  ASSUME Types, FencesInOrder, fences' = fences, promised' = promised
  PROVE  FencesSettle
BY DEF Types, FencesInOrder, Settles, FencesSettle

\* The head of a worker's entries, when it is a signal.
LEMMA SignalEntryFacts ==
  ASSUME Inv, NEW q \in Queues, worker[q] # <<>>, Head(worker[q]).type = "signal"
  PROVE  LET e == Head(worker[q])
         IN  /\ 1 \in DOMAIN worker[q] /\ e = worker[q][1]
             /\ e.fence \in Fences /\ e.update_count \in 1..fences[e.fence].update_count
             /\ e.vk_semaphore \in VkQueues /\ e.vk_semaphore_value \in Nat
<1>1. worker[q] \in Seq(Entry)
  BY DEF Inv, Types
<1>2. 1 \in DOMAIN worker[q] /\ Head(worker[q]) = worker[q][1] /\ Head(worker[q]) \in Entry
  BY <1>1, TailFacts
<1>3. \A e \in Entry : e.type = "signal" =>
        e.fence \in Fences /\ e.vk_semaphore \in VkQueues /\ e.vk_semaphore_value \in Nat
  BY DEF Entry
<1>4. Head(worker[q]).update_count \in 1..fences[Head(worker[q]).fence].update_count
  BY <1>2 DEF Inv, EntriesMatch
<1> QED
  BY <1>2, <1>3, <1>4

LEMMA FenceStep ==
  ASSUME Inv, Next
  PROVE  \/ FencesSettle
         \/ \E q \in Queues : ApiWait(q) \/ SignalFence(q)
<1>1. Types /\ CommandsInOrder /\ ThreadsAtWork /\ FencesInOrder
  BY DEF Inv
<1>2. ASSUME NEW q \in Queues, Application(q)
      PROVE  FencesSettle \/ ApiWait(q)
  <2>1. CASE ApiExecute(q)
    BY <1>1, <2>1, NoneChanges DEF ApiExecute, fence_vars, history
  <2>2. CASE ApiSignal(q)
    BY <1>1, <2>2, NoneChanges DEF ApiSignal, history
  <2>3. ASSUME NEW f \in Fences, NEW v \in Value, promised' = promised,
               fences' = [fences EXCEPT ![f] = signal_cpu_timeline_semaphore(@, v)]
        PROVE  FencesSettle
    <3>1. Settles(fences[f], signal_cpu_timeline_semaphore(fences[f], v))
      BY <1>1, CpuSignalFacts DEF FencesInOrder, Settles
    <3> QED
      BY <1>1, <2>3, <3>1, OneSettles
  <2>4. CASE ApiCpuSignal(q)
    <3>1. NextCall(q).fence \in Fences /\ NextCall(q).value \in Value
      BY <1>1, <2>4, CallingFacts DEF ApiCpuSignal
    <3> QED
      BY <2>3, <2>4, <3>1 DEF ApiCpuSignal, history
  <2>5. CASE ApiRelease(q)
    <3>1. NextCall(q).fence \in Fences
      BY <1>1, <2>5, CallingFacts DEF ApiRelease
    <3>2. MaxValue \in Value
      BY MaxValueAssumption DEF Value
    <3> QED
      BY <2>3, <2>5, <3>1, <3>2 DEF ApiRelease, history
  <2> QED
    BY <1>2, <2>1, <2>2, <2>4, <2>5 DEF Application
<1>3. ASSUME NEW q \in Queues, SubmissionThread(q)
      PROVE  FencesSettle \/ SignalFence(q)
  <2>1. CASE WaitAlreadySatisfied(q)
    BY <1>1, <2>1, NoneChanges DEF WaitAlreadySatisfied, history
  <2>2. CASE WaitSleeps(q)
    BY <1>1, <2>2, NoneChanges DEF WaitSleeps, fence_vars, history
  <2>3. ASSUME Has(q, "wait"), Consume(q), promised' = promised
        PROVE  FencesSettle
    <3> DEFINE f == Current(q).fence
    <3>1. f \in Fences
      BY <1>1, <2>3, CurrentFacts
    <3>2. Settles(fences[f], consume_ticket(fences[f], Ticket(q)))
      BY <1>1, <3>1, ConsumeFacts DEF FencesInOrder, Settles
    <3>3. fences' = [fences EXCEPT ![f] = consume_ticket(fences[f], Ticket(q))]
      BY <2>3 DEF Consume
    <3> QED
      BY <1>1, <2>3, <3>1, <3>2, <3>3, OneSettles
  <2>4. CASE WaitOnOwnVkQueue(q)
    BY <2>3, <2>4 DEF WaitOnOwnVkQueue, Materialises, InWait
  <2>5. CASE WaitDeferred(q)
    BY <2>3, <2>5 DEF WaitDeferred, OnOtherVkQueue, Materialises, InWait
  <2>6. CASE WaitOnCpu(q)
    BY <2>3, <2>6 DEF WaitOnCpu, OnOtherVkQueue, Materialises, InWait
  <2>7. CASE CpuWaitReturns(q)
    BY <1>1, <2>7, NoneChanges DEF CpuWaitReturns, history
  <2>8. CASE FlushWaiters(q)
    BY <1>1, <2>8, NoneChanges DEF FlushWaiters, fence_vars, history
  <2>9. CASE Execute(q)
    BY <1>1, <2>9, NoneChanges DEF Execute, fence_vars
  <2> QED
    BY <1>3, <2>1, <2>2, <2>4, <2>5, <2>6, <2>7, <2>8, <2>9 DEF SubmissionThread
<1>4. ASSUME NEW q \in Queues, FenceWorker(q)
      PROVE  FencesSettle
  <2>1. CASE RetireSignal(q)
    <3> DEFINE e == Head(worker[q])
    <3>1. e.fence \in Fences /\ e.update_count \in 1..fences[e.fence].update_count
      BY <2>1, SignalEntryFacts DEF RetireSignal, Retire
    <3>2. fences' = [fences EXCEPT ![e.fence] = fence_signal(fences[e.fence], e.update_count)]
          /\ promised' = promised
      BY <2>1 DEF RetireSignal, history
    <3> HIDE DEF e
    <3>3. Settles(fences[e.fence], fence_signal(fences[e.fence], e.update_count))
      BY <1>1, <3>1, PublishFacts DEF FencesInOrder, Settles
    <3> QED
      BY <1>1, <3>1, <3>2, <3>3, OneSettles
  <2>2. CASE RetireOrder(q)
    BY <1>1, <2>2, NoneChanges DEF RetireOrder, history
  <2>3. CASE RetireRelease(q)
    BY <1>1, <2>3, NoneChanges DEF RetireRelease, fence_vars, history
  <2> QED
    BY <1>4, <2>1, <2>2, <2>3 DEF FenceWorker
<1>5. ASSUME NEW t \in VkQueues, GpuExecutes(t)
      PROVE  FencesSettle
  BY <1>1, <1>5, NoneChanges DEF GpuExecutes, fence_vars
<1> QED
  BY <1>2, <1>3, <1>4, <1>5 DEF Next

\* A Wait registers with its fence.
LEMMA ApiWaitFacts ==
  ASSUME Inv, NEW q \in Queues, ApiWait(q)
  PROVE  LET f == NextCall(q).fence
         IN  /\ f \in Fences /\ promised' = promised
             /\ NextCall(q) = program[q][next[q]] /\ NextCall(q).type = "wait"
             /\ fences' \in [Fences -> FenceRecord]
             /\ \A h \in Fences :
                  /\ InOrder(fences'[h])
                  /\ fences'[h].pending_updates = fences[h].pending_updates
                  /\ fences'[h].update_count = fences[h].update_count
                  /\ fences[h].wait_ticket_counter <= fences'[h].wait_ticket_counter
                  /\ h # f => fences'[h] = fences[h]
             /\ fences'[f].wait_ticket_counter = fences[f].wait_ticket_counter + 1
             /\ \A x \in fences'[f].wait_tickets :
                  \/ x \in fences[f].wait_tickets
                  \/ x.ticket = fences'[f].wait_ticket_counter
                       /\ x.virtual_value = NextCall(q).value
             /\ Queued(q, fences'[f].wait_ticket_counter)
<1> DEFINE f == NextCall(q).fence
           v == NextCall(q).value
           g == register_pending_gpu_wait(fences[f], v)
<1>1. Types /\ FencesInOrder /\ fences \in [Fences -> FenceRecord]
  BY DEF Inv, Types
<1>2. /\ f \in Fences /\ v \in Value /\ NextCall(q) = program[q][next[q]]
      /\ next[q] \in DOMAIN program[q] /\ next' = [next EXCEPT ![q] = next[q] + 1]
  BY <1>1, CallingFacts DEF ApiWait
<1>3. /\ fences' = [fences EXCEPT ![f] = g]
      /\ submissions' = [submissions EXCEPT ![q] =
            Append(submissions[q],
                   [id |-> next[q], ticket |-> fences'[f].wait_ticket_counter])]
      /\ promised' = promised /\ NextCall(q).type = "wait"
  BY DEF ApiWait, add_submission, history, Calls
<1>4. InOrder(fences[f])
  BY <1>1, <1>2 DEF FencesInOrder
<1> HIDE DEF f, v
<1>5. /\ InOrder(g)
      /\ g.wait_ticket_counter = fences[f].wait_ticket_counter + 1
      /\ \A x \in g.wait_tickets :
           \/ x \in fences[f].wait_tickets
           \/ x.ticket = g.wait_ticket_counter /\ x.virtual_value = v
      /\ g.pending_updates = fences[f].pending_updates
      /\ g.update_count = fences[f].update_count
  BY <1>2, <1>4, RegisterFacts
<1> HIDE DEF g
<1>6. g \in FenceRecord /\ fences'[f] = g
  BY <1>1, <1>2, <1>3, <1>5 DEF InOrder
<1>7. fences' \in [Fences -> FenceRecord] /\ \A h \in Fences : h # f => fences'[h] = fences[h]
  BY <1>1, <1>3, <1>6
<1>8. \A h \in Fences : fences[h].wait_ticket_counter \in Nat /\ InOrder(fences[h])
  BY <1>1, FenceFields DEF FencesInOrder
<1>9. ASSUME NEW h \in Fences
      PROVE  /\ InOrder(fences'[h])
             /\ fences'[h].pending_updates = fences[h].pending_updates
             /\ fences'[h].update_count = fences[h].update_count
             /\ fences[h].wait_ticket_counter <= fences'[h].wait_ticket_counter
  <2>1. CASE h = f
    BY <1>5, <1>6, <1>8, <2>1
  <2>2. CASE h # f
    BY <1>7, <1>8, <2>2
  <2> QED
    BY <2>1, <2>2
<1>10. Queued(q, fences'[f].wait_ticket_counter)
  BY <1>2, <1>3 DEF Queued
<1> QED
  BY <1>2, <1>3, <1>5, <1>6, <1>7, <1>9, <1>10 DEF f, v

\* A Signal adds the update that is numbered next.
LEMMA SignalFenceFacts ==
  ASSUME Inv, NEW q \in Queues, SignalFence(q)
  PROVE  LET f == Current(q).fence
             u == [update_count |-> fences[f].update_count + 1,
                   virtual_value |-> Current(q).value,
                   vk_semaphore |-> VkQueueOf[q], vk_semaphore_value |-> last_value[q]]
         IN  /\ f \in Fences /\ Current(q).type = "signal" /\ Has(q, "signal")
             /\ fences' \in [Fences -> FenceRecord]
             /\ \A h \in Fences :
                  /\ InOrder(fences'[h])
                  /\ fences'[h].wait_tickets = fences[h].wait_tickets
                  /\ fences'[h].wait_ticket_counter = fences[h].wait_ticket_counter
                  /\ h # f => fences'[h] = fences[h] /\ promised'[h] = promised[h]
             /\ fences'[f].pending_updates = fences[f].pending_updates \cup {u}
             /\ fences'[f].signal_count = fences[f].signal_count
             /\ fences'[f].update_count = fences[f].update_count + 1
             /\ fences[f].update_count \in Nat
             /\ promised' \in [Fences -> Seq(SUBSET Works)]
             /\ promised'[f] = Append(promised[f], follows[q])
             /\ Len(promised'[f]) = Len(promised[f]) + 1
             /\ promised'[f][fences[f].update_count + 1] = follows[q]
             /\ \A n \in 1..fences[f].update_count : promised'[f][n] = promised[f][n]
<1> DEFINE f == Current(q).fence
           v == Current(q).value
           g == update_pending_value(
                  add_pending_signal(fences[f], v, VkQueueOf[q], last_value[q]))
<1>1. /\ Types /\ FencesInOrder /\ fences \in [Fences -> FenceRecord]
      /\ CommandsInOrder /\ ThreadsAtWork
      /\ promised \in [Fences -> Seq(SUBSET Works)] /\ follows[q] \in SUBSET Works
      /\ last_value[q] \in Nat
  BY DEF Inv, Types
<1>2. VkQueueOf[q] \in VkQueues
  BY QueuesAssumption
<1>3. Has(q, "signal")
  BY <1>1 DEF ThreadsAtWork, SignalFence
<1>4. f \in Fences /\ v \in Value /\ Current(q).type = "signal"
  BY <1>1, <1>3, CurrentFacts DEF Has, Current
<1>5. /\ fences' = [fences EXCEPT ![f] = g]
      /\ promised' = [promised EXCEPT ![f] = Append(promised[f], follows[q])]
  BY DEF SignalFence
<1>6. InOrder(fences[f]) /\ Len(promised[f]) = fences[f].update_count
  BY <1>1, <1>4 DEF FencesInOrder
<1> DEFINE u == [update_count |-> fences[f].update_count + 1, virtual_value |-> v,
                 vk_semaphore |-> VkQueueOf[q], vk_semaphore_value |-> last_value[q]]
<1> HIDE DEF f, v
<1>7. /\ InOrder(g)
      /\ g.wait_tickets = fences[f].wait_tickets
      /\ g.pending_updates = fences[f].pending_updates \cup {u}
      /\ g.signal_count = fences[f].signal_count
      /\ g.update_count = fences[f].update_count + 1
      /\ g.wait_ticket_counter = fences[f].wait_ticket_counter
  BY <1>1, <1>2, <1>4, <1>6, AddFacts
<1> HIDE DEF g, u
<1>8. g \in FenceRecord /\ fences'[f] = g
  BY <1>1, <1>4, <1>5, <1>7 DEF InOrder
<1>9. fences' \in [Fences -> FenceRecord] /\ \A h \in Fences : h # f => fences'[h] = fences[h]
  BY <1>1, <1>5, <1>8
<1>10. ASSUME NEW h \in Fences
       PROVE  /\ InOrder(fences'[h])
              /\ fences'[h].wait_tickets = fences[h].wait_tickets
              /\ fences'[h].wait_ticket_counter = fences[h].wait_ticket_counter
  <2>1. CASE h = f
    BY <1>7, <1>8, <2>1
  <2>2. CASE h # f
    BY <1>1, <1>9, <2>2 DEF FencesInOrder
  <2> QED
    BY <2>1, <2>2
<1>11. promised[f] \in Seq(SUBSET Works) /\ fences[f].update_count \in Nat
  BY <1>1, <1>4, FenceFields
<1> DEFINE p == Append(promised[f], follows[q])
<1>12. /\ p \in Seq(SUBSET Works) /\ Len(p) = Len(promised[f]) + 1
       /\ p[Len(promised[f]) + 1] = follows[q]
       /\ \A n \in 1..Len(promised[f]) : p[n] = promised[f][n]
  BY <1>1, <1>11, AppendFacts
<1>13. /\ promised' = [promised EXCEPT ![f] = p]
  BY <1>5
<1> HIDE DEF p
<1>14. /\ promised' \in [Fences -> Seq(SUBSET Works)] /\ promised'[f] = p
       /\ \A h \in Fences : h # f => promised'[h] = promised[h]
  BY <1>1, <1>4, <1>12, <1>13
<1>15. /\ Len(p) = Len(promised[f]) + 1
       /\ p[fences[f].update_count + 1] = follows[q]
       /\ \A n \in 1..fences[f].update_count : p[n] = promised[f][n]
  BY <1>6, <1>12
<1> QED
  BY <1>3, <1>4, <1>7, <1>8, <1>9, <1>10, <1>11, <1>14, <1>15 DEF f, v, u, p

LEMMA FencesStayInOrder ==
  ASSUME Inv, Next
  PROVE  FencesInOrder' /\ fences' \in [Fences -> FenceRecord]
         /\ promised' \in [Fences -> Seq(SUBSET Works)]
<1>1. FencesInOrder /\ promised \in [Fences -> Seq(SUBSET Works)]
  BY DEF Inv, Types
<1>2. CASE FencesSettle
  BY <1>1, <1>2 DEF FencesSettle, Settles, FencesInOrder
<1>3. ASSUME NEW q \in Queues, ApiWait(q)
      PROVE  FencesInOrder' /\ fences' \in [Fences -> FenceRecord]
             /\ promised' \in [Fences -> Seq(SUBSET Works)]
  BY <1>1, <1>3, ApiWaitFacts DEF FencesInOrder
<1>4. ASSUME NEW q \in Queues, SignalFence(q)
      PROVE  FencesInOrder' /\ fences' \in [Fences -> FenceRecord]
             /\ promised' \in [Fences -> Seq(SUBSET Works)]
  <2> DEFINE f == Current(q).fence
  <2>1. /\ fences' \in [Fences -> FenceRecord] /\ promised' \in [Fences -> Seq(SUBSET Works)]
        /\ f \in Fences
        /\ \A h \in Fences : InOrder(fences'[h])
        /\ \A h \in Fences : h # f => fences'[h] = fences[h] /\ promised'[h] = promised[h]
        /\ fences'[f].update_count = fences[f].update_count + 1
        /\ Len(promised'[f]) = Len(promised[f]) + 1
    BY <1>4, SignalFenceFacts
  <2> HIDE DEF f
  <2>2. ASSUME NEW h \in Fences PROVE Len(promised'[h]) = fences'[h].update_count
    <3>1. CASE h = f
      BY <1>1, <2>1, <3>1 DEF FencesInOrder
    <3>2. CASE h # f
      BY <1>1, <2>1, <3>2 DEF FencesInOrder
    <3> QED
      BY <3>1, <3>2
  <2> QED
    BY <2>1, <2>2 DEF FencesInOrder
<1> QED
  BY <1>2, <1>3, <1>4, FenceStep

\* What a step may add to the pending updates.
LEMMA NewUpdates ==
  ASSUME Inv, Next, NEW f \in Fences, NEW u \in fences'[f].pending_updates
  PROVE  \/ u \in fences[f].pending_updates /\ promised'[f][u.update_count] = promised[f][u.update_count]
         \/ \E q \in Queues :
              /\ SignalFence(q) /\ f = Current(q).fence
              /\ u = [update_count |-> fences[f].update_count + 1,
                      virtual_value |-> Current(q).value,
                      vk_semaphore |-> VkQueueOf[q], vk_semaphore_value |-> last_value[q]]
<1>1. CASE FencesSettle
  BY <1>1 DEF FencesSettle, Settles
<1>2. ASSUME NEW q \in Queues, ApiWait(q)
      PROVE  u \in fences[f].pending_updates /\ promised' = promised
  BY <1>2, ApiWaitFacts
<1>3. ASSUME NEW q \in Queues, SignalFence(q), u \in fences[f].pending_updates
      PROVE  promised'[f][u.update_count] = promised[f][u.update_count]
  <2>1. u.update_count \in 1..fences[f].update_count
    <3>1. InOrder(fences[f])
      BY DEF Inv, FencesInOrder
    <3>2. fences[f].signal_count \in Nat /\ fences[f].update_count \in Nat
      BY <3>1, FenceFields DEF InOrder
    <3>3. u.update_count \in fences[f].signal_count + 1 .. fences[f].update_count
      BY <3>1, <1>3 DEF InOrder, PendingWindow
    <3> QED
      BY <3>2, <3>3
  <2>2. CASE f = Current(q).fence
    BY <1>3, <2>1, <2>2, SignalFenceFacts
  <2>3. CASE f # Current(q).fence
    BY <1>3, <2>3, SignalFenceFacts
  <2> QED
    BY <2>2, <2>3
<1>4. ASSUME NEW q \in Queues, SignalFence(q), u \notin fences[f].pending_updates
      PROVE  /\ f = Current(q).fence
             /\ u = [update_count |-> fences[f].update_count + 1,
                     virtual_value |-> Current(q).value,
                     vk_semaphore |-> VkQueueOf[q], vk_semaphore_value |-> last_value[q]]
  BY <1>4, SignalFenceFacts
<1> QED
  BY <1>1, <1>2, <1>3, <1>4, FenceStep

LEMMA SignallersStay ==
  ASSUME Inv, Next
  PROVE  UpdatesHaveSignallers'
<1>1. Types /\ CommandsInOrder /\ program' = program /\ UpdatesHaveSignallers
  BY CommandStep DEF Inv
<1>2. ASSUME NEW f \in Fences, NEW u \in fences'[f].pending_updates
      PROVE  \E r \in Queues : VkQueueOf[r] = u.vk_semaphore /\ Signals(program, r, f)
  <2>1. CASE u \in fences[f].pending_updates
    BY <1>1, <2>1 DEF UpdatesHaveSignallers
  <2>2. ASSUME NEW q \in Queues, SignalFence(q), f = Current(q).fence,
               u = [update_count |-> fences[f].update_count + 1,
                    virtual_value |-> Current(q).value,
                    vk_semaphore |-> VkQueueOf[q], vk_semaphore_value |-> last_value[q]]
        PROVE  \E r \in Queues : VkQueueOf[r] = u.vk_semaphore /\ Signals(program, r, f)
    <3>1. u.vk_semaphore = VkQueueOf[q]
      BY <2>2
    <3>2. Current(q).type = "signal" /\ Has(q, "signal")
      BY <2>2, SignalFenceFacts
    <3>3. Head(submissions[q]).id \in DOMAIN program[q]
      BY <1>1, <3>2, CommandFacts DEF Has
    <3>4. Signals(program, q, f)
      BY <2>2, <3>2, <3>3 DEF Signals, Current
    <3> QED
      BY <3>1, <3>4
  <2> QED
    BY <1>2, <2>1, <2>2, NewUpdates
<1> QED
  BY <1>1, <1>2 DEF UpdatesHaveSignallers

-----------------------------------------------------------------------------
(* Tickets.                                                                *)

\* A command is an old one or has just been queued.
LEMMA CommandsOldOrNew ==
  ASSUME Inv, Next, NEW q \in Queues, NEW i \in DOMAIN submissions'[q]
  PROVE  \/ \E j \in DOMAIN submissions[q] : submissions'[q][i] = submissions[q][j]
         \/ \E ticket \in Nat :
              Queued(q, ticket) /\ submissions'[q][i] = [id |-> next[q], ticket |-> ticket]
<1>1. Types /\ CommandsInOrder
  BY DEF Inv
<1>2. CASE submissions'[q] = submissions[q]
  BY <1>2
<1>3. ASSUME NEW ticket \in Nat, Queued(q, ticket)
      PROVE  \/ \E j \in DOMAIN submissions[q] : submissions'[q][i] = submissions[q][j]
             \/ submissions'[q][i] = [id |-> next[q], ticket |-> ticket]
  <2>1. DOMAIN submissions[q] = 1..Len(submissions[q]) /\ Len(submissions[q]) \in Nat
    BY <1>1, CommandFacts
  <2>2. /\ DOMAIN submissions'[q] = 1..(Len(submissions[q]) + 1)
        /\ \A j \in DOMAIN submissions[q] : submissions'[q][j] = submissions[q][j]
        /\ submissions'[q][Len(submissions[q]) + 1] = [id |-> next[q], ticket |-> ticket]
    BY <1>1, <1>3, QueuedFacts
  <2>3. i \in DOMAIN submissions[q] \/ i = Len(submissions[q]) + 1
    BY <2>1, <2>2
  <2> QED
    BY <2>2, <2>3
<1>4. CASE Finished(q)
  <2>1. /\ DOMAIN submissions[q] = 1..Len(submissions[q]) /\ Len(submissions[q]) \in Nat
        /\ DOMAIN submissions'[q] = 1..(Len(submissions[q]) - 1)
        /\ submissions'[q][i] = submissions[q][i + 1]
    BY <1>1, <1>4, FinishedFacts
  <2>2. i + 1 \in DOMAIN submissions[q]
    BY <2>1
  <2> QED
    BY <2>1, <2>2
<1>5. ASSUME NEW r \in Queues, r # q,
             (\E ticket \in Nat : Queued(r, ticket)) \/ Skipped(r) \/ Finished(r)
      PROVE  submissions'[q] = submissions[q]
  BY <1>1, <1>5, QueuedFacts, FinishedFacts DEF Skipped
<1> QED
  <2>1. CASE UNCHANGED <<next, submissions>>
    BY <1>2, <2>1
  <2>2. ASSUME NEW r \in Queues, r # q,
               (\E ticket \in Nat : Queued(r, ticket)) \/ Skipped(r) \/ Finished(r)
        PROVE  submissions'[q] = submissions[q]
    BY <1>5, <2>2
  <2>3. CASE Skipped(q)
    BY <1>2, <2>3 DEF Skipped
  <2> QED
    BY <1>2, <1>3, <1>4, <2>1, <2>2, <2>3, CommandStep

LEMMA WaitQueued ==
  ASSUME Inv, Next, NEW q \in Queues, NEW ticket \in Nat, Queued(q, ticket),
         program[q][next[q]].type = "wait"
  PROVE  ApiWait(q) /\ ticket = fences'[NextCall(q).fence].wait_ticket_counter
<1>1. Types /\ CommandsInOrder /\ next \in [Queues -> Nat \ {0}]
  BY DEF Inv, Types
<1>2. next'[q] # next[q]
  BY <1>1 DEF Queued
<1>3. ASSUME NEW r \in Queues, Application(r)
      PROVE  ApiWait(q)
  <2>1. \E type : Calls(r, type)
    BY <1>3 DEF Application, ApiExecute, ApiSignal, ApiWait, ApiCpuSignal, ApiRelease
  <2>2. r = q
    BY <1>1, <1>2, <2>1 DEF Calls
  <2>3. \A type : Calls(q, type) => type = "wait"
    BY DEF Calls, NextCall
  <2> QED
    BY <1>3, <2>2, <2>3
      DEF Application, ApiExecute, ApiSignal, ApiWait, ApiCpuSignal, ApiRelease
<1>4. ASSUME NEW r \in Queues, SubmissionThread(r) PROVE next' = next
  BY <1>4 DEF SubmissionThread, WaitAlreadySatisfied, WaitSleeps, WaitOnOwnVkQueue, WaitDeferred,
              WaitOnCpu, CpuWaitReturns, FlushWaiters, SignalFence, Execute, app_vars
<1>5. ASSUME NEW r \in Queues, FenceWorker(r) PROVE next' = next
  BY <1>5 DEF FenceWorker, RetireSignal, RetireOrder, RetireRelease, app_vars
<1>6. ASSUME NEW t \in VkQueues, GpuExecutes(t) PROVE next' = next
  BY <1>6 DEF GpuExecutes, app_vars
<1>7. ApiWait(q)
  BY <1>2, <1>3, <1>4, <1>5, <1>6 DEF Next
<1>8. Queued(q, fences'[NextCall(q).fence].wait_ticket_counter)
  BY <1>7, ApiWaitFacts
<1>9. fences'[NextCall(q).fence].wait_ticket_counter \in Nat
  BY <1>7, ApiWaitFacts, FenceFields
<1>10. /\ submissions'[q][Len(submissions[q]) + 1] = [id |-> next[q], ticket |-> ticket]
       /\ submissions'[q][Len(submissions[q]) + 1]
            = [id |-> next[q], ticket |-> fences'[NextCall(q).fence].wait_ticket_counter]
  BY <1>1, <1>8, <1>9, QueuedFacts
<1> QED
  BY <1>7, <1>10

LEMMA TicketsKeepStanding ==
  ASSUME Inv, Next
  PROVE  TicketsStand'
<1>1. Types /\ CommandsInOrder /\ program' = program /\ TicketsStand /\ FencesInOrder
  BY CommandStep DEF Inv
<1>2. \A f \in Fences : /\ fences[f].wait_ticket_counter \in Nat
                        /\ \A x \in fences[f].wait_tickets :
                             x.ticket \in Nat /\ x.ticket <= fences[f].wait_ticket_counter
  BY <1>1, FenceFields DEF FencesInOrder, InOrder
<1>3. ASSUME NEW q \in Queues, NEW j \in DOMAIN submissions[q],
             program[q][submissions[q][j].id].type = "wait"
      PROVE  LET f == program[q][submissions[q][j].id].fence
                 ticket == submissions[q][j].ticket
             IN  /\ ticket <= fences'[f].wait_ticket_counter
                 /\ \A x \in fences'[f].wait_tickets :
                      x.ticket = ticket => x.virtual_value = program[q][submissions[q][j].id].value
  <2> DEFINE f == program[q][submissions[q][j].id].fence
             v == program[q][submissions[q][j].id].value
             ticket == submissions[q][j].ticket
  <2>1. /\ ticket <= fences[f].wait_ticket_counter
        /\ \A x \in fences[f].wait_tickets : x.ticket = ticket => x.virtual_value = v
    BY <1>1, <1>3 DEF TicketsStand
  <2>2. f \in Fences /\ ticket \in Nat
    <3>1. submissions[q][j].id \in DOMAIN program[q]
      BY <1>1 DEF CommandsInOrder
    <3> QED
      BY <1>1, <1>3, <3>1, CallFacts, CommandFacts DEF Types
  <2> HIDE DEF f, v, ticket
  <2>3. CASE FencesSettle
    BY <2>1, <2>2, <2>3 DEF FencesSettle, Settles, f, v, ticket
  <2>4. ASSUME NEW r \in Queues, SignalFence(r)
        PROVE  /\ ticket <= fences'[f].wait_ticket_counter
               /\ \A x \in fences'[f].wait_tickets : x.ticket = ticket => x.virtual_value = v
    <3>1. /\ fences'[f].wait_tickets = fences[f].wait_tickets
          /\ fences'[f].wait_ticket_counter = fences[f].wait_ticket_counter
      BY <2>2, <2>4, SignalFenceFacts
    <3> QED
      BY <2>1, <3>1
  <2>5. ASSUME NEW r \in Queues, ApiWait(r)
        PROVE  /\ ticket <= fences'[f].wait_ticket_counter
               /\ \A x \in fences'[f].wait_tickets : x.ticket = ticket => x.virtual_value = v
    <3> DEFINE g == NextCall(r).fence
    <3>1. /\ fences'[f].wait_ticket_counter \in Nat
          /\ fences[f].wait_ticket_counter <= fences'[f].wait_ticket_counter
          /\ f # g => fences'[f] = fences[f]
          /\ fences'[g].wait_ticket_counter = fences[g].wait_ticket_counter + 1
          /\ \A x \in fences'[g].wait_tickets :
               \/ x \in fences[g].wait_tickets
               \/ x.ticket = fences'[g].wait_ticket_counter
      BY <2>2, <2>5, ApiWaitFacts, FenceFields
    <3> HIDE DEF g
    <3>2. ticket <= fences'[f].wait_ticket_counter
      BY <1>2, <2>1, <2>2, <3>1
    <3>3. ASSUME NEW x \in fences'[f].wait_tickets, x.ticket = ticket
          PROVE  x \in fences[f].wait_tickets
      BY <1>2, <2>1, <2>2, <3>1, <3>3
    <3> QED
      BY <2>1, <3>2, <3>3
  <2> QED
    BY <2>3, <2>4, <2>5, FenceStep DEF f, v, ticket
<1>4. ASSUME NEW q \in Queues, NEW i \in DOMAIN submissions'[q],
             program[q][submissions'[q][i].id].type = "wait"
      PROVE  LET f == program[q][submissions'[q][i].id].fence
                 ticket == submissions'[q][i].ticket
             IN  /\ ticket <= fences'[f].wait_ticket_counter
                 /\ \A x \in fences'[f].wait_tickets :
                      x.ticket = ticket => x.virtual_value = program[q][submissions'[q][i].id].value
  <2> DEFINE c == submissions'[q][i]
             call == program[q][c.id]
  <2>1. ASSUME NEW j \in DOMAIN submissions[q], c = submissions[q][j]
        PROVE  /\ c.ticket <= fences'[call.fence].wait_ticket_counter
               /\ \A x \in fences'[call.fence].wait_tickets :
                    x.ticket = c.ticket => x.virtual_value = call.value
    BY <1>3, <1>4, <2>1
  <2>2. ASSUME NEW ticket \in Nat, Queued(q, ticket), c = [id |-> next[q], ticket |-> ticket]
        PROVE  /\ c.ticket <= fences'[call.fence].wait_ticket_counter
               /\ \A x \in fences'[call.fence].wait_tickets :
                    x.ticket = c.ticket => x.virtual_value = call.value
    <3> DEFINE f == NextCall(q).fence
    <3>1. c.ticket = ticket /\ call = NextCall(q) /\ program[q][next[q]].type = "wait"
      BY <1>4, <2>2 DEF NextCall
    <3>2. ApiWait(q) /\ ticket = fences'[f].wait_ticket_counter
      BY <2>2, <3>1, WaitQueued
    <3>3. /\ f \in Fences
          /\ fences'[f].wait_ticket_counter = fences[f].wait_ticket_counter + 1
          /\ \A x \in fences'[f].wait_tickets :
               \/ x \in fences[f].wait_tickets
               \/ x.ticket = fences'[f].wait_ticket_counter
                    /\ x.virtual_value = NextCall(q).value
      BY <3>2, ApiWaitFacts
    <3> HIDE DEF f, c, call
    <3>4. \A x \in fences'[f].wait_tickets : x.ticket = ticket => x.virtual_value = NextCall(q).value
      BY <1>2, <3>2, <3>3
    <3>5. ticket <= fences'[f].wait_ticket_counter
      BY <2>2, <3>2
    <3> QED
      BY <3>1, <3>4, <3>5 DEF f
  <2>3. \/ \E j \in DOMAIN submissions[q] : c = submissions[q][j]
        \/ \E ticket \in Nat : Queued(q, ticket) /\ c = [id |-> next[q], ticket |-> ticket]
    BY CommandsOldOrNew
  <2> QED
    BY <2>1, <2>2, <2>3
<1> QED
  BY <1>1, <1>4 DEF TicketsStand

\* The update that a Wait for another VkQueue is resolved to is pending.
LEMMA ChosenUpdateFacts ==
  ASSUME Inv, NEW q \in Queues, OnOtherVkQueue(q)
  PROVE  LET f == Current(q).fence
             u == ChosenUpdate(q)
         IN  /\ f \in Fences /\ Has(q, "wait")
             /\ u \in fences[f].pending_updates /\ u \in PendingUpdate
             /\ u.update_count \in 1..fences[f].update_count
             /\ promised[f][u.update_count] \in SUBSET Works
<1> DEFINE f == Current(q).fence
           v == Current(q).value
           u == ChosenUpdate(q)
<1>1. Types /\ CommandsInOrder /\ TicketsStand /\ FencesInOrder
  BY DEF Inv
<1>2. Has(q, "wait") /\ HasTicket(fences[f], Ticket(q)) /\ v <= fences[f].max_pending
  BY DEF OnOtherVkQueue, Materialises, InWait
<1>3. f \in Fences /\ v \in Value
  BY <1>1, <1>2, CurrentFacts
<1>4. PICK x \in fences[f].wait_tickets : x.ticket = Ticket(q)
  BY <1>2 DEF HasTicket
<1>5. x.virtual_value = v
  <2>1. 1 \in DOMAIN submissions[q] /\ Head(submissions[q]) = submissions[q][1]
    BY <1>1, <1>2, CommandFacts DEF Has
  <2> QED
    BY <1>1, <1>2, <1>4, <2>1 DEF TicketsStand, Current, Ticket, Has
<1>6. InOrder(fences[f]) /\ Len(promised[f]) = fences[f].update_count
  BY <1>1, <1>3 DEF FencesInOrder
<1>7. u \in fences[f].pending_updates
  <2>1. u = EarliestUpdate(Satisfying(fences[f], v))
    BY DEF ChosenUpdate
  <2> HIDE DEF f, v, u
  <2> QED
    BY <1>2, <1>3, <1>4, <1>5, <1>6, <2>1, ChosenFacts
<1> HIDE DEF f, v, u
<1>8. /\ u \in PendingUpdate
      /\ fences[f].signal_count \in Nat /\ fences[f].update_count \in Nat
      /\ u.update_count \in fences[f].signal_count + 1 .. fences[f].update_count
  BY <1>6, <1>7, FenceFields DEF InOrder, PendingWindow
<1>9. u.update_count \in 1..fences[f].update_count
  BY <1>8
<1>10. promised[f] \in Seq(SUBSET Works)
  BY <1>1, <1>3 DEF Types
<1>11. promised[f][u.update_count] \in SUBSET Works
  BY <1>6, <1>9, <1>10
<1> QED
  BY <1>2, <1>3, <1>7, <1>8, <1>9, <1>11 DEF f, u

\* So is one of its own VkQueue.
LEMMA OwnUpdateFacts ==
  ASSUME Inv, NEW q \in Queues, Materialises(q),
         NEW u \in SatisfyingOnQueue(fences[Current(q).fence], Current(q).value, VkQueueOf[q])
  PROVE  LET f == Current(q).fence
         IN  /\ f \in Fences /\ Has(q, "wait")
             /\ u \in fences[f].pending_updates /\ u \in PendingUpdate
             /\ u.vk_semaphore = VkQueueOf[q]
             /\ u.update_count \in 1..fences[f].update_count
             /\ promised[f][u.update_count] \in SUBSET Works
<1> DEFINE f == Current(q).fence
<1>1. Types /\ CommandsInOrder /\ FencesInOrder /\ Has(q, "wait")
  BY DEF Inv, Materialises, InWait
<1>2. f \in Fences
  BY <1>1, CurrentFacts
<1>3. u \in fences[f].pending_updates /\ u.vk_semaphore = VkQueueOf[q]
  BY DEF SatisfyingOnQueue, Satisfying
<1> HIDE DEF f
<1>4. InOrder(fences[f]) /\ Len(promised[f]) = fences[f].update_count
  BY <1>1, <1>2 DEF FencesInOrder
<1>5. /\ u \in PendingUpdate
      /\ fences[f].signal_count \in Nat /\ fences[f].update_count \in Nat
      /\ u.update_count \in fences[f].signal_count + 1 .. fences[f].update_count
  BY <1>3, <1>4, FenceFields DEF InOrder, PendingWindow
<1>6. u.update_count \in 1..fences[f].update_count
  BY <1>5
<1>7. promised[f] \in Seq(SUBSET Works)
  BY <1>1, <1>2 DEF Types
<1>8. promised[f][u.update_count] \in SUBSET Works
  BY <1>4, <1>6, <1>7
<1> QED
  BY <1>1, <1>2, <1>3, <1>5, <1>6, <1>8 DEF f

-----------------------------------------------------------------------------
(* What a step does to the VkQueues.                                       *)

\* Waits that are left out have been reached.
LEMMA EliminateFacts ==
  ASSUME Types, NEW w \in Waits
  PROVE  LET e == eliminate_completed(w)
         IN  /\ e \in Waits /\ DOMAIN e \subseteq DOMAIN w /\ DOMAIN w \subseteq VkQueues
             /\ \A x \in DOMAIN e : e[x] = w[x]
             /\ \A x \in DOMAIN w : w[x] \in Nat /\ (x \notin DOMAIN e => timeline[x] >= w[x])
<1>1. PICK D \in SUBSET VkQueues : w \in [D -> Nat]
  BY DEF Waits
<1>2. timeline \in [VkQueues -> Nat]
  BY DEF Types
<1> DEFINE E == {t \in DOMAIN w : w[t] = 0 \/ timeline[t] < w[t]}
           e == [x \in E |-> w[x]]
<1>3. eliminate_completed(w) = e
  BY DEF eliminate_completed, Restrict
<1>4. e \in [E -> Nat] /\ E \in SUBSET VkQueues
  BY <1>1
<1>5. e \in Waits
  <2> HIDE DEF e, E
  <2> QED
    BY <1>4 DEF Waits
<1>6. ASSUME NEW x \in DOMAIN w, x \notin E PROVE timeline[x] >= w[x]
  <2>1. w[x] \in Nat /\ timeline[x] \in Nat
    BY <1>1, <1>2
  <2> QED
    BY <1>6, <2>1
<1> QED
  BY <1>1, <1>3, <1>5, <1>6

LEMMA SubmitFacts ==
  ASSUME Types, TimelinesExact, NEW q \in Queues, NEW waits \in Waits, NEW work \in SUBSET Works,
         submit(q, waits, work)
  PROVE  LET t == VkQueueOf[q]
             v == timeline_count[t] + 1
             L == Len(vk_queue[t])
         IN  /\ t \in VkQueues /\ timeline_count[t] \in Nat /\ L \in Nat
             /\ timeline_count' \in [VkQueues -> Nat] /\ timeline_count'[t] = v
             /\ \A x \in VkQueues : x # t => timeline_count'[x] = timeline_count[x]
             /\ last_value' \in [Queues -> Nat] /\ last_value'[q] = v
             /\ \A r \in Queues : r # q => last_value'[r] = last_value[r]
             /\ vk_queue' \in [VkQueues -> Seq(GpuSubmission)]
             /\ \A x \in VkQueues : x # t => vk_queue'[x] = vk_queue[x]
             /\ DOMAIN vk_queue[t] = 1..L /\ DOMAIN vk_queue'[t] = 1..(L + 1)
             /\ Len(vk_queue'[t]) = L + 1
             /\ \A i \in 1..L : vk_queue'[t][i] = vk_queue[t][i]
             /\ vk_queue'[t][L + 1]
                  = [waits |-> waits, value |-> v, work |-> work, after |-> follows[q]]
<1> DEFINE t == VkQueueOf[q]
           v == timeline_count[t] + 1
           c == [waits |-> waits, value |-> v, work |-> work, after |-> follows[q]]
<1>1. /\ timeline_count \in [VkQueues -> Nat] /\ last_value \in [Queues -> Nat]
      /\ vk_queue \in [VkQueues -> Seq(GpuSubmission)] /\ follows[q] \in SUBSET Works
  BY DEF Types
<1>2. t \in VkQueues
  BY QueuesAssumption
<1>3. v \in Nat /\ timeline_count[t] \in Nat
  BY <1>1, <1>2
<1>4. c \in GpuSubmission
  <2> HIDE DEF v
  <2> QED
    BY <1>1, <1>3 DEF GpuSubmission
<1>5. /\ timeline_count' = [timeline_count EXCEPT ![t] = v]
      /\ last_value' = [last_value EXCEPT ![q] = v]
      /\ vk_queue' = [vk_queue EXCEPT ![t] = Append(vk_queue[t], c)]
  BY DEF submit
<1> HIDE DEF c, v, t
<1>6. vk_queue[t] \in Seq(GpuSubmission)
  BY <1>1, <1>2
<1> DEFINE s == Append(vk_queue[t], c)
<1>7. /\ s \in Seq(GpuSubmission) /\ Len(s) = Len(vk_queue[t]) + 1
      /\ DOMAIN vk_queue[t] = 1..Len(vk_queue[t]) /\ Len(vk_queue[t]) \in Nat
      /\ DOMAIN s = 1..(Len(vk_queue[t]) + 1)
      /\ \A i \in 1..Len(vk_queue[t]) : s[i] = vk_queue[t][i]
      /\ s[Len(vk_queue[t]) + 1] = c
  BY <1>4, <1>6, AppendFacts
<1>8. vk_queue' = [vk_queue EXCEPT ![t] = s]
  BY <1>5
<1> HIDE DEF s
<1>9. /\ vk_queue' \in [VkQueues -> Seq(GpuSubmission)] /\ vk_queue'[t] = s
      /\ \A x \in VkQueues : x # t => vk_queue'[x] = vk_queue[x]
  BY <1>1, <1>2, <1>7, <1>8
<1>10. /\ timeline_count' \in [VkQueues -> Nat] /\ timeline_count'[t] = v
       /\ \A x \in VkQueues : x # t => timeline_count'[x] = timeline_count[x]
  BY <1>1, <1>2, <1>3, <1>5
<1>11. /\ last_value' \in [Queues -> Nat] /\ last_value'[q] = v
       /\ \A r \in Queues : r # q => last_value'[r] = last_value[r]
  BY <1>1, <1>3, <1>5
<1> QED
  BY <1>2, <1>3, <1>7, <1>9, <1>10, <1>11 DEF c, t, v

LEMMA ExecutesFacts ==
  ASSUME Types, TimelinesExact, NEW t \in VkQueues, GpuExecutes(t)
  PROVE  LET L == Len(vk_queue[t])
         IN  /\ L \in Nat \ {0} /\ DOMAIN vk_queue[t] = 1..L /\ 1 \in DOMAIN vk_queue[t]
             /\ Head(vk_queue[t]) = vk_queue[t][1] /\ Head(vk_queue[t]) \in GpuSubmission
             /\ vk_queue[t][1].value = timeline[t] + 1
             /\ timeline' \in [VkQueues -> Nat] /\ timeline'[t] = timeline[t] + 1
             /\ timeline[t] \in Nat
             /\ \A x \in VkQueues : x # t => timeline'[x] = timeline[x]
             /\ vk_queue' \in [VkQueues -> Seq(GpuSubmission)]
             /\ \A x \in VkQueues : x # t => vk_queue'[x] = vk_queue[x]
             /\ DOMAIN vk_queue'[t] = 1..(L - 1) /\ Len(vk_queue'[t]) = L - 1
             /\ \A i \in 1..(L - 1) : vk_queue'[t][i] = vk_queue[t][i + 1]
             /\ completed' = completed \cup vk_queue[t][1].work
             /\ completed' \subseteq Works
             /\ UNCHANGED <<timeline_count, last_value>>
<1> DEFINE s == Tail(vk_queue[t])
<1>1. /\ timeline \in [VkQueues -> Nat] /\ vk_queue \in [VkQueues -> Seq(GpuSubmission)]
      /\ completed \subseteq Works
  BY DEF Types
<1>2. /\ vk_queue[t] # <<>>
      /\ timeline' = [timeline EXCEPT ![t] = Head(vk_queue[t]).value]
      /\ completed' = completed \cup Head(vk_queue[t]).work
      /\ vk_queue' = [vk_queue EXCEPT ![t] = s]
      /\ UNCHANGED <<timeline_count, last_value>>
  BY DEF GpuExecutes, Executable, thread_vars
<1>3. /\ s \in Seq(GpuSubmission) /\ Len(s) = Len(vk_queue[t]) - 1
      /\ Len(vk_queue[t]) \in Nat \ {0} /\ DOMAIN vk_queue[t] = 1..Len(vk_queue[t])
      /\ DOMAIN s = 1..(Len(vk_queue[t]) - 1)
      /\ \A i \in 1..(Len(vk_queue[t]) - 1) : s[i] = vk_queue[t][i + 1]
      /\ Head(vk_queue[t]) = vk_queue[t][1] /\ 1 \in DOMAIN vk_queue[t]
      /\ Head(vk_queue[t]) \in GpuSubmission
  BY <1>1, <1>2, TailFacts
<1> HIDE DEF s
<1>4. /\ vk_queue' \in [VkQueues -> Seq(GpuSubmission)] /\ vk_queue'[t] = s
      /\ \A x \in VkQueues : x # t => vk_queue'[x] = vk_queue[x]
  BY <1>1, <1>2, <1>3
<1>5. vk_queue[t][1].value = timeline[t] + 1 /\ timeline[t] \in Nat
  BY <1>1, <1>3 DEF TimelinesExact
<1>6. /\ timeline' \in [VkQueues -> Nat] /\ timeline'[t] = timeline[t] + 1
      /\ \A x \in VkQueues : x # t => timeline'[x] = timeline[x]
  BY <1>1, <1>2, <1>3, <1>5
<1>7. Head(vk_queue[t]).work \subseteq Works
  BY <1>3 DEF GpuSubmission
<1> QED
  BY <1>1, <1>2, <1>3, <1>4, <1>5, <1>6, <1>7

GpuQuiet == UNCHANGED <<timeline_count, vk_queue, timeline, completed, last_value>>

Submits(q, waits, work) ==
  /\ thread[q] = "ready" /\ waits = eliminate_completed(wait_semaphores[q])
  /\ submit(q, waits, work)
  /\ UNCHANGED <<timeline, completed>>

LEMMA GpuStep ==
  ASSUME Inv, Next
  PROVE  \/ GpuQuiet
         \/ \E q \in Queues, waits \in Waits, work \in SUBSET Works : Submits(q, waits, work)
         \/ \E t \in VkQueues : GpuExecutes(t)
<1>1. Types /\ CommandsInOrder
  BY DEF Inv
<1>2. ASSUME NEW q \in Queues, Application(q) PROVE GpuQuiet
  BY <1>2 DEF Application, ApiExecute, ApiSignal, ApiWait, ApiCpuSignal, ApiRelease,
              gpu_vars, history, GpuQuiet
<1>3. ASSUME NEW q \in Queues, FenceWorker(q) PROVE GpuQuiet
  BY <1>3 DEF FenceWorker, RetireSignal, RetireOrder, RetireRelease,
              thread_vars, gpu_vars, history, GpuQuiet
<1>4. ASSUME NEW q \in Queues, SubmissionThread(q)
      PROVE  GpuQuiet \/ \E waits \in Waits, work \in SUBSET Works : Submits(q, waits, work)
  <2>1. wait_semaphores[q] \in Waits
    BY <1>1 DEF Types
  <2>2. eliminate_completed(wait_semaphores[q]) \in Waits
    BY <1>1, <2>1, EliminateFacts
  <2>3. CASE FlushWaiters(q)
    <3>1. {} \in SUBSET Works
      OBVIOUS
    <3>2. CASE UNCHANGED <<timeline_count, last_value, vk_queue>>
      BY <2>3, <3>2 DEF FlushWaiters, history, GpuQuiet
    <3>3. CASE submit(q, eliminate_completed(wait_semaphores[q]), {})
      BY <2>2, <2>3, <3>1, <3>3 DEF FlushWaiters, history, Submits
    <3> QED
      BY <2>3, <3>2, <3>3 DEF FlushWaiters
  <2>4. CASE Execute(q)
    <3>1. <<q, Head(submissions[q]).id>> \in Works
      BY <1>1, <2>4, CommandFacts DEF Execute, Has
    <3>2. {<<q, Head(submissions[q]).id>>} \in SUBSET Works
      BY <3>1
    <3>3. Submits(q, eliminate_completed(wait_semaphores[q]), {<<q, Head(submissions[q]).id>>})
      BY <2>4 DEF Execute, Submits
    <3> QED
      BY <2>2, <3>2, <3>3
  <2>5. CASE ~FlushWaiters(q) /\ ~Execute(q)
    BY <1>4, <2>5
      DEF SubmissionThread, WaitAlreadySatisfied, WaitSleeps, WaitOnOwnVkQueue, WaitDeferred,
          WaitOnCpu, CpuWaitReturns, SignalFence, gpu_vars, history, GpuQuiet
  <2> QED
    BY <2>3, <2>4, <2>5
<1> QED
  BY <1>2, <1>3, <1>4 DEF Next

LEMMA TimelinesStayExact ==
  ASSUME Inv, Next
  PROVE  /\ TimelinesExact'
         /\ timeline_count' \in [VkQueues -> Nat] /\ timeline' \in [VkQueues -> Nat]
         /\ last_value' \in [Queues -> Nat]
         /\ vk_queue' \in [VkQueues -> Seq(GpuSubmission)]
         /\ completed' \subseteq Works
<1>1. Types /\ TimelinesExact
  BY DEF Inv
<1>2. /\ timeline_count \in [VkQueues -> Nat] /\ timeline \in [VkQueues -> Nat]
      /\ last_value \in [Queues -> Nat] /\ vk_queue \in [VkQueues -> Seq(GpuSubmission)]
      /\ completed \subseteq Works
      /\ \A r \in Queues : VkQueueOf[r] \in VkQueues
  BY <1>1, QueuesAssumption DEF Types
<1>3. CASE GpuQuiet
  BY <1>1, <1>2, <1>3 DEF GpuQuiet, TimelinesExact
<1>4. ASSUME NEW q \in Queues, NEW waits \in Waits, NEW work \in SUBSET Works,
             Submits(q, waits, work)
      PROVE  /\ TimelinesExact'
             /\ timeline_count' \in [VkQueues -> Nat] /\ timeline' \in [VkQueues -> Nat]
             /\ last_value' \in [Queues -> Nat]
             /\ vk_queue' \in [VkQueues -> Seq(GpuSubmission)]
             /\ completed' \subseteq Works
  <2> DEFINE t == VkQueueOf[q]
             L == Len(vk_queue[t])
             v == timeline_count[t] + 1
  <2>1. /\ t \in VkQueues /\ timeline_count[t] \in Nat /\ L \in Nat
        /\ timeline_count' \in [VkQueues -> Nat] /\ timeline_count'[t] = v
        /\ \A x \in VkQueues : x # t => timeline_count'[x] = timeline_count[x]
        /\ last_value' \in [Queues -> Nat] /\ last_value'[q] = v
        /\ \A r \in Queues : r # q => last_value'[r] = last_value[r]
        /\ vk_queue' \in [VkQueues -> Seq(GpuSubmission)]
        /\ \A x \in VkQueues : x # t => vk_queue'[x] = vk_queue[x]
        /\ DOMAIN vk_queue[t] = 1..L /\ DOMAIN vk_queue'[t] = 1..(L + 1)
        /\ Len(vk_queue'[t]) = L + 1
        /\ \A i \in 1..L : vk_queue'[t][i] = vk_queue[t][i]
        /\ vk_queue'[t][L + 1].value = v
        /\ timeline' = timeline /\ completed' = completed
    <3>1. timeline' = timeline /\ completed' = completed /\ submit(q, waits, work)
      BY <1>4 DEF Submits
    <3>2. vk_queue'[t][L + 1]
            = [waits |-> waits, value |-> v, work |-> work, after |-> follows[q]]
      BY <1>1, <3>1, SubmitFacts
    <3>3. vk_queue'[t][L + 1].value = v
      BY <3>2
    <3> QED
      BY <1>1, <3>1, <3>3, SubmitFacts
  <2>2. /\ timeline_count[t] = timeline[t] + L
        /\ \A i \in 1..L : vk_queue[t][i].value = timeline[t] + i
        /\ timeline[t] \in Nat
    BY <1>1, <1>2, <2>1 DEF TimelinesExact
  <2> HIDE DEF t, L
  <2>3. ASSUME NEW x \in VkQueues
        PROVE  /\ timeline_count'[x] = timeline'[x] + Len(vk_queue'[x])
               /\ \A i \in DOMAIN vk_queue'[x] : vk_queue'[x][i].value = timeline'[x] + i
    <3>1. CASE x # t
      BY <1>1, <2>1, <3>1 DEF TimelinesExact
    <3>2. CASE x = t
      <4>1. timeline_count'[t] = timeline[t] + (L + 1)
        BY <2>1, <2>2
      <4>2. \A i \in DOMAIN vk_queue'[t] : vk_queue'[t][i].value = timeline[t] + i
        <5> SUFFICES ASSUME NEW i \in DOMAIN vk_queue'[t]
                     PROVE  vk_queue'[t][i].value = timeline[t] + i
          OBVIOUS
        <5>1. CASE i \in 1..L
          BY <2>1, <2>2, <5>1
        <5>2. CASE i = L + 1
          BY <2>1, <2>2, <5>2
        <5> QED
          BY <2>1, <5>1, <5>2
      <4> QED
        BY <2>1, <3>2, <4>1, <4>2
    <3> QED
      BY <3>1, <3>2
  <2>4. ASSUME NEW r \in Queues PROVE last_value'[r] <= timeline_count'[VkQueueOf[r]]
    <3>1. /\ VkQueueOf[r] \in VkQueues /\ last_value[r] \in Nat
          /\ last_value[r] <= timeline_count[VkQueueOf[r]]
          /\ timeline_count[VkQueueOf[r]] \in Nat
      BY <1>1, <1>2 DEF TimelinesExact
    <3>2. timeline_count[VkQueueOf[r]] <= timeline_count'[VkQueueOf[r]]
      <4>1. CASE VkQueueOf[r] = t
        BY <2>1, <4>1
      <4>2. CASE VkQueueOf[r] # t
        BY <2>1, <3>1, <4>2
      <4> QED
        BY <4>1, <4>2
    <3>3. CASE r # q
      BY <2>1, <3>1, <3>2, <3>3
    <3>4. CASE r = q
      BY <2>1, <3>4 DEF t
    <3> QED
      BY <3>3, <3>4
  <2> QED
    BY <1>2, <2>1, <2>3, <2>4 DEF TimelinesExact
<1>5. ASSUME NEW t \in VkQueues, GpuExecutes(t)
      PROVE  /\ TimelinesExact'
             /\ timeline_count' \in [VkQueues -> Nat] /\ timeline' \in [VkQueues -> Nat]
             /\ last_value' \in [Queues -> Nat]
             /\ vk_queue' \in [VkQueues -> Seq(GpuSubmission)]
             /\ completed' \subseteq Works
  <2> DEFINE L == Len(vk_queue[t])
  <2>1. /\ L \in Nat \ {0} /\ DOMAIN vk_queue[t] = 1..L
        /\ timeline' \in [VkQueues -> Nat] /\ timeline'[t] = timeline[t] + 1
        /\ timeline[t] \in Nat
        /\ \A x \in VkQueues : x # t => timeline'[x] = timeline[x]
        /\ vk_queue' \in [VkQueues -> Seq(GpuSubmission)]
        /\ \A x \in VkQueues : x # t => vk_queue'[x] = vk_queue[x]
        /\ DOMAIN vk_queue'[t] = 1..(L - 1) /\ Len(vk_queue'[t]) = L - 1
        /\ \A i \in 1..(L - 1) : vk_queue'[t][i] = vk_queue[t][i + 1]
        /\ completed' \subseteq Works
        /\ UNCHANGED <<timeline_count, last_value>>
    BY <1>1, <1>5, ExecutesFacts
  <2>2. /\ timeline_count[t] = timeline[t] + L
        /\ \A i \in 1..L : vk_queue[t][i].value = timeline[t] + i
    BY <1>1, <2>1 DEF TimelinesExact
  <2> HIDE DEF L
  <2>3. ASSUME NEW x \in VkQueues
        PROVE  /\ timeline_count'[x] = timeline'[x] + Len(vk_queue'[x])
               /\ \A i \in DOMAIN vk_queue'[x] : vk_queue'[x][i].value = timeline'[x] + i
    <3>1. CASE x # t
      BY <1>1, <2>1, <3>1 DEF TimelinesExact
    <3>2. CASE x = t
      <4>1. timeline_count'[t] = timeline'[t] + (L - 1)
        BY <2>1, <2>2
      <4>2. \A i \in DOMAIN vk_queue'[t] : vk_queue'[t][i].value = timeline'[t] + i
        <5> SUFFICES ASSUME NEW i \in DOMAIN vk_queue'[t]
                     PROVE  vk_queue'[t][i].value = timeline'[t] + i
          OBVIOUS
        <5>1. i + 1 \in 1..L /\ i \in Nat /\ vk_queue'[t][i] = vk_queue[t][i + 1]
          BY <2>1
        <5>2. vk_queue[t][i + 1].value = timeline[t] + (i + 1)
          BY <2>2, <5>1
        <5>3. timeline'[t] + i = timeline[t] + (i + 1)
          <6>1. timeline'[t] = timeline[t] + 1 /\ timeline[t] \in Nat
            BY <2>1
          <6> QED
            BY <5>1, <6>1
        <5> QED
          BY <5>1, <5>2, <5>3
      <4> QED
        BY <2>1, <3>2, <4>1, <4>2
    <3> QED
      BY <3>1, <3>2
  <2>4. \A r \in Queues : last_value'[r] <= timeline_count'[VkQueueOf[r]]
    BY <1>1, <2>1 DEF TimelinesExact
  <2> QED
    BY <1>2, <2>1, <2>3, <2>4 DEF TimelinesExact
<1> QED
  BY <1>3, <1>4, <1>5, GpuStep

-----------------------------------------------------------------------------
(* What a step does to a submission thread.                                *)

\* The thread of q stays at the command it is at.
Stays(q) ==
  submissions[q] # <<>> =>
    submissions'[q] # <<>> /\ Head(submissions'[q]) = Head(submissions[q])

LEMMA QueuedStays ==
  ASSUME Types, CommandsInOrder, NEW q \in Queues, NEW ticket \in Nat, Queued(q, ticket)
  PROVE  \A r \in Queues : Stays(r)
<1>1. \A r \in Queues : r # q => submissions'[r] = submissions[r]
  BY QueuedFacts
<1>2. ASSUME submissions[q] # <<>>
      PROVE  submissions'[q] # <<>> /\ Head(submissions'[q]) = Head(submissions[q])
  <2>1. /\ Head(submissions[q]) = submissions[q][1] /\ 1 \in DOMAIN submissions[q]
        /\ Len(submissions[q]) \in Nat
    BY <1>2, CommandFacts
  <2>2. /\ DOMAIN submissions'[q] = 1..(Len(submissions[q]) + 1)
        /\ submissions'[q] \in Seq(Command)
        /\ submissions'[q][1] = submissions[q][1]
    BY <2>1, QueuedFacts
  <2>3. submissions'[q] # <<>>
    <3>1. 1 \in DOMAIN submissions'[q]
      BY <2>1, <2>2
    <3> QED
      BY <3>1
  <2> QED
    BY <2>1, <2>2, <2>3, TailFacts
<1> QED
  BY <1>1, <1>2 DEF Stays

LEMMA ApplicationStays ==
  ASSUME Inv, Next, NEW q \in Queues, Application(q)
  PROVE  \A r \in Queues : Stays(r)
<1>1. Types /\ CommandsInOrder /\ next[q] \in Nat
  BY DEF Inv, Types
<1>2. next'[q] # next[q]
  <2>1. \E type : Calls(q, type)
    BY DEF Application, ApiExecute, ApiSignal, ApiWait, ApiCpuSignal, ApiRelease
  <2>2. next \in [Queues -> Nat \ {0}]
    BY <1>1 DEF Types
  <2> QED
    BY <1>1, <2>1, <2>2 DEF Calls
<1>3. PICK r \in Queues : (\E ticket \in Nat : Queued(r, ticket)) \/ Skipped(r) \/ Finished(r)
  BY <1>2, CommandStep
<1>4. CASE \E ticket \in Nat : Queued(r, ticket)
  BY <1>1, <1>4, QueuedStays
<1>5. CASE Skipped(r)
  BY <1>5 DEF Skipped, Stays
<1>6. CASE Finished(r)
  BY <1>2, <1>6 DEF Finished
<1> QED
  BY <1>3, <1>4, <1>5, <1>6

LEMMA FinishStays ==
  ASSUME Types, NEW q \in Queues, Finish(q)
  PROVE  \A r \in Queues : r # q => Stays(r)
BY DEF Types, Finish, Stays

LEMMA WokenFacts ==
  ASSUME Types, NEW f
  PROVE  /\ Woken(f) \in [Queues -> {"ready", "asleep", "awake", "cpu_wait", "flushed"}]
         /\ \A r \in Queues :
              \/ Woken(f)[r] = thread[r]
              \/ thread[r] = "asleep" /\ Woken(f)[r] = "awake"
BY DEF Types, Woken

\* Where the thread of r is after a step.
Rests(r) ==
  /\ Stays(r) /\ wait_semaphores'[r] = wait_semaphores[r] /\ cpu_until'[r] = cpu_until[r]
  /\ \/ thread'[r] = thread[r]
     \/ thread[r] = "asleep" /\ thread'[r] = "awake"

Moves(r) ==
  \/ thread'[r] = "ready" /\ cpu_until'[r] = Nothing
  \/ thread'[r] = "asleep" /\ cpu_until'[r] = Nothing /\ Stays(r) /\ Has(r, "wait")
  \/ thread'[r] = "cpu_wait" /\ Stays(r) /\ Has(r, "wait")
  \/ /\ thread'[r] = "flushed" /\ cpu_until'[r] = Nothing
     /\ Stays(r) /\ Has(r, "signal") /\ wait_semaphores'[r] = NoSemaphores

LEMMA ThreadStep ==
  ASSUME Inv, Next
  PROVE  \A r \in Queues : Rests(r) \/ Moves(r)
<1>1. Types /\ CommandsInOrder /\ ThreadsAtWork
  BY DEF Inv
<1>2. /\ thread \in [Queues -> {"ready", "asleep", "awake", "cpu_wait", "flushed"}]
      /\ cpu_until \in [Queues -> SemaphoreValue] /\ wait_semaphores \in [Queues -> Waits]
  BY <1>1 DEF Types
<1>3. ASSUME NEW q \in Queues, Application(q) PROVE \A r \in Queues : Rests(r)
  <2>1. UNCHANGED <<cpu_until, wait_semaphores>>
    BY <1>3 DEF Application, ApiExecute, ApiSignal, ApiWait, ApiCpuSignal, ApiRelease
  <2>2. thread' = thread \/ \E f : thread' = Woken(f)
    BY <1>3 DEF Application, ApiExecute, ApiSignal, ApiWait, ApiCpuSignal, ApiRelease
  <2> QED
    BY <1>1, <1>3, <2>1, <2>2, WokenFacts, ApplicationStays DEF Rests
<1>4. ASSUME NEW q \in Queues, FenceWorker(q) PROVE \A r \in Queues : Rests(r)
  <2>1. UNCHANGED <<submissions, cpu_until, wait_semaphores>>
    BY <1>4 DEF FenceWorker, RetireSignal, RetireOrder, RetireRelease, thread_vars
  <2>2. thread' = thread \/ \E f : thread' = Woken(f)
    BY <1>4 DEF FenceWorker, RetireSignal, RetireOrder, RetireRelease, thread_vars
  <2> QED
    BY <1>1, <2>1, <2>2, WokenFacts DEF Rests, Stays
<1>5. ASSUME NEW t \in VkQueues, GpuExecutes(t) PROVE \A r \in Queues : Rests(r)
  BY <1>5 DEF GpuExecutes, thread_vars, Rests, Stays
<1>6. ASSUME NEW q \in Queues, SubmissionThread(q)
      PROVE  \A r \in Queues : Rests(r) \/ Moves(r)
  <2>0. thread[q] # "cpu_wait" => cpu_until[q] = Nothing
    BY <1>1 DEF ThreadsAtWork
  <2>1. CASE WaitAlreadySatisfied(q)
    BY <1>1, <1>2, <2>0, <2>1, FinishStays
      DEF WaitAlreadySatisfied, InWait, Rests, Moves
  <2>2. CASE WaitSleeps(q)
    BY <1>1, <1>2, <2>0, <2>2 DEF WaitSleeps, InWait, Rests, Moves, Stays
  <2>3. CASE WaitOnOwnVkQueue(q)
    BY <1>1, <1>2, <2>0, <2>3, FinishStays
      DEF WaitOnOwnVkQueue, Materialises, InWait, Rests, Moves
  <2>4. CASE WaitDeferred(q)
    <3>1. /\ Finish(q) /\ thread' = [thread EXCEPT ![q] = "ready"] /\ cpu_until' = cpu_until
          /\ thread[q] # "cpu_wait"
      BY <2>4 DEF WaitDeferred, OnOtherVkQueue, Materialises, InWait
    <3>2. \A r \in Queues : r # q => wait_semaphores'[r] = wait_semaphores[r]
      BY <1>2, <2>4 DEF WaitDeferred
    <3> QED
      BY <1>1, <1>2, <2>0, <3>1, <3>2, FinishStays DEF Rests, Moves
  <2>5. CASE WaitOnCpu(q)
    <3>1. /\ thread' = [thread EXCEPT ![q] = "cpu_wait"] /\ Has(q, "wait")
          /\ UNCHANGED <<submissions, wait_semaphores>>
      BY <2>5 DEF WaitOnCpu, OnOtherVkQueue, Materialises, InWait
    <3>2. \A r \in Queues : r # q => cpu_until'[r] = cpu_until[r]
      BY <1>2, <2>5 DEF WaitOnCpu
    <3> QED
      BY <1>1, <1>2, <3>1, <3>2 DEF Rests, Moves, Stays
  <2>6. CASE CpuWaitReturns(q)
    BY <1>1, <1>2, <2>6, FinishStays DEF CpuWaitReturns, Rests, Moves
  <2>7. CASE FlushWaiters(q)
    <3>1. /\ thread' = [thread EXCEPT ![q] = "flushed"] /\ Has(q, "signal")
          /\ wait_semaphores' = [wait_semaphores EXCEPT ![q] = NoSemaphores]
          /\ UNCHANGED <<submissions, cpu_until>> /\ thread[q] = "ready"
      BY <2>7 DEF FlushWaiters, finalize_waits
    <3> QED
      BY <1>1, <1>2, <2>0, <3>1 DEF Rests, Moves, Stays
  <2>8. CASE SignalFence(q)
    <3> DEFINE W == Woken(Current(q).fence)
    <3>1. /\ thread' = [W EXCEPT ![q] = "ready"] /\ Finish(q)
          /\ UNCHANGED <<cpu_until, wait_semaphores>> /\ thread[q] # "cpu_wait"
      BY <2>8 DEF SignalFence
    <3>2. /\ W \in [Queues -> {"ready", "asleep", "awake", "cpu_wait", "flushed"}]
          /\ \A r \in Queues : \/ W[r] = thread[r]
                               \/ thread[r] = "asleep" /\ W[r] = "awake"
      BY <1>1, WokenFacts
    <3> HIDE DEF W
    <3>3. thread'[q] = "ready" /\ \A r \in Queues : r # q => thread'[r] = W[r]
      BY <3>1, <3>2
    <3> QED
      BY <1>1, <2>0, <3>1, <3>2, <3>3, FinishStays DEF Rests, Moves
  <2>9. CASE Execute(q)
    <3>1. /\ Finish(q) /\ UNCHANGED <<thread, cpu_until>> /\ thread[q] = "ready"
      BY <2>9 DEF Execute
    <3>2. \A r \in Queues : r # q => wait_semaphores'[r] = wait_semaphores[r]
      BY <1>2, <2>9 DEF Execute, finalize_waits
    <3> QED
      BY <1>1, <1>2, <2>0, <3>1, <3>2, FinishStays DEF Rests, Moves
  <2> QED
    BY <1>6, <2>1, <2>2, <2>3, <2>4, <2>5, <2>6, <2>7, <2>8, <2>9 DEF SubmissionThread
<1> QED
  BY <1>3, <1>4, <1>5, <1>6 DEF Next

LEMMA ThreadsStayAtWork ==
  ASSUME Inv, Next
  PROVE  ThreadsAtWork'
<1>1. ThreadsAtWork /\ program' = program
  BY CommandStep DEF Inv
<1>2. ASSUME NEW r \in Queues, NEW type, Has(r, type), Stays(r) PROVE Has(r, type)'
  BY <1>1, <1>2 DEF Has, Stays
<1>3. ASSUME NEW r \in Queues
      PROVE  /\ thread'[r] \in {"asleep", "awake", "cpu_wait"} => Has(r, "wait")'
             /\ thread'[r] = "flushed" => Has(r, "signal")' /\ wait_semaphores'[r] = NoSemaphores
             /\ thread'[r] # "cpu_wait" => cpu_until'[r] = Nothing
  <2>1. CASE Rests(r)
    BY <1>1, <1>2, <2>1 DEF Rests, ThreadsAtWork
  <2>2. CASE Moves(r)
    BY <1>2, <2>2 DEF Moves
  <2> QED
    BY <2>1, <2>2, ThreadStep
<1> QED
  BY <1>3 DEF ThreadsAtWork, Nothing, NoSemaphores

-----------------------------------------------------------------------------
(* Semaphore values to wait for.                                           *)

\* What was waited for before is still waited for, and the new value as well.
LEMMA AddWaitFacts ==
  ASSUME NEW w \in Waits, NEW t \in VkQueues, NEW v \in Nat
  PROVE  LET a == add_wait_semaphore(w, t, v)
         IN  /\ a \in Waits /\ DOMAIN a = DOMAIN w \cup {t}
             /\ DOMAIN a \subseteq VkQueues
             /\ \A x \in DOMAIN w : w[x] \in Nat /\ a[x] \in Nat /\ w[x] <= a[x]
             /\ a[t] \in Nat /\ v <= a[t]
<1>1. PICK D \in SUBSET VkQueues : w \in [D -> Nat]
  BY DEF Waits
<1> DEFINE a == add_wait_semaphore(w, t, v)
<1>2. ASSUME NEW m \in Nat, NEW n \in Nat
      PROVE  Max({m, n}) \in Nat /\ m <= Max({m, n}) /\ n <= Max({m, n})
  <2>1. \E x \in {m, n} : \A y \in {m, n} : x >= y
    BY <1>2
  <2>2. Max({m, n}) \in {m, n} /\ \A y \in {m, n} : Max({m, n}) >= y
    BY <2>1 DEF Max
  <2> QED
    BY <1>2, <2>2
<1>3. DOMAIN a = D \cup {t} /\ DOMAIN w = D
  BY <1>1 DEF add_wait_semaphore
<1>4. \A x \in D \cup {t} :
        a[x] = IF x # t THEN w[x] ELSE IF t \in D THEN Max({w[t], v}) ELSE v
  BY <1>1 DEF add_wait_semaphore
<1>5. a = [x \in D \cup {t} |-> a[x]]
  BY <1>1 DEF add_wait_semaphore
<1> HIDE DEF a
<1>6. \A x \in D \cup {t} : a[x] \in Nat
  BY <1>1, <1>2, <1>4
<1>7. a \in [D \cup {t} -> Nat] /\ D \cup {t} \in SUBSET VkQueues
  BY <1>5, <1>6
<1>8. a \in Waits
  BY <1>7 DEF Waits
<1>9. ASSUME NEW x \in D PROVE w[x] \in Nat /\ a[x] \in Nat /\ w[x] <= a[x]
  BY <1>1, <1>2, <1>4, <1>9
<1>10. a[t] \in Nat /\ v <= a[t]
  <2>1. CASE t \in D
    BY <1>1, <1>2, <1>4, <2>1
  <2>2. CASE t \notin D
    BY <1>4, <2>2
  <2> QED
    BY <2>1, <2>2
<1> QED
  BY <1>3, <1>7, <1>8, <1>9, <1>10 DEF a

-----------------------------------------------------------------------------
(* What a step does to a fence worker.                                     *)

LEMMA OrderEntryType ==
  ASSUME NEW f \in Fences, NEW n \in Nat
  PROVE  OrderEntry(f, n) \in Entry /\ OrderEntry(f, n).type = "order"
BY DEF OrderEntry, Entry

LEMMA SignalEntryType ==
  ASSUME NEW f \in Fences, NEW n \in Nat, NEW t \in VkQueues, NEW v \in Nat
  PROVE  SignalEntry(f, n, t, v) \in Entry /\ SignalEntry(f, n, t, v).type = "signal"
BY DEF SignalEntry, Entry

LEMMA ReleaseEntryType ==
  ASSUME NEW id \in Nat, NEW t \in VkQueues, NEW v \in Nat
  PROVE  ReleaseEntry(id, t, v) \in Entry /\ ReleaseEntry(id, t, v).type = "release"
BY DEF ReleaseEntry, Entry

LEMMA OrderEntriesType ==
  ASSUME Types, NEW q \in Queues
  PROVE  /\ OrderEntries(q) \in Seq(Entry)
         /\ \A i \in DOMAIN OrderEntries(q) : OrderEntries(q)[i].type = "order"
<1> DEFINE w == wait_fences[q]
<1>1. w \in Seq([fence : Fences, update_count : Nat])
  BY DEF Types
<1> HIDE DEF w
<1>2. /\ DOMAIN w = 1..Len(w) /\ Len(w) \in Nat
      /\ \A i \in DOMAIN w : w[i] \in [fence : Fences, update_count : Nat]
  BY <1>1, LenProperties
<1>3. \A i \in DOMAIN w : w[i].fence \in Fences /\ w[i].update_count \in Nat
  BY <1>2
<1>4. OrderEntries(q) = [i \in 1..Len(w) |-> OrderEntry(w[i].fence, w[i].update_count)]
  BY <1>2 DEF OrderEntries, w
<1>5. \A i \in 1..Len(w) : /\ OrderEntry(w[i].fence, w[i].update_count) \in Entry
                            /\ OrderEntry(w[i].fence, w[i].update_count).type = "order"
  BY <1>2, <1>3, OrderEntryType
<1>6. OrderEntries(q) \in [1..Len(w) -> Entry]
  BY <1>4, <1>5
<1> QED
  BY <1>2, <1>4, <1>5, <1>6

\* The entries of a worker are old ones, or not signals.
KeepsSignals(q) ==
  /\ worker'[q] \in Seq(Entry)
  /\ \A i \in DOMAIN worker'[q] : worker'[q][i].type = "signal" =>
       \E j \in DOMAIN worker[q] : worker'[q][i] = worker[q][j]

WorkerOf(q) ==
  worker' \in [Queues -> Seq(Entry)] /\ \A r \in Queues \ {q} : worker'[r] = worker[r]

LEMMA WorkerUnchanged ==
  ASSUME Types, worker' = worker, NEW q \in Queues
  PROVE  WorkerOf(q) /\ KeepsSignals(q)
BY DEF Types, WorkerOf, KeepsSignals

LEMMA EnqueueKeepsSignals ==
  ASSUME Types, NEW q \in Queues, NEW e \in Entry, worker' = enqueue(worker, q, e)
  PROVE  /\ WorkerOf(q)
         /\ e.type # "signal" => KeepsSignals(q)
         /\ \A i \in DOMAIN worker'[q] :
              worker'[q][i] = e \/ \E j \in DOMAIN worker[q] : worker'[q][i] = worker[q][j]
<1>1. worker \in [Queues -> Seq(Entry)] /\ worker[q] \in Seq(Entry)
  BY DEF Types
<1> DEFINE s == Append(worker[q], e)
<1>2. /\ s \in Seq(Entry) /\ DOMAIN worker[q] = 1..Len(worker[q])
      /\ DOMAIN s = 1..(Len(worker[q]) + 1)
      /\ Len(worker[q]) \in Nat
      /\ \A i \in 1..Len(worker[q]) : s[i] = worker[q][i]
      /\ s[Len(worker[q]) + 1] = e
  BY <1>1, AppendFacts
<1>3. worker' = [worker EXCEPT ![q] = s]
  BY DEF enqueue
<1> HIDE DEF s
<1>4. worker'[q] = s /\ worker' \in [Queues -> Seq(Entry)]
      /\ \A r \in Queues \ {q} : worker'[r] = worker[r]
  BY <1>1, <1>2, <1>3
<1>5. \A i \in DOMAIN s : s[i] = e \/ \E j \in DOMAIN worker[q] : s[i] = worker[q][j]
  <2> SUFFICES ASSUME NEW i \in DOMAIN s, i # Len(worker[q]) + 1
               PROVE  \E j \in DOMAIN worker[q] : s[i] = worker[q][j]
    BY <1>2
  <2>1. i \in DOMAIN worker[q]
    BY <1>2
  <2> QED
    BY <1>2, <2>1
<1> QED
  BY <1>2, <1>4, <1>5 DEF WorkerOf, KeepsSignals

LEMMA RetireKeepsSignals ==
  ASSUME Types, NEW q \in Queues, NEW type, Retire(q, type)
  PROVE  WorkerOf(q) /\ KeepsSignals(q)
<1>1. worker \in [Queues -> Seq(Entry)] /\ worker[q] \in Seq(Entry) /\ worker[q] # <<>>
  BY DEF Types, Retire
<1> DEFINE s == Tail(worker[q])
<1>2. /\ s \in Seq(Entry) /\ DOMAIN worker[q] = 1..Len(worker[q])
      /\ DOMAIN s = 1..(Len(worker[q]) - 1)
      /\ Len(worker[q]) \in Nat
      /\ \A i \in 1..(Len(worker[q]) - 1) : s[i] = worker[q][i + 1]
  BY <1>1, TailFacts
<1>3. worker' = [worker EXCEPT ![q] = s]
  BY DEF Retire
<1> HIDE DEF s
<1>4. worker'[q] = s /\ worker' \in [Queues -> Seq(Entry)]
      /\ \A r \in Queues \ {q} : worker'[r] = worker[r]
  BY <1>1, <1>2, <1>3
<1>5. ASSUME NEW i \in DOMAIN s PROVE \E j \in DOMAIN worker[q] : s[i] = worker[q][j]
  <2>1. i + 1 \in DOMAIN worker[q] /\ s[i] = worker[q][i + 1]
    BY <1>2
  <2> QED
    BY <2>1
<1> QED
  BY <1>2, <1>4, <1>5 DEF WorkerOf, KeepsSignals

LEMMA FinalizeKeepsSignals ==
  ASSUME Types, NEW q \in Queues, NEW entries \in Seq(Entry),
         \A i \in DOMAIN entries : entries[i].type # "signal",
         finalize_waits(q, entries)
  PROVE  WorkerOf(q) /\ KeepsSignals(q)
<1>1. worker \in [Queues -> Seq(Entry)] /\ worker[q] \in Seq(Entry)
  BY DEF Types
<1> DEFINE o == OrderEntries(q)
           s == worker[q] \o o
           z == s \o entries
<1>2. o \in Seq(Entry) /\ \A i \in DOMAIN o : o[i].type # "signal"
  BY OrderEntriesType
<1>3. worker' = [worker EXCEPT ![q] = z]
  BY DEF finalize_waits
<1> HIDE DEF o
<1>4. /\ s \in Seq(Entry)
      /\ \A i \in DOMAIN s : \/ i \in DOMAIN worker[q] /\ s[i] = worker[q][i]
                             \/ \E j \in DOMAIN o : s[i] = o[j]
  BY <1>1, <1>2, ConcatFacts
<1> HIDE DEF s
<1>5. /\ z \in Seq(Entry)
      /\ \A i \in DOMAIN z : \/ i \in DOMAIN s /\ z[i] = s[i]
                             \/ \E j \in DOMAIN entries : z[i] = entries[j]
  BY <1>4, ConcatFacts
<1> HIDE DEF z
<1>6. worker'[q] = z /\ worker' \in [Queues -> Seq(Entry)]
      /\ \A r \in Queues \ {q} : worker'[r] = worker[r]
  BY <1>1, <1>3, <1>5
<1>7. \A i \in DOMAIN z : z[i].type = "signal" => \E j \in DOMAIN worker[q] : z[i] = worker[q][j]
  BY <1>2, <1>4, <1>5
<1> QED
  BY <1>5, <1>6, <1>7 DEF WorkerOf, KeepsSignals

LEMMA WorkerStep ==
  ASSUME Inv, Next
  PROVE  \/ worker' = worker
         \/ \E q \in Queues : WorkerOf(q) /\ KeepsSignals(q)
         \/ \E q \in Queues :
              /\ WorkerOf(q) /\ SignalFence(q)
              /\ \A i \in DOMAIN worker'[q] :
                   \/ \E j \in DOMAIN worker[q] : worker'[q][i] = worker[q][j]
                   \/ worker'[q][i] = SignalEntry(Current(q).fence,
                                        fences'[Current(q).fence].update_count,
                                        VkQueueOf[q], last_value[q])
<1>1. Types /\ CommandsInOrder /\ TimelinesExact
  BY DEF Inv
<1>2. ASSUME NEW q \in Queues, Application(q) PROVE worker' = worker
  BY <1>2 DEF Application, ApiExecute, ApiSignal, ApiWait, ApiCpuSignal, ApiRelease
<1>3. ASSUME NEW q \in Queues, FenceWorker(q) PROVE WorkerOf(q) /\ KeepsSignals(q)
  <2>1. \E type : Retire(q, type)
    BY <1>3 DEF FenceWorker, RetireSignal, RetireOrder, RetireRelease
  <2> QED
    BY <1>1, <2>1, RetireKeepsSignals
<1>4. ASSUME NEW t \in VkQueues, GpuExecutes(t) PROVE worker' = worker
  BY <1>4 DEF GpuExecutes
<1>5. ASSUME NEW q \in Queues, NEW e \in Entry, worker' = enqueue(worker, q, e), e.type # "signal"
      PROVE  WorkerOf(q) /\ KeepsSignals(q)
  BY <1>1, <1>5, EnqueueKeepsSignals
<1>6. ASSUME NEW q \in Queues, SubmissionThread(q), ~SignalFence(q)
      PROVE  worker' = worker \/ (WorkerOf(q) /\ KeepsSignals(q))
  <2>1. CASE WaitAlreadySatisfied(q)
    BY <2>1 DEF WaitAlreadySatisfied
  <2>2. CASE WaitSleeps(q)
    BY <2>2 DEF WaitSleeps
  <2>3. CASE WaitOnOwnVkQueue(q)
    <3> DEFINE f == Current(q).fence
    <3>1. Materialises(q)
      BY <2>3 DEF WaitOnOwnVkQueue
    <3>2. PICK u \in SatisfyingOnQueue(fences[f], Current(q).value, VkQueueOf[q]) :
             worker' = enqueue(worker, q, OrderEntry(f, u.update_count))
      BY <2>3 DEF WaitOnOwnVkQueue
    <3>3. f \in Fences /\ u.update_count \in Nat
      BY <3>1, OwnUpdateFacts DEF PendingUpdate
    <3> HIDE DEF f
    <3>4. OrderEntry(f, u.update_count) \in Entry /\ OrderEntry(f, u.update_count).type = "order"
      BY <3>3, OrderEntryType
    <3> QED
      BY <1>5, <3>2, <3>4
  <2>4. CASE WaitDeferred(q)
    BY <2>4 DEF WaitDeferred
  <2>5. CASE WaitOnCpu(q)
    <3> DEFINE f == Current(q).fence
               n == ChosenUpdate(q).update_count
    <3>1. OnOtherVkQueue(q) /\ worker' = enqueue(worker, q, OrderEntry(f, n))
      BY <2>5 DEF WaitOnCpu
    <3>2. f \in Fences /\ n \in Nat
      BY <3>1, ChosenUpdateFacts DEF PendingUpdate
    <3> HIDE DEF f, n
    <3>3. OrderEntry(f, n) \in Entry /\ OrderEntry(f, n).type = "order"
      BY <3>2, OrderEntryType
    <3> QED
      BY <1>5, <3>1, <3>3
  <2>6. CASE CpuWaitReturns(q)
    BY <2>6 DEF CpuWaitReturns
  <2>7. CASE FlushWaiters(q)
    <3>1. finalize_waits(q, <<>>)
      BY <2>7 DEF FlushWaiters
    <3>2. <<>> \in Seq(Entry) /\ \A i \in DOMAIN <<>> : <<>>[i].type # "signal"
      OBVIOUS
    <3> QED
      BY <1>1, <3>1, <3>2, FinalizeKeepsSignals
  <2>8. CASE Execute(q)
    <3> DEFINE id == Head(submissions[q]).id
               e == ReleaseEntry(id, VkQueueOf[q], last_value'[q])
    <3>1. finalize_waits(q, <<e>>) /\ Has(q, "execute")
      BY <2>8 DEF Execute
    <3>2. id \in Nat
      BY <1>1, <3>1, CommandFacts DEF Has
    <3>3. last_value'[q] \in Nat /\ VkQueueOf[q] \in VkQueues
      BY TimelinesStayExact, QueuesAssumption
    <3> HIDE DEF id
    <3>4. e \in Entry /\ e.type = "release"
      BY <3>2, <3>3, ReleaseEntryType
    <3> HIDE DEF e
    <3>5. <<e>> \in Seq(Entry) /\ \A i \in DOMAIN <<e>> : <<e>>[i].type # "signal"
      BY <3>4
    <3> QED
      BY <1>1, <3>1, <3>5, FinalizeKeepsSignals
  <2> QED
    BY <1>6, <2>1, <2>2, <2>3, <2>4, <2>5, <2>6, <2>7, <2>8 DEF SubmissionThread
<1>7. ASSUME NEW q \in Queues, SignalFence(q)
      PROVE  /\ WorkerOf(q)
             /\ \A i \in DOMAIN worker'[q] :
                  \/ \E j \in DOMAIN worker[q] : worker'[q][i] = worker[q][j]
                  \/ worker'[q][i] = SignalEntry(Current(q).fence,
                                       fences'[Current(q).fence].update_count,
                                       VkQueueOf[q], last_value[q])
  <2> DEFINE f == Current(q).fence
             n == fences'[f].update_count
             e == SignalEntry(f, n, VkQueueOf[q], last_value[q])
  <2>1. worker' = enqueue(worker, q, e)
    BY <1>7 DEF SignalFence
  <2>2. f \in Fences /\ n \in Nat
    BY <1>7, SignalFenceFacts, FenceFields
  <2>3. VkQueueOf[q] \in VkQueues /\ last_value[q] \in Nat
    BY <1>1, QueuesAssumption DEF Types
  <2> HIDE DEF f, n
  <2>4. e \in Entry
    BY <2>2, <2>3, SignalEntryType
  <2> HIDE DEF e
  <2> QED
    BY <1>1, <2>1, <2>4, EnqueueKeepsSignals DEF e, n, f
<1> QED
  BY <1>2, <1>3, <1>4, <1>6, <1>7 DEF Next

LEMMA WorkerTypes ==
  ASSUME Inv, Next
  PROVE  worker' \in [Queues -> Seq(Entry)]
<1>1. worker \in [Queues -> Seq(Entry)]
  BY DEF Inv, Types
<1> QED
  BY <1>1, WorkerStep DEF WorkerOf

LEMMA EntriesStayMatched ==
  ASSUME Inv, Next
  PROVE  EntriesMatch'
<1>1. Types /\ FencesInOrder /\ EntriesMatch
  BY DEF Inv
<1>2. \A f \in Fences : fences[f].update_count \in Nat /\ fences'[f].update_count \in Nat
  BY <1>1, FencesStayInOrder, FenceFields DEF Types
<1>3. ASSUME NEW q \in Queues, NEW j \in DOMAIN worker[q], worker[q][j].type = "signal"
      PROVE  LET e == worker[q][j]
             IN  /\ e.update_count \in 1..fences'[e.fence].update_count
                 /\ \A u \in fences'[e.fence].pending_updates :
                      u.update_count = e.update_count =>
                        /\ u.vk_semaphore = e.vk_semaphore
                        /\ u.vk_semaphore_value = e.vk_semaphore_value
  <2> DEFINE e == worker[q][j]
  <2>1. e \in Entry
    BY <1>1 DEF Types
  <2>2. e.fence \in Fences /\ e.update_count \in Nat
    BY <1>3, <2>1 DEF Entry
  <2>3. /\ e.update_count \in 1..fences[e.fence].update_count
        /\ \A u \in fences[e.fence].pending_updates :
             u.update_count = e.update_count =>
               /\ u.vk_semaphore = e.vk_semaphore
               /\ u.vk_semaphore_value = e.vk_semaphore_value
    BY <1>1, <1>3 DEF EntriesMatch
  <2> HIDE DEF e
  <2>4. fences[e.fence].update_count <= fences'[e.fence].update_count
    <3>1. CASE FencesSettle
      BY <1>2, <2>2, <3>1 DEF FencesSettle, Settles
    <3>2. ASSUME NEW r \in Queues, ApiWait(r)
          PROVE  fences[e.fence].update_count <= fences'[e.fence].update_count
      BY <1>2, <2>2, <3>2, ApiWaitFacts
    <3>3. ASSUME NEW r \in Queues, SignalFence(r)
          PROVE  fences[e.fence].update_count <= fences'[e.fence].update_count
      <4>1. CASE e.fence = Current(r).fence
        BY <1>2, <2>2, <3>3, <4>1, SignalFenceFacts
      <4>2. CASE e.fence # Current(r).fence
        <5>1. fences'[e.fence] = fences[e.fence]
          BY <2>2, <3>3, <4>2, SignalFenceFacts
        <5> QED
          BY <1>2, <2>2, <5>1
      <4> QED
        BY <4>1, <4>2
    <3> QED
      BY <3>1, <3>2, <3>3, FenceStep
  <2>5. e.update_count \in 1..fences'[e.fence].update_count
    BY <1>2, <2>2, <2>3, <2>4
  <2>6. ASSUME NEW u \in fences'[e.fence].pending_updates, u.update_count = e.update_count
        PROVE  u \in fences[e.fence].pending_updates
    <3>1. ASSUME u.update_count = fences[e.fence].update_count + 1 PROVE FALSE
      BY <1>2, <2>2, <2>3, <2>6, <3>1
    <3> QED
      BY <2>2, <2>6, <3>1, NewUpdates
  <2> QED
    BY <2>3, <2>5, <2>6 DEF e
<1>4. ASSUME NEW q \in Queues, SignalFence(q)
      PROVE  LET f == Current(q).fence
                 n == fences'[f].update_count
             IN  /\ n \in 1..n
                 /\ \A u \in fences'[f].pending_updates :
                      u.update_count = n =>
                        u.vk_semaphore = VkQueueOf[q] /\ u.vk_semaphore_value = last_value[q]
  <2> DEFINE f == Current(q).fence
             n == fences[f].update_count + 1
             new == [update_count |-> fences[f].update_count + 1,
                     virtual_value |-> Current(q).value,
                     vk_semaphore |-> VkQueueOf[q], vk_semaphore_value |-> last_value[q]]
  <2>1. /\ f \in Fences /\ fences'[f].update_count = n
        /\ fences'[f].pending_updates = fences[f].pending_updates \cup {new}
    BY <1>4, SignalFenceFacts
  <2>2. new.vk_semaphore = VkQueueOf[q] /\ new.vk_semaphore_value = last_value[q]
    OBVIOUS
  <2> HIDE DEF f, new
  <2>3. fences[f].update_count \in Nat /\ fences[f].signal_count \in Nat
    BY <1>1, <2>1, FenceFields DEF Types
  <2>4. \A u \in fences[f].pending_updates :
          u.update_count \in fences[f].signal_count + 1 .. fences[f].update_count
    BY <1>1, <2>1 DEF FencesInOrder, InOrder, PendingWindow
  <2>5. \A u \in fences[f].pending_updates : u.update_count # n
    BY <2>3, <2>4
  <2> QED
    BY <2>1, <2>2, <2>3, <2>5 DEF f
<1>5. ASSUME NEW q \in Queues, NEW i \in DOMAIN worker'[q], worker'[q][i].type = "signal"
      PROVE  LET e == worker'[q][i]
             IN  /\ e.update_count \in 1..fences'[e.fence].update_count
                 /\ \A u \in fences'[e.fence].pending_updates :
                      u.update_count = e.update_count =>
                        /\ u.vk_semaphore = e.vk_semaphore
                        /\ u.vk_semaphore_value = e.vk_semaphore_value
  <2> DEFINE e == worker'[q][i]
  <2>1. CASE \E j \in DOMAIN worker[q] : e = worker[q][j]
    BY <1>3, <1>5, <2>1
  <2>2. CASE /\ SignalFence(q)
             /\ e = SignalEntry(Current(q).fence, fences'[Current(q).fence].update_count,
                                VkQueueOf[q], last_value[q])
    <3>1. /\ e.fence = Current(q).fence
          /\ e.update_count = fences'[Current(q).fence].update_count
          /\ e.vk_semaphore = VkQueueOf[q] /\ e.vk_semaphore_value = last_value[q]
      BY <2>2 DEF SignalEntry
    <3> QED
      BY <1>4, <2>2, <3>1
  <2>3. \/ \E j \in DOMAIN worker[q] : e = worker[q][j]
        \/ /\ SignalFence(q)
           /\ e = SignalEntry(Current(q).fence, fences'[Current(q).fence].update_count,
                              VkQueueOf[q], last_value[q])
    <3>1. CASE worker' = worker
      BY <3>1
    <3>2. ASSUME NEW r \in Queues, WorkerOf(r), r # q
          PROVE  \E j \in DOMAIN worker[q] : e = worker[q][j]
      <4>1. worker'[q] = worker[q]
        BY <3>2 DEF WorkerOf
      <4> QED
        BY <4>1
    <3>3. CASE KeepsSignals(q)
      BY <1>5, <3>3 DEF KeepsSignals
    <3>4. CASE /\ SignalFence(q)
               /\ \A k \in DOMAIN worker'[q] :
                    \/ \E j \in DOMAIN worker[q] : worker'[q][k] = worker[q][j]
                    \/ worker'[q][k] = SignalEntry(Current(q).fence,
                                         fences'[Current(q).fence].update_count,
                                         VkQueueOf[q], last_value[q])
      BY <3>4
    <3> QED
      BY <3>1, <3>2, <3>3, <3>4, WorkerStep
  <2> QED
    BY <2>1, <2>2, <2>3
<1> QED
  BY <1>5 DEF EntriesMatch

-----------------------------------------------------------------------------
(* Types are kept.                                                         *)

LEMMA CommandTypes ==
  ASSUME Inv, Next
  PROVE  /\ program' \in Programs
         /\ next' \in [Queues -> Nat \ {0}]
         /\ submissions' \in [Queues -> Seq(Command)]
<1>1. /\ Types /\ CommandsInOrder /\ program \in Programs /\ next \in [Queues -> Nat \ {0}]
      /\ submissions \in [Queues -> Seq(Command)]
  BY DEF Inv, Types
<1>2. ASSUME NEW q \in Queues, Skipped(q)
      PROVE  next' \in [Queues -> Nat \ {0}] /\ submissions' = submissions
  <2>1. next[q] + 1 \in Nat \ {0}
    BY <1>1
  <2> QED
    BY <1>1, <1>2, <2>1 DEF Skipped
<1> QED
  BY <1>1, <1>2, CommandStep, QueuedFacts, FinishedFacts DEF Finished

LEMMA ThreadTypes ==
  ASSUME Inv, Next
  PROVE  /\ thread' \in [Queues -> {"ready", "asleep", "awake", "cpu_wait", "flushed"}]
         /\ cpu_until' \in [Queues -> SemaphoreValue]
         /\ wait_fences' \in [Queues -> Seq([fence : Fences, update_count : Nat])]
         /\ wait_semaphores' \in [Queues -> Waits]
         /\ follows' \in [Queues -> SUBSET Works]
<1> DEFINE TT == /\ thread' \in [Queues -> {"ready", "asleep", "awake", "cpu_wait", "flushed"}]
                 /\ cpu_until' \in [Queues -> SemaphoreValue]
                 /\ wait_fences' \in [Queues -> Seq([fence : Fences, update_count : Nat])]
                 /\ wait_semaphores' \in [Queues -> Waits]
                 /\ follows' \in [Queues -> SUBSET Works]
<1>1. /\ Types /\ CommandsInOrder
      /\ thread \in [Queues -> {"ready", "asleep", "awake", "cpu_wait", "flushed"}]
      /\ cpu_until \in [Queues -> SemaphoreValue]
      /\ wait_fences \in [Queues -> Seq([fence : Fences, update_count : Nat])]
      /\ wait_semaphores \in [Queues -> Waits]
      /\ follows \in [Queues -> SUBSET Works]
  BY DEF Inv, Types
<1>2. ASSUME NEW f
      PROVE  Woken(f) \in [Queues -> {"ready", "asleep", "awake", "cpu_wait", "flushed"}]
  BY <1>1, WokenFacts
<1>3. ASSUME NEW q \in Queues, Application(q) PROVE TT
  BY <1>1, <1>2, <1>3
    DEF Application, ApiExecute, ApiSignal, ApiWait, ApiCpuSignal, ApiRelease, history
<1>4. ASSUME NEW q \in Queues, FenceWorker(q) PROVE TT
  BY <1>1, <1>2, <1>4
    DEF FenceWorker, RetireSignal, RetireOrder, RetireRelease, thread_vars, history
<1>5. ASSUME NEW t \in VkQueues, GpuExecutes(t) PROVE TT
  BY <1>1, <1>5 DEF GpuExecutes, thread_vars
<1>6. ASSUME NEW q \in Queues, SubmissionThread(q) PROVE TT
  <2>0. NoSemaphores \in Waits
    <3>1. NoSemaphores \in [{} -> Nat]
      BY DEF NoSemaphores
    <3> QED
      BY <3>1 DEF Waits
  <2>1. Nothing \in SemaphoreValue
    BY QueuesAssumption DEF Nothing, SemaphoreValue
  <2>2. <<>> \in Seq([fence : Fences, update_count : Nat])
    OBVIOUS
  <2>3. ASSUME NEW n, promised[Current(q).fence][n] \in SUBSET Works,
               follows' = [follows EXCEPT ![q] = @ \cup promised[Current(q).fence][n]]
        PROVE  follows' \in [Queues -> SUBSET Works]
    BY <1>1, <2>3
  <2>4. CASE WaitAlreadySatisfied(q)
    BY <1>1, <2>4 DEF WaitAlreadySatisfied, history
  <2>5. CASE WaitSleeps(q)
    BY <1>1, <2>5 DEF WaitSleeps, history
  <2>6. CASE WaitOnOwnVkQueue(q)
    <3>1. Materialises(q)
      BY <2>6 DEF WaitOnOwnVkQueue
    <3>2. PICK u \in SatisfyingOnQueue(fences[Current(q).fence], Current(q).value, VkQueueOf[q]) :
             Follow(q, u)
      BY <2>6 DEF WaitOnOwnVkQueue
    <3>3. promised[Current(q).fence][u.update_count] \in SUBSET Works
      BY <3>1, OwnUpdateFacts
    <3>4. follows' \in [Queues -> SUBSET Works]
      BY <2>3, <3>2, <3>3 DEF Follow
    <3>5. /\ thread' = [thread EXCEPT ![q] = "ready"]
          /\ UNCHANGED <<cpu_until, wait_fences, wait_semaphores>>
      BY <2>6 DEF WaitOnOwnVkQueue
    <3> QED
      BY <1>1, <3>4, <3>5
  <2>7. CASE WaitDeferred(q)
    <3> DEFINE u == ChosenUpdate(q)
               f == Current(q).fence
               w == wait_semaphores[q]
               a == add_wait_semaphore(w, u.vk_semaphore, u.vk_semaphore_value)
               e == [fence |-> f, update_count |-> u.update_count]
    <3>1. /\ OnOtherVkQueue(q) /\ Follow(q, u)
          /\ wait_fences' = [wait_fences EXCEPT ![q] = Append(wait_fences[q], e)]
          /\ wait_semaphores' = [wait_semaphores EXCEPT ![q] = a]
          /\ thread' = [thread EXCEPT ![q] = "ready"] /\ UNCHANGED cpu_until
      BY <2>7 DEF WaitDeferred
    <3>2. f \in Fences /\ u \in PendingUpdate /\ promised[f][u.update_count] \in SUBSET Works
      BY <3>1, ChosenUpdateFacts
    <3>3. follows' \in [Queues -> SUBSET Works]
      BY <2>3, <3>1, <3>2 DEF Follow
    <3> HIDE DEF u, f
    <3>4. u.update_count \in Nat /\ u.vk_semaphore \in VkQueues /\ u.vk_semaphore_value \in Nat
      BY <3>2 DEF PendingUpdate
    <3>5. w \in Waits
      BY <1>1
    <3>6. a \in Waits
      BY <3>4, <3>5, AddWaitFacts
    <3>7. e \in [fence : Fences, update_count : Nat]
      BY <3>2, <3>4
    <3> HIDE DEF w, a, e
    <3>8. Append(wait_fences[q], e) \in Seq([fence : Fences, update_count : Nat])
      BY <1>1, <3>7, AppendFacts
    <3>9. wait_fences' \in [Queues -> Seq([fence : Fences, update_count : Nat])]
      BY <1>1, <3>1, <3>8
    <3>10. wait_semaphores' \in [Queues -> Waits]
      BY <1>1, <3>1, <3>6
    <3> QED
      BY <1>1, <3>1, <3>3, <3>9, <3>10
  <2>8. CASE WaitOnCpu(q)
    <3> DEFINE u == ChosenUpdate(q)
               f == Current(q).fence
               v == [vk_semaphore |-> u.vk_semaphore, vk_semaphore_value |-> u.vk_semaphore_value]
    <3>1. /\ OnOtherVkQueue(q) /\ Follow(q, u)
          /\ cpu_until' = [cpu_until EXCEPT ![q] = v]
          /\ thread' = [thread EXCEPT ![q] = "cpu_wait"]
          /\ UNCHANGED <<wait_fences, wait_semaphores>>
      BY <2>8 DEF WaitOnCpu
    <3>2. f \in Fences /\ u \in PendingUpdate /\ promised[f][u.update_count] \in SUBSET Works
      BY <3>1, ChosenUpdateFacts
    <3>3. follows' \in [Queues -> SUBSET Works]
      BY <2>3, <3>1, <3>2 DEF Follow
    <3> HIDE DEF u, f
    <3>4. v \in SemaphoreValue
      BY <3>2 DEF PendingUpdate, SemaphoreValue
    <3> HIDE DEF v
    <3>5. cpu_until' \in [Queues -> SemaphoreValue]
      BY <1>1, <3>1, <3>4
    <3> QED
      BY <1>1, <3>1, <3>3, <3>5
  <2>9. CASE CpuWaitReturns(q)
    <3>1. cpu_until' \in [Queues -> SemaphoreValue]
      BY <1>1, <2>1, <2>9 DEF CpuWaitReturns
    <3> QED
      BY <1>1, <2>9, <3>1 DEF CpuWaitReturns, history
  <2>10. ASSUME NEW entries, finalize_waits(q, entries)
         PROVE  /\ wait_fences' \in [Queues -> Seq([fence : Fences, update_count : Nat])]
                /\ wait_semaphores' \in [Queues -> Waits]
    BY <1>1, <2>0, <2>2, <2>10 DEF finalize_waits
  <2>11. CASE FlushWaiters(q)
    BY <1>1, <2>10, <2>11 DEF FlushWaiters, history
  <2>12. CASE SignalFence(q)
    <3>1. thread' = [Woken(Current(q).fence) EXCEPT ![q] = "ready"]
      BY <2>12 DEF SignalFence
    <3>2. thread' \in [Queues -> {"ready", "asleep", "awake", "cpu_wait", "flushed"}]
      BY <1>2, <3>1
    <3> QED
      BY <1>1, <2>12, <3>2 DEF SignalFence
  <2>13. CASE Execute(q)
    <3> DEFINE id == Head(submissions[q]).id
    <3>1. <<q, id>> \in Works
      BY <1>1, <2>13, CommandFacts DEF Execute, Has
    <3>2. {<<q, id>>} \in SUBSET Works
      BY <3>1
    <3>3. follows' = [follows EXCEPT ![q] = @ \cup {<<q, id>>}] /\ UNCHANGED <<thread, cpu_until>>
      BY <2>13 DEF Execute
    <3> HIDE DEF id
    <3>4. follows' \in [Queues -> SUBSET Works]
      BY <1>1, <3>2, <3>3
    <3>5. \E entries : finalize_waits(q, entries)
      BY <2>13 DEF Execute
    <3> QED
      BY <1>1, <2>10, <3>3, <3>4, <3>5
  <2> QED
    BY <1>6, <2>4, <2>5, <2>6, <2>7, <2>8, <2>9, <2>11, <2>12, <2>13 DEF SubmissionThread
<1> QED
  BY <1>3, <1>4, <1>5, <1>6 DEF Next

\* All of it together.
LEMMA InvIsKept ==
  ASSUME Inv, Next
  PROVE  Inv'
<1>1. Types'
  BY CommandTypes, ThreadTypes, TimelinesStayExact, WorkerTypes, FencesStayInOrder
    DEF Types
<1> QED
  BY <1>1, CommandsStayInOrder, ThreadsStayAtWork, TimelinesStayExact, FencesStayInOrder,
     TicketsKeepStanding, SignallersStay, EntriesStayMatched
    DEF Inv

-----------------------------------------------------------------------------
(* What is ensured only grows.                                             *)

LEMMA EnsuredElement ==
  ASSUME NEW t \in VkQueues, NEW v \in Nat, NEW e
  PROVE  e \in Ensured(t, v) <=>
           \/ e \in completed
           \/ \E i \in DOMAIN vk_queue[t] :
                vk_queue[t][i].value <= v /\ (e \in vk_queue[t][i].work \/ e \in vk_queue[t][i].after)
BY DEF Ensured

LEMMA WaitsFacts ==
  ASSUME NEW w \in Waits
  PROVE  DOMAIN w \subseteq VkQueues /\ \A x \in DOMAIN w : w[x] \in Nat
BY DEF Waits

\* What the entries of a VkQueue are.
LEMMA SubmissionFacts ==
  ASSUME Types, TimelinesExact, NEW t \in VkQueues
  PROVE  /\ DOMAIN vk_queue[t] = 1..Len(vk_queue[t]) /\ Len(vk_queue[t]) \in Nat
         /\ timeline[t] \in Nat /\ timeline_count[t] \in Nat
         /\ \A i \in DOMAIN vk_queue[t] :
              /\ vk_queue[t][i] \in GpuSubmission
              /\ vk_queue[t][i].waits \in Waits /\ vk_queue[t][i].value \in Nat
              /\ vk_queue[t][i].value = timeline[t] + i
              /\ timeline[t] < vk_queue[t][i].value
              /\ vk_queue[t][i].value <= timeline_count[t]
<1>1. /\ vk_queue[t] \in Seq(GpuSubmission) /\ timeline[t] \in Nat /\ timeline_count[t] \in Nat
  BY DEF Types
<1>2. /\ DOMAIN vk_queue[t] = 1..Len(vk_queue[t]) /\ Len(vk_queue[t]) \in Nat
      /\ \A i \in DOMAIN vk_queue[t] : vk_queue[t][i] \in GpuSubmission
  BY <1>1, LenProperties
<1>3. \A s \in GpuSubmission : s.waits \in Waits /\ s.value \in Nat
  BY DEF GpuSubmission
<1>4. /\ timeline_count[t] = timeline[t] + Len(vk_queue[t])
      /\ \A i \in DOMAIN vk_queue[t] : vk_queue[t][i].value = timeline[t] + i
  BY DEF TimelinesExact
<1>5. ASSUME NEW i \in DOMAIN vk_queue[t]
      PROVE  timeline[t] < timeline[t] + i /\ timeline[t] + i <= timeline_count[t]
  BY <1>1, <1>2, <1>4
<1> QED
  BY <1>1, <1>2, <1>3, <1>4, <1>5

LEMMA EnsuredFacts ==
  ASSUME Types, TimelinesExact, NEW t \in VkQueues, NEW v \in Nat
  PROVE  /\ completed \subseteq Ensured(t, v)
         /\ \A w \in Nat : v <= w => Ensured(t, v) \subseteq Ensured(t, w)
         /\ timeline[t] >= v => Ensured(t, v) = completed
         /\ Ensured(t, v) \subseteq Ensured(t, timeline_count[t])
<1>1. completed \subseteq Ensured(t, v)
  BY DEF Ensured
<1>2. ASSUME NEW w \in Nat, v <= w, NEW e \in Ensured(t, v) PROVE e \in Ensured(t, w)
  <2>1. CASE e \in completed
    BY <2>1, EnsuredElement
  <2>2. ASSUME NEW i \in DOMAIN vk_queue[t], vk_queue[t][i].value <= v,
               e \in vk_queue[t][i].work \/ e \in vk_queue[t][i].after
        PROVE  e \in Ensured(t, w)
    <3>1. vk_queue[t][i].value \in Nat
      BY SubmissionFacts
    <3>2. vk_queue[t][i].value <= w
      BY <1>2, <2>2, <3>1
    <3> QED
      BY <2>2, <3>2, EnsuredElement
  <2> QED
    BY <2>1, <2>2, EnsuredElement
<1>3. ASSUME timeline[t] >= v, NEW e \in Ensured(t, v) PROVE e \in completed
  <2>1. ASSUME NEW i \in DOMAIN vk_queue[t] PROVE ~ (vk_queue[t][i].value <= v)
    <3>1. timeline[t] \in Nat /\ vk_queue[t][i].value \in Nat /\ timeline[t] < vk_queue[t][i].value
      BY SubmissionFacts
    <3> QED
      BY <1>3, <3>1
  <2> QED
    BY <2>1, EnsuredElement
<1>4. ASSUME NEW e \in Ensured(t, v) PROVE e \in Ensured(t, timeline_count[t])
  <2>1. /\ timeline_count[t] \in Nat
        /\ \A i \in DOMAIN vk_queue[t] : vk_queue[t][i].value <= timeline_count[t]
    BY SubmissionFacts
  <2> QED
    BY <2>1, EnsuredElement
<1> QED
  BY <1>1, <1>2, <1>3, <1>4

\* Waits that are reached ensure no more than what is done.
LEMMA ReachedWaits ==
  ASSUME Types, TimelinesExact, NEW w \in Waits, \A x \in DOMAIN w : timeline[x] >= w[x]
  PROVE  EnsuredBy(w) \subseteq completed
<1>1. \A x \in DOMAIN w : Ensured(x, w[x]) = completed
  BY WaitsFacts, EnsuredFacts
<1> QED
  BY <1>1 DEF EnsuredBy

\* The first submission of a VkQueue, when it may execute.
LEMMA HeadFollows ==
  ASSUME Types, TimelinesExact, SubmissionsCovered, NEW t \in VkQueues, Executable(t)
  PROVE  Head(vk_queue[t]).after \subseteq completed
<1>1. vk_queue[t] # <<>> /\ vk_queue[t] \in Seq(GpuSubmission)
  BY DEF Types, Executable
<1>2. 1 \in DOMAIN vk_queue[t] /\ Head(vk_queue[t]) = vk_queue[t][1]
  BY <1>1, TailFacts
<1> DEFINE s == vk_queue[t][1]
<1>3. /\ s.waits \in Waits /\ s.value = timeline[t] + 1 /\ timeline[t] \in Nat
  BY <1>2, SubmissionFacts
<1>4. s.after \subseteq Ensured(t, s.value - 1) \cup EnsuredBy(s.waits)
  BY <1>2 DEF SubmissionsCovered
<1>5. \A x \in DOMAIN s.waits : timeline[x] >= s.waits[x]
  BY <1>2 DEF Executable
<1> HIDE DEF s
<1>6. EnsuredBy(s.waits) \subseteq completed
  BY <1>3, <1>5, ReachedWaits
<1>7. s.value - 1 = timeline[t]
  BY <1>3
<1>8. Ensured(t, s.value - 1) = completed
  <2>1. Ensured(t, timeline[t]) = completed
    BY <1>3, EnsuredFacts
  <2> QED
    BY <1>7, <2>1
<1> QED
  BY <1>2, <1>4, <1>6, <1>8 DEF s

LEMMA EnsuredElementNext ==
  ASSUME NEW t \in VkQueues, NEW v \in Nat, NEW e
  PROVE  e \in Ensured(t, v)' <=>
           \/ e \in completed'
           \/ \E i \in DOMAIN vk_queue'[t] :
                /\ vk_queue'[t][i].value <= v
                /\ e \in vk_queue'[t][i].work \/ e \in vk_queue'[t][i].after
BY DEF Ensured

LEMMA CompletedGrows ==
  ASSUME Inv, Next
  PROVE  completed \subseteq completed'
BY GpuStep, ExecutesFacts DEF Inv, GpuQuiet, Submits

LEMMA EnsuredGrows ==
  ASSUME Inv, Next, SubmissionsCovered, NEW t \in VkQueues, NEW v \in Nat
  PROVE  Ensured(t, v) \subseteq Ensured(t, v)'
<1>1. Types /\ TimelinesExact
  BY DEF Inv
<1>2. SUFFICES ASSUME NEW e \in Ensured(t, v) PROVE e \in Ensured(t, v)'
  OBVIOUS
<1>3. CASE e \in completed
  BY <1>3, CompletedGrows, EnsuredElementNext
<1>4. ASSUME NEW i \in DOMAIN vk_queue[t], vk_queue[t][i].value <= v,
             e \in vk_queue[t][i].work \/ e \in vk_queue[t][i].after
      PROVE  e \in Ensured(t, v)'
  <2>1. ASSUME NEW j \in DOMAIN vk_queue'[t], vk_queue'[t][j] = vk_queue[t][i]
        PROVE  e \in Ensured(t, v)'
    BY <1>4, <2>1, EnsuredElementNext
  <2>2. CASE GpuQuiet
    BY <2>1, <2>2 DEF GpuQuiet
  <2>3. ASSUME NEW q \in Queues, NEW waits \in Waits, NEW work \in SUBSET Works,
               Submits(q, waits, work)
        PROVE  e \in Ensured(t, v)'
    <3>1. submit(q, waits, work)
      BY <2>3 DEF Submits
    <3>2. CASE t # VkQueueOf[q]
      <4>1. vk_queue'[t] = vk_queue[t]
        BY <1>1, <3>1, <3>2, SubmitFacts
      <4> QED
        BY <2>1, <4>1
    <3>3. CASE t = VkQueueOf[q]
      <4>1. /\ Len(vk_queue[t]) \in Nat /\ DOMAIN vk_queue[t] = 1..Len(vk_queue[t])
            /\ DOMAIN vk_queue'[t] = 1..(Len(vk_queue[t]) + 1)
            /\ vk_queue'[t][i] = vk_queue[t][i]
        BY <1>1, <3>1, <3>3, SubmitFacts
      <4>2. i \in DOMAIN vk_queue'[t]
        BY <4>1
      <4> QED
        BY <2>1, <4>1, <4>2
    <3> QED
      BY <3>2, <3>3
  <2>4. ASSUME NEW x \in VkQueues, GpuExecutes(x)
        PROVE  e \in Ensured(t, v)'
    <3>1. CASE t # x
      <4>1. vk_queue'[t] = vk_queue[t]
        BY <1>1, <2>4, <3>1, ExecutesFacts
      <4> QED
        BY <2>1, <4>1
    <3>2. CASE t = x
      <4>1. /\ Len(vk_queue[t]) \in Nat \ {0} /\ DOMAIN vk_queue[t] = 1..Len(vk_queue[t])
            /\ DOMAIN vk_queue'[t] = 1..(Len(vk_queue[t]) - 1)
            /\ \A j \in 1..(Len(vk_queue[t]) - 1) : vk_queue'[t][j] = vk_queue[t][j + 1]
            /\ completed' = completed \cup vk_queue[t][1].work
            /\ Head(vk_queue[t]) = vk_queue[t][1]
        BY <1>1, <2>4, <3>2, ExecutesFacts
      <4>2. CASE i = 1
        <5>1. vk_queue[t][1].after \subseteq completed
          BY <1>1, <2>4, <3>2, <4>1, HeadFollows DEF GpuExecutes
        <5>2. e \in completed'
          BY <1>4, <4>1, <4>2, <5>1
        <5> QED
          BY <5>2, EnsuredElementNext
      <4>3. CASE i # 1
        <5>1. i - 1 \in 1..(Len(vk_queue[t]) - 1) /\ (i - 1) + 1 = i
          BY <4>1, <4>3
        <5>2. vk_queue'[t][i - 1] = vk_queue[t][i]
          BY <4>1, <5>1
        <5> QED
          BY <2>1, <4>1, <5>1, <5>2
      <4> QED
        BY <4>2, <4>3
    <3> QED
      BY <3>1, <3>2
  <2> QED
    BY <2>2, <2>3, <2>4, GpuStep
<1> QED
  BY <1>2, <1>3, <1>4, EnsuredElement

LEMMA EnsuredByGrows ==
  ASSUME Inv, Next, SubmissionsCovered, NEW w \in Waits
  PROVE  EnsuredBy(w) \subseteq EnsuredBy(w)'
<1>1. \A x \in DOMAIN w : Ensured(x, w[x]) \subseteq Ensured(x, w[x])'
  BY WaitsFacts, EnsuredGrows
<1> QED
  BY <1>1 DEF EnsuredBy

-----------------------------------------------------------------------------
(* What covers a queue still covers it after a step.                       *)

LEMMA DoneIsEnsured ==
  ASSUME Inv, Next, NEW t \in VkQueues, NEW v \in Nat
  PROVE  completed \subseteq Ensured(t, v)'
BY CompletedGrows, EnsuredElementNext

LEMMA EnsuredGrowsTo ==
  ASSUME Inv, Next, SubmissionsCovered, NEW t \in VkQueues, NEW v \in Nat, NEW v2 \in Nat, v <= v2
  PROVE  Ensured(t, v) \subseteq Ensured(t, v2)'
<1>1. Ensured(t, v) \subseteq Ensured(t, v2)
  BY EnsuredFacts DEF Inv
<1>2. Ensured(t, v2) \subseteq Ensured(t, v2)'
  BY EnsuredGrows
<1> QED
  BY <1>1, <1>2

\* A wait for at least as much ensures at least as much.
LEMMA WaitsEnsure ==
  ASSUME Inv, Next, SubmissionsCovered, NEW w \in Waits, NEW t \in DOMAIN w, NEW v \in Nat,
         v <= w[t]
  PROVE  Ensured(t, v) \subseteq EnsuredBy(w)'
<1>1. t \in VkQueues /\ w[t] \in Nat
  BY WaitsFacts
<1>2. Ensured(t, v) \subseteq Ensured(t, w[t])'
  BY <1>1, EnsuredGrowsTo
<1> QED
  BY <1>2 DEF EnsuredBy

LEMMA WaitsGrow ==
  ASSUME Inv, Next, SubmissionsCovered, NEW w \in Waits, NEW w2 \in Waits,
         DOMAIN w \subseteq DOMAIN w2, \A x \in DOMAIN w : w[x] <= w2[x]
  PROVE  EnsuredBy(w) \subseteq EnsuredBy(w2)'
<1>1. \A x \in DOMAIN w : Ensured(x, w[x]) \subseteq EnsuredBy(w2)'
  BY WaitsFacts, WaitsEnsure
<1> QED
  BY <1>1 DEF EnsuredBy

\* Nothing to wait for ensures nothing new.
LEMMA NothingEnsured ==
  ASSUME Types, TimelinesExact, NEW q \in Queues
  PROVE  /\ Nothing.vk_semaphore \in VkQueues /\ Nothing.vk_semaphore_value = 0
         /\ Ensured(Nothing.vk_semaphore, 0) = completed
         /\ EnsuredBy(NoSemaphores) = {}
<1>1. Nothing.vk_semaphore \in VkQueues /\ Nothing.vk_semaphore_value = 0
  BY QueuesAssumption DEF Nothing
<1>2. timeline[Nothing.vk_semaphore] \in Nat
  BY <1>1 DEF Types
<1>3. timeline[Nothing.vk_semaphore] >= 0
  BY <1>2
<1>4. Ensured(Nothing.vk_semaphore, 0) = completed
  BY <1>1, <1>3, EnsuredFacts
<1>5. EnsuredBy(NoSemaphores) = {}
  BY DEF EnsuredBy, NoSemaphores
<1> QED
  BY <1>1, <1>4, <1>5

\* What covers the queue q, and what will.
QueueTypes(q) ==
  /\ VkQueueOf[q] \in VkQueues
  /\ timeline_count[VkQueueOf[q]] \in Nat /\ last_value[q] \in Nat
  /\ last_value[q] <= timeline_count[VkQueueOf[q]]
  /\ wait_semaphores[q] \in Waits
  /\ cpu_until[q].vk_semaphore \in VkQueues /\ cpu_until[q].vk_semaphore_value \in Nat

LEMMA QueueTypesHold ==
  ASSUME Types, TimelinesExact, NEW q \in Queues
  PROVE  QueueTypes(q)
BY QueuesAssumption DEF Types, TimelinesExact, QueueTypes, SemaphoreValue

LEMMA QueueTypesHoldNext ==
  ASSUME Inv, Next, NEW q \in Queues
  PROVE  QueueTypes(q)'
<1>1. Types' /\ TimelinesExact'
  BY InvIsKept DEF Inv
<1> QED
  BY <1>1, QueuesAssumption DEF Types, TimelinesExact, QueueTypes, SemaphoreValue

QueueCovered(q) ==
  follows[q] \subseteq Ensured(VkQueueOf[q], timeline_count[VkQueueOf[q]])
                         \cup EnsuredBy(wait_semaphores[q]) \cup EnsuredOnCpu(q)

LastCovers(q) ==
  follows[q] \subseteq Ensured(VkQueueOf[q], last_value[q])
                         \cup EnsuredBy(wait_semaphores[q]) \cup EnsuredOnCpu(q)

\* Timelines only count up.
LEMMA CountsGrow ==
  ASSUME Inv, Next
  PROVE  /\ \A t \in VkQueues : timeline_count[t] <= timeline_count'[t]
         /\ \A t \in VkQueues : timeline[t] <= timeline'[t]
         /\ \A r \in Queues : last_value[r] <= last_value'[r]
<1>1. /\ Types /\ TimelinesExact
      /\ timeline_count \in [VkQueues -> Nat] /\ timeline \in [VkQueues -> Nat]
      /\ last_value \in [Queues -> Nat]
      /\ \A r \in Queues : VkQueueOf[r] \in VkQueues
  BY QueuesAssumption DEF Inv, Types
<1>2. CASE GpuQuiet
  BY <1>1, <1>2 DEF GpuQuiet
<1>3. ASSUME NEW q \in Queues, NEW waits \in Waits, NEW work \in SUBSET Works,
             Submits(q, waits, work)
      PROVE  /\ \A t \in VkQueues : timeline_count[t] <= timeline_count'[t]
             /\ \A t \in VkQueues : timeline[t] <= timeline'[t]
             /\ \A r \in Queues : last_value[r] <= last_value'[r]
  <2> DEFINE t == VkQueueOf[q]
  <2>1. /\ timeline_count'[t] = timeline_count[t] + 1
        /\ \A x \in VkQueues : x # t => timeline_count'[x] = timeline_count[x]
        /\ last_value'[q] = timeline_count[t] + 1
        /\ \A r \in Queues : r # q => last_value'[r] = last_value[r]
        /\ timeline' = timeline /\ t \in VkQueues
    BY <1>1, <1>3, SubmitFacts DEF Submits
  <2>2. last_value[q] <= timeline_count[t]
    BY <1>1 DEF TimelinesExact
  <2> HIDE DEF t
  <2>3. ASSUME NEW x \in VkQueues PROVE timeline_count[x] <= timeline_count'[x]
    <3>1. timeline_count[x] \in Nat
      BY <1>1
    <3>2. CASE x = t
      BY <2>1, <3>1, <3>2
    <3>3. CASE x # t
      BY <2>1, <3>1, <3>3
    <3> QED
      BY <3>2, <3>3
  <2>4. ASSUME NEW r \in Queues PROVE last_value[r] <= last_value'[r]
    <3>1. last_value[r] \in Nat /\ timeline_count[t] \in Nat
      BY <1>1, <2>1
    <3>2. CASE r = q
      BY <2>1, <2>2, <3>1, <3>2
    <3>3. CASE r # q
      BY <2>1, <3>1, <3>3
    <3> QED
      BY <3>2, <3>3
  <2> QED
    BY <1>1, <2>1, <2>3, <2>4
<1>4. ASSUME NEW t \in VkQueues, GpuExecutes(t)
      PROVE  /\ \A x \in VkQueues : timeline_count[x] <= timeline_count'[x]
             /\ \A x \in VkQueues : timeline[x] <= timeline'[x]
             /\ \A r \in Queues : last_value[r] <= last_value'[r]
  <2>1. /\ timeline'[t] = timeline[t] + 1 /\ timeline[t] \in Nat
        /\ \A x \in VkQueues : x # t => timeline'[x] = timeline[x]
        /\ UNCHANGED <<timeline_count, last_value>>
    BY <1>1, <1>4, ExecutesFacts
  <2>2. ASSUME NEW x \in VkQueues PROVE timeline[x] <= timeline'[x]
    <3>1. CASE x = t
      BY <2>1, <3>1
    <3>2. CASE x # t
      BY <1>1, <2>1, <3>2
    <3> QED
      BY <3>1, <3>2
  <2> QED
    BY <1>1, <2>1, <2>2
<1> QED
  BY <1>2, <1>3, <1>4, GpuStep

\* A queue that gains nothing to follow, and waits for no less, stays covered.
LEMMA CoverKept ==
  ASSUME Inv, Next, SubmissionsCovered, NEW q \in Queues,
         follows'[q] = follows[q],
         wait_semaphores'[q] = wait_semaphores[q], cpu_until'[q] = cpu_until[q]
  PROVE  /\ QueueCovered(q) => QueueCovered(q)'
         /\ LastCovers(q) => LastCovers(q)'
<1>1. QueueTypes(q) /\ QueueTypes(q)'
  BY QueueTypesHold, QueueTypesHoldNext DEF Inv
<1> DEFINE t == VkQueueOf[q]
<1>2. PICK c, c2, l, l2, w, x, y :
        /\ c = timeline_count[t] /\ c2 = timeline_count'[t]
        /\ l = last_value[q] /\ l2 = last_value'[q]
        /\ w = wait_semaphores[q] /\ x = cpu_until[q].vk_semaphore
        /\ y = cpu_until[q].vk_semaphore_value
  OBVIOUS
<1>3. /\ t \in VkQueues /\ c \in Nat /\ c2 \in Nat /\ l \in Nat /\ l2 \in Nat
      /\ c <= c2 /\ l <= l2 /\ w \in Waits /\ x \in VkQueues /\ y \in Nat
  BY <1>1, <1>2, CountsGrow DEF QueueTypes
<1>4. /\ Ensured(t, c) \subseteq Ensured(t, c2)'
      /\ Ensured(t, l) \subseteq Ensured(t, l2)'
      /\ EnsuredBy(w) \subseteq EnsuredBy(w)'
      /\ Ensured(x, y) \subseteq Ensured(x, y)'
  BY <1>3, EnsuredGrowsTo, EnsuredGrows, EnsuredByGrows
<1>5. /\ QueueCovered(q) <=> follows[q] \subseteq Ensured(t, c) \cup EnsuredBy(w) \cup Ensured(x, y)
      /\ LastCovers(q) <=> follows[q] \subseteq Ensured(t, l) \cup EnsuredBy(w) \cup Ensured(x, y)
  BY <1>2 DEF QueueCovered, LastCovers, EnsuredOnCpu
<1>6. /\ QueueCovered(q)' <=>
           follows[q] \subseteq Ensured(t, c2)' \cup EnsuredBy(w)' \cup Ensured(x, y)'
      /\ LastCovers(q)' <=>
           follows[q] \subseteq Ensured(t, l2)' \cup EnsuredBy(w)' \cup Ensured(x, y)'
  BY <1>2 DEF QueueCovered, LastCovers, EnsuredOnCpu
<1> QED
  BY <1>4, <1>5, <1>6

\* What is submitted next covers all that its queue follows.
LEMMA SubmissionEnsures ==
  ASSUME Inv, Next, NEW q \in Queues, NEW waits \in Waits, NEW work \in SUBSET Works,
         submit(q, waits, work), NEW v, v = timeline_count[VkQueueOf[q]] + 1
  PROVE  /\ v \in Nat /\ last_value'[q] = v /\ timeline_count'[VkQueueOf[q]] = v
         /\ follows[q] \cup work \subseteq Ensured(VkQueueOf[q], v)'
<1> DEFINE t == VkQueueOf[q]
           L == Len(vk_queue[t])
<1>1. /\ t \in VkQueues /\ timeline_count[t] \in Nat /\ L \in Nat /\ last_value'[q] = v
      /\ timeline_count'[t] = v
      /\ DOMAIN vk_queue'[t] = 1..(L + 1)
      /\ vk_queue'[t][L + 1] = [waits |-> waits, value |-> v, work |-> work, after |-> follows[q]]
  BY SubmitFacts DEF Inv
<1>2. v \in Nat /\ L + 1 \in DOMAIN vk_queue'[t]
  BY <1>1
<1>3. /\ vk_queue'[t][L + 1].value <= v
      /\ vk_queue'[t][L + 1].work = work /\ vk_queue'[t][L + 1].after = follows[q]
  BY <1>1, <1>2
<1> HIDE DEF L
<1>4. ASSUME NEW e \in follows[q] \cup work PROVE e \in Ensured(t, v)'
  <2>1. e \in vk_queue'[t][L + 1].work \/ e \in vk_queue'[t][L + 1].after
    BY <1>3
  <2> HIDE DEF t
  <2> QED
    BY <1>1, <1>2, <1>3, <2>1, EnsuredElementNext
<1> QED
  BY <1>1, <1>2, <1>4

LEMMA SubmittedCovers ==
  ASSUME Inv, Next, NEW q \in Queues, NEW waits \in Waits, NEW work \in SUBSET Works,
         submit(q, waits, work), follows'[q] \subseteq follows[q] \cup work
  PROVE  QueueCovered(q)' /\ LastCovers(q)'
<1> DEFINE t == VkQueueOf[q]
<1>1. PICK v : v = timeline_count[t] + 1
  OBVIOUS
<1>2. last_value'[q] = v /\ timeline_count'[t] = v /\ follows'[q] \subseteq Ensured(t, v)'
  BY <1>1, SubmissionEnsures
<1>3. follows'[q] \subseteq Ensured(t, last_value[q])'
  BY <1>2
<1>4. follows'[q] \subseteq Ensured(t, timeline_count[t])'
  BY <1>2
<1> QED
  BY <1>3, <1>4 DEF QueueCovered, LastCovers

LEMMA OwnWaitCovers ==
  ASSUME Inv, Next, SubmissionsCovered, UpdatesCovered, NEW q \in Queues, QueueCovered(q),
         WaitOnOwnVkQueue(q)
  PROVE  QueueCovered(q)'
<1>1. QueueTypes(q) /\ QueueTypes(q)' /\ Types /\ TimelinesExact
  BY QueueTypesHold, QueueTypesHoldNext DEF Inv
<1> DEFINE t == VkQueueOf[q]
           f == Current(q).fence
<1>2. PICK u \in SatisfyingOnQueue(fences[f], Current(q).value, t) : Follow(q, u)
  BY DEF WaitOnOwnVkQueue
<1>3. /\ Materialises(q)
      /\ UNCHANGED <<cpu_until, wait_semaphores, timeline_count>>
  BY DEF WaitOnOwnVkQueue, gpu_vars
<1>4. /\ f \in Fences /\ u \in fences[f].pending_updates /\ u \in PendingUpdate
      /\ u.vk_semaphore = t
  BY <1>2, <1>3, OwnUpdateFacts
<1> DEFINE new == promised[f][u.update_count]
<1>5. follows'[q] = follows[q] \cup new
  BY <1>1, <1>2 DEF Types, Follow
<1>6. new \subseteq Ensured(t, u.vk_semaphore_value)
  BY <1>4 DEF UpdatesCovered
<1> HIDE DEF new, f
<1>7. PICK c, w, x, y :
        /\ c = timeline_count[t] /\ w = wait_semaphores[q] /\ x = cpu_until[q].vk_semaphore
        /\ y = cpu_until[q].vk_semaphore_value
  OBVIOUS
<1>8. /\ t \in VkQueues /\ c \in Nat /\ w \in Waits /\ x \in VkQueues /\ y \in Nat
      /\ u.vk_semaphore_value \in Nat
  BY <1>1, <1>4, <1>7 DEF QueueTypes, PendingUpdate
<1>9. Ensured(t, u.vk_semaphore_value) \subseteq Ensured(t, c)
  BY <1>1, <1>7, <1>8, EnsuredFacts
<1>10. /\ Ensured(t, c) \subseteq Ensured(t, c)'
       /\ EnsuredBy(w) \subseteq EnsuredBy(w)'
       /\ Ensured(x, y) \subseteq Ensured(x, y)'
  BY <1>8, EnsuredGrows, EnsuredByGrows
<1>11. follows[q] \subseteq Ensured(t, c) \cup EnsuredBy(w) \cup Ensured(x, y)
  BY <1>7 DEF QueueCovered, EnsuredOnCpu
<1>12. follows'[q] \subseteq Ensured(t, c)' \cup EnsuredBy(w)' \cup Ensured(x, y)'
  BY <1>5, <1>6, <1>9, <1>10, <1>11
<1>13. /\ c = timeline_count'[t] /\ w = wait_semaphores'[q] /\ x = cpu_until'[q].vk_semaphore
       /\ y = cpu_until'[q].vk_semaphore_value
  BY <1>3, <1>7
<1> QED
  BY <1>12, <1>13 DEF QueueCovered, EnsuredOnCpu

LEMMA DeferredWaitCovers ==
  ASSUME Inv, Next, SubmissionsCovered, UpdatesCovered, NEW q \in Queues, WaitDeferred(q)
  PROVE  /\ QueueCovered(q) => QueueCovered(q)'
         /\ LastCovers(q) => LastCovers(q)'
<1>1. QueueTypes(q) /\ QueueTypes(q)' /\ Types /\ TimelinesExact
  BY QueueTypesHold, QueueTypesHoldNext DEF Inv
<1> DEFINE t == VkQueueOf[q]
           f == Current(q).fence
           u == ChosenUpdate(q)
           a == add_wait_semaphore(wait_semaphores[q], u.vk_semaphore, u.vk_semaphore_value)
<1>2. /\ OnOtherVkQueue(q) /\ Follow(q, u)
      /\ wait_semaphores' = [wait_semaphores EXCEPT ![q] = a]
      /\ UNCHANGED <<cpu_until, last_value, timeline_count>>
  BY DEF WaitDeferred, gpu_vars
<1>3. f \in Fences /\ u \in fences[f].pending_updates /\ u \in PendingUpdate
  BY <1>2, ChosenUpdateFacts
<1> DEFINE new == promised[f][u.update_count]
<1>4. follows'[q] = follows[q] \cup new
  BY <1>1, <1>2 DEF Types, Follow
<1>5. new \subseteq Ensured(u.vk_semaphore, u.vk_semaphore_value)
  BY <1>3 DEF UpdatesCovered
<1>6. wait_semaphores'[q] = a
  BY <1>1, <1>2 DEF Types
<1>7. PICK c, l, w, w2, x, y, s, sv :
        /\ c = timeline_count[t] /\ l = last_value[q] /\ w = wait_semaphores[q] /\ w2 = a
        /\ x = cpu_until[q].vk_semaphore /\ y = cpu_until[q].vk_semaphore_value
        /\ s = u.vk_semaphore /\ sv = u.vk_semaphore_value
  OBVIOUS
<1>8. /\ t \in VkQueues /\ c \in Nat /\ l \in Nat /\ w \in Waits /\ x \in VkQueues /\ y \in Nat
      /\ s \in VkQueues /\ sv \in Nat
  <2>1. u.vk_semaphore \in VkQueues /\ u.vk_semaphore_value \in Nat
    <3> HIDE DEF u
    <3> QED
      BY <1>3 DEF PendingUpdate
  <2> QED
    BY <1>1, <1>7, <2>1 DEF QueueTypes
<1>9. w2 = add_wait_semaphore(w, s, sv)
  BY <1>7
<1>10. /\ w2 \in Waits /\ DOMAIN w2 = DOMAIN w \cup {s}
       /\ \A z \in DOMAIN w : w[z] <= w2[z]
       /\ sv <= w2[s]
  BY <1>8, <1>9, AddWaitFacts
<1>11. new \subseteq Ensured(s, sv)
  BY <1>5, <1>7
<1> HIDE DEF new, f, u, a
<1>12. s \in DOMAIN w2 /\ DOMAIN w \subseteq DOMAIN w2
  BY <1>10
<1>13. Ensured(s, sv) \subseteq EnsuredBy(w2)'
  BY <1>8, <1>10, <1>12, WaitsEnsure
<1>14. EnsuredBy(w) \subseteq EnsuredBy(w2)'
  BY <1>8, <1>10, <1>12, WaitsGrow
<1>15. /\ Ensured(t, c) \subseteq Ensured(t, c)'
       /\ Ensured(t, l) \subseteq Ensured(t, l)'
       /\ Ensured(x, y) \subseteq Ensured(x, y)'
  BY <1>8, EnsuredGrows
<1>16. /\ c = timeline_count'[t] /\ l = last_value'[q] /\ w2 = wait_semaphores'[q]
       /\ x = cpu_until'[q].vk_semaphore /\ y = cpu_until'[q].vk_semaphore_value
  BY <1>2, <1>6, <1>7
<1>17. /\ QueueCovered(q) <=> follows[q] \subseteq Ensured(t, c) \cup EnsuredBy(w) \cup Ensured(x, y)
       /\ LastCovers(q) <=> follows[q] \subseteq Ensured(t, l) \cup EnsuredBy(w) \cup Ensured(x, y)
  BY <1>7 DEF QueueCovered, LastCovers, EnsuredOnCpu
<1>18. /\ QueueCovered(q)' <=>
            follows'[q] \subseteq Ensured(t, c)' \cup EnsuredBy(w2)' \cup Ensured(x, y)'
       /\ LastCovers(q)' <=>
            follows'[q] \subseteq Ensured(t, l)' \cup EnsuredBy(w2)' \cup Ensured(x, y)'
  BY <1>16 DEF QueueCovered, LastCovers, EnsuredOnCpu
<1> QED
  BY <1>4, <1>11, <1>13, <1>14, <1>15, <1>17, <1>18

LEMMA CpuWaitCovers ==
  ASSUME Inv, Next, SubmissionsCovered, UpdatesCovered, NEW q \in Queues, WaitOnCpu(q)
  PROVE  /\ QueueCovered(q) => QueueCovered(q)'
         /\ LastCovers(q) => LastCovers(q)'
<1>1. QueueTypes(q) /\ QueueTypes(q)' /\ Types /\ TimelinesExact /\ ThreadsAtWork
  BY QueueTypesHold, QueueTypesHoldNext DEF Inv
<1> DEFINE t == VkQueueOf[q]
           f == Current(q).fence
           u == ChosenUpdate(q)
           until == [vk_semaphore |-> u.vk_semaphore, vk_semaphore_value |-> u.vk_semaphore_value]
<1>2. /\ OnOtherVkQueue(q) /\ Follow(q, u)
      /\ cpu_until' = [cpu_until EXCEPT ![q] = until]
      /\ UNCHANGED <<wait_semaphores, last_value, timeline_count>>
  BY DEF WaitOnCpu, gpu_vars
<1>3. f \in Fences /\ u \in fences[f].pending_updates /\ u \in PendingUpdate
  BY <1>2, ChosenUpdateFacts
<1> DEFINE new == promised[f][u.update_count]
<1>4. follows'[q] = follows[q] \cup new
  BY <1>1, <1>2 DEF Types, Follow
<1>5. new \subseteq Ensured(u.vk_semaphore, u.vk_semaphore_value)
  BY <1>3 DEF UpdatesCovered
<1>6. cpu_until'[q] = until
  BY <1>1, <1>2 DEF Types
<1>7. cpu_until[q] = Nothing
  BY <1>1, <1>2 DEF ThreadsAtWork, OnOtherVkQueue, Materialises, InWait
<1>8. PICK c, l, w, s, sv :
        /\ c = timeline_count[t] /\ l = last_value[q] /\ w = wait_semaphores[q]
        /\ s = u.vk_semaphore /\ sv = u.vk_semaphore_value
  OBVIOUS
<1>9. /\ t \in VkQueues /\ c \in Nat /\ l \in Nat /\ w \in Waits
      /\ s \in VkQueues /\ sv \in Nat
  <2>1. u.vk_semaphore \in VkQueues /\ u.vk_semaphore_value \in Nat
    <3> HIDE DEF u
    <3> QED
      BY <1>3 DEF PendingUpdate
  <2> QED
    BY <1>1, <1>8, <2>1 DEF QueueTypes
<1>10. /\ new \subseteq Ensured(s, sv)
       /\ cpu_until'[q].vk_semaphore = s /\ cpu_until'[q].vk_semaphore_value = sv
  BY <1>5, <1>6, <1>8
<1> HIDE DEF new, f, u, until
<1>11. /\ Ensured(t, c) \subseteq Ensured(t, c)'
       /\ Ensured(t, l) \subseteq Ensured(t, l)'
       /\ EnsuredBy(w) \subseteq EnsuredBy(w)'
       /\ Ensured(s, sv) \subseteq Ensured(s, sv)'
  BY <1>9, EnsuredGrows, EnsuredByGrows
<1>12. EnsuredOnCpu(q) = completed /\ completed \subseteq Ensured(t, c)'
       /\ completed \subseteq Ensured(t, l)'
  BY <1>1, <1>7, <1>9, NothingEnsured, DoneIsEnsured DEF EnsuredOnCpu
<1>13. /\ QueueCovered(q) <=>
            follows[q] \subseteq Ensured(t, c) \cup EnsuredBy(w) \cup EnsuredOnCpu(q)
       /\ LastCovers(q) <=>
            follows[q] \subseteq Ensured(t, l) \cup EnsuredBy(w) \cup EnsuredOnCpu(q)
  BY <1>8 DEF QueueCovered, LastCovers
<1>14. c = timeline_count'[t] /\ l = last_value'[q] /\ w = wait_semaphores'[q]
  BY <1>2, <1>8
<1>15. /\ QueueCovered(q)' <=>
            follows'[q] \subseteq Ensured(t, c)' \cup EnsuredBy(w)' \cup Ensured(s, sv)'
       /\ LastCovers(q)' <=>
            follows'[q] \subseteq Ensured(t, l)' \cup EnsuredBy(w)' \cup Ensured(s, sv)'
  BY <1>10, <1>14 DEF QueueCovered, LastCovers, EnsuredOnCpu
<1> QED
  BY <1>4, <1>10, <1>11, <1>12, <1>13, <1>15

LEMMA CpuWaitReturnsCovers ==
  ASSUME Inv, Next, SubmissionsCovered, NEW q \in Queues, CpuWaitReturns(q)
  PROVE  /\ QueueCovered(q) => QueueCovered(q)'
         /\ LastCovers(q) => LastCovers(q)'
<1>1. QueueTypes(q) /\ QueueTypes(q)' /\ Types /\ TimelinesExact
  BY QueueTypesHold, QueueTypesHoldNext DEF Inv
<1> DEFINE t == VkQueueOf[q]
<1>2. /\ Reached(cpu_until[q])
      /\ UNCHANGED <<follows, wait_semaphores, last_value, timeline_count>>
  BY DEF CpuWaitReturns, gpu_vars, history
<1>3. PICK c, l, w : c = timeline_count[t] /\ l = last_value[q] /\ w = wait_semaphores[q]
  OBVIOUS
<1>4. t \in VkQueues /\ c \in Nat /\ l \in Nat /\ w \in Waits
  BY <1>1, <1>3 DEF QueueTypes
<1>5. EnsuredOnCpu(q) = completed
  BY <1>1, <1>2, EnsuredFacts DEF EnsuredOnCpu, Reached, QueueTypes
<1>6. /\ completed \subseteq Ensured(t, c)' /\ completed \subseteq Ensured(t, l)'
  BY <1>4, DoneIsEnsured
<1>7. /\ Ensured(t, c) \subseteq Ensured(t, c)'
      /\ Ensured(t, l) \subseteq Ensured(t, l)'
      /\ EnsuredBy(w) \subseteq EnsuredBy(w)'
  BY <1>4, EnsuredGrows, EnsuredByGrows
<1>8. /\ QueueCovered(q) <=>
           follows[q] \subseteq Ensured(t, c) \cup EnsuredBy(w) \cup EnsuredOnCpu(q)
      /\ LastCovers(q) <=>
           follows[q] \subseteq Ensured(t, l) \cup EnsuredBy(w) \cup EnsuredOnCpu(q)
  BY <1>3 DEF QueueCovered, LastCovers
<1>9. /\ c = timeline_count'[t] /\ l = last_value'[q] /\ w = wait_semaphores'[q]
      /\ follows'[q] = follows[q]
  BY <1>2, <1>3
<1>10. /\ QueueCovered(q)' <=>
            follows[q] \subseteq Ensured(t, c)' \cup EnsuredBy(w)' \cup EnsuredOnCpu(q)'
       /\ LastCovers(q)' <=>
            follows[q] \subseteq Ensured(t, l)' \cup EnsuredBy(w)' \cup EnsuredOnCpu(q)'
  BY <1>9 DEF QueueCovered, LastCovers
<1> QED
  BY <1>5, <1>6, <1>7, <1>8, <1>10

\* Waits that are let go without a submission have been reached.
LEMMA NothingToFlushCovers ==
  ASSUME Inv, Next, SubmissionsCovered, NEW q \in Queues, FlushWaiters(q),
         DOMAIN eliminate_completed(wait_semaphores[q]) = {},
         UNCHANGED <<timeline_count, last_value>>
  PROVE  /\ QueueCovered(q) => QueueCovered(q)'
         /\ LastCovers(q) => LastCovers(q)'
<1>1. QueueTypes(q) /\ QueueTypes(q)' /\ Types /\ TimelinesExact /\ ThreadsAtWork
  BY QueueTypesHold, QueueTypesHoldNext DEF Inv
<1> DEFINE t == VkQueueOf[q]
<1>2. UNCHANGED follows /\ thread[q] = "ready"
  BY DEF FlushWaiters, history
<1>3. PICK c, l, w : c = timeline_count[t] /\ l = last_value[q] /\ w = wait_semaphores[q]
  OBVIOUS
<1>4. t \in VkQueues /\ c \in Nat /\ l \in Nat /\ w \in Waits
  BY <1>1, <1>3 DEF QueueTypes
<1>5. \A x \in DOMAIN w : timeline[x] >= w[x]
  BY <1>1, <1>3, <1>4, EliminateFacts
<1>6. EnsuredBy(w) \subseteq completed
  BY <1>1, <1>4, <1>5, ReachedWaits
<1>7. EnsuredOnCpu(q) = completed
  BY <1>1, <1>2, NothingEnsured DEF EnsuredOnCpu, ThreadsAtWork
<1>8. completed \subseteq Ensured(t, c)' /\ completed \subseteq Ensured(t, l)'
  BY <1>4, DoneIsEnsured
<1>9. Ensured(t, c) \subseteq Ensured(t, c)' /\ Ensured(t, l) \subseteq Ensured(t, l)'
  BY <1>4, EnsuredGrows
<1>10. /\ QueueCovered(q) <=>
            follows[q] \subseteq Ensured(t, c) \cup EnsuredBy(w) \cup EnsuredOnCpu(q)
       /\ LastCovers(q) <=>
            follows[q] \subseteq Ensured(t, l) \cup EnsuredBy(w) \cup EnsuredOnCpu(q)
  BY <1>3 DEF QueueCovered, LastCovers
<1>11. c = timeline_count'[t] /\ l = last_value'[q] /\ follows'[q] = follows[q]
  BY <1>2, <1>3
<1>12. /\ follows[q] \subseteq Ensured(t, c)' => QueueCovered(q)'
       /\ follows[q] \subseteq Ensured(t, l)' => LastCovers(q)'
  BY <1>11 DEF QueueCovered, LastCovers
<1> QED
  BY <1>6, <1>7, <1>8, <1>9, <1>10, <1>12

\* Every queue stays covered; by its last value, if it signals next.
LEMMA QueuesStayCovered ==
  ASSUME Inv, Next, NoQuietRelay(program), Covered, NEW q \in Queues
  PROVE  QueueCovered(q)' /\ (SignalsNext(q)' => LastCovers(q)')
<1>1. /\ Types /\ CommandsInOrder /\ UpdatesHaveSignallers
      /\ SubmissionsCovered /\ UpdatesCovered /\ QueueCovered(q)
      /\ SignalsNext(q) => LastCovers(q)
  BY DEF Inv, Covered, QueuesCovered, LastValueCovers, QueueCovered, LastCovers
<1>2. /\ follows \in [Queues -> SUBSET Works] /\ wait_semaphores \in [Queues -> Waits]
      /\ cpu_until \in [Queues -> SemaphoreValue]
  BY <1>1 DEF Types
<1>3. ASSUME QueueCovered(q) => QueueCovered(q)', LastCovers(q) => LastCovers(q)',
             ~Has(q, "execute")
      PROVE  QueueCovered(q)' /\ (SignalsNext(q)' => LastCovers(q)')
  BY <1>1, <1>3, SignalsNextStep
<1>4. ASSUME submissions'[q] = submissions[q] \/ ~Finished(q),
             follows'[q] = follows[q], wait_semaphores'[q] = wait_semaphores[q],
             cpu_until'[q] = cpu_until[q]
      PROVE  QueueCovered(q)' /\ (SignalsNext(q)' => LastCovers(q)')
  <2>1. ~Finished(q)
    <3>1. ASSUME Finished(q) PROVE submissions'[q] # submissions[q]
      <4>1. /\ DOMAIN submissions[q] = 1..Len(submissions[q]) /\ Len(submissions[q]) \in Nat \ {0}
            /\ DOMAIN submissions'[q] = 1..(Len(submissions[q]) - 1)
        BY <1>1, <3>1, FinishedFacts
      <4>2. Len(submissions[q]) \in DOMAIN submissions[q]
            /\ Len(submissions[q]) \notin DOMAIN submissions'[q]
        BY <4>1
      <4> QED
        BY <4>2
    <3> QED
      BY <1>4, <3>1
  <2> QED
    BY <1>1, <1>4, <2>1, SignalsNextStep, CoverKept
<1>5. ASSUME NEW r \in Queues, Application(r)
      PROVE  /\ ~Finished(q)
             /\ UNCHANGED <<follows, wait_semaphores, cpu_until>>
  <2>1. UNCHANGED <<follows, wait_semaphores, cpu_until>>
    BY <1>5 DEF Application, ApiExecute, ApiSignal, ApiWait, ApiCpuSignal, ApiRelease, history
  <2>2. \E type : Calls(r, type)
    BY <1>5 DEF Application, ApiExecute, ApiSignal, ApiWait, ApiCpuSignal, ApiRelease
  <2>3. next'[r] # next[r]
    BY <1>1, <2>2 DEF Calls, Types
  <2> QED
    BY <2>1, <2>3 DEF Finished
<1>6. ASSUME NEW r \in Queues, FenceWorker(r)
      PROVE  UNCHANGED <<submissions, follows, wait_semaphores, cpu_until>>
  BY <1>6 DEF FenceWorker, RetireSignal, RetireOrder, RetireRelease, thread_vars, history
<1>7. ASSUME NEW t \in VkQueues, GpuExecutes(t)
      PROVE  UNCHANGED <<submissions, follows, wait_semaphores, cpu_until>>
  BY <1>7 DEF GpuExecutes, thread_vars
<1>8. ASSUME NEW r \in Queues, r # q, SubmissionThread(r)
      PROVE  /\ submissions'[q] = submissions[q] /\ follows'[q] = follows[q]
             /\ wait_semaphores'[q] = wait_semaphores[q] /\ cpu_until'[q] = cpu_until[q]
  <2>1. submissions'[q] = submissions[q]
    BY <1>1, <1>8
      DEF SubmissionThread, WaitAlreadySatisfied, WaitSleeps, WaitOnOwnVkQueue, WaitDeferred,
          WaitOnCpu, CpuWaitReturns, FlushWaiters, SignalFence, Execute, Finish, Types
  <2>2. follows'[q] = follows[q]
    BY <1>2, <1>8
      DEF SubmissionThread, WaitAlreadySatisfied, WaitSleeps, WaitOnOwnVkQueue, WaitDeferred,
          WaitOnCpu, CpuWaitReturns, FlushWaiters, SignalFence, Execute, Follow, history
  <2>3. wait_semaphores'[q] = wait_semaphores[q]
    BY <1>2, <1>8
      DEF SubmissionThread, WaitAlreadySatisfied, WaitSleeps, WaitOnOwnVkQueue, WaitDeferred,
          WaitOnCpu, CpuWaitReturns, FlushWaiters, SignalFence, Execute, finalize_waits
  <2>4. cpu_until'[q] = cpu_until[q]
    BY <1>2, <1>8
      DEF SubmissionThread, WaitAlreadySatisfied, WaitSleeps, WaitOnOwnVkQueue, WaitDeferred,
          WaitOnCpu, CpuWaitReturns, FlushWaiters, SignalFence, Execute
  <2> QED
    BY <2>1, <2>2, <2>3, <2>4
<1>9. ASSUME SubmissionThread(q)
      PROVE  QueueCovered(q)' /\ (SignalsNext(q)' => LastCovers(q)')
  <2>0. /\ Has(q, "wait") => ~Has(q, "execute")
        /\ Has(q, "signal") => ~Has(q, "execute")
    BY DEF Has
  <2>1. CASE WaitAlreadySatisfied(q)
    <3>1. /\ UNCHANGED <<follows, wait_semaphores, cpu_until>> /\ Has(q, "wait")
      BY <2>1 DEF WaitAlreadySatisfied, InWait, history
    <3> QED
      BY <1>1, <1>3, <2>0, <3>1, CoverKept
  <2>2. CASE WaitSleeps(q)
    <3>1. /\ UNCHANGED <<follows, wait_semaphores, cpu_until>> /\ Has(q, "wait")
      BY <2>2 DEF WaitSleeps, InWait, history
    <3> QED
      BY <1>1, <1>3, <2>0, <3>1, CoverKept
  <2>3. CASE WaitOnOwnVkQueue(q)
    <3>1. Materialises(q) /\ Has(q, "wait") /\ Finished(q)
      BY <2>3 DEF WaitOnOwnVkQueue, Materialises, InWait, Has, Finish, Finished, app_vars
    <3> DEFINE f == Current(q).fence
    <3>2. PICK u \in SatisfyingOnQueue(fences[f], Current(q).value, VkQueueOf[q]) : TRUE
      BY <2>3 DEF WaitOnOwnVkQueue
    <3>3. f \in Fences /\ u \in fences[f].pending_updates /\ u.vk_semaphore = VkQueueOf[q]
      BY <3>1, <3>2, OwnUpdateFacts
    <3>4. \E r \in Queues : VkQueueOf[r] = VkQueueOf[q] /\ Signals(program, r, f)
      BY <1>1, <3>3 DEF UpdatesHaveSignallers
    <3>5. /\ Head(submissions[q]) = submissions[q][1]
          /\ program[q][submissions[q][1].id].type = "wait"
          /\ program[q][submissions[q][1].id].fence = f
      BY <1>1, <3>1, CommandFacts DEF Has, Current
    <3>6. WaitsForItsOwn(program, q, submissions[q][1].id)
      BY <3>4, <3>5 DEF WaitsForItsOwn
    <3>7. ~SignalsNext(q)'
      BY <3>1, <3>6, AfterOwnWaitNoSignalNext
    <3> QED
      BY <1>1, <2>3, <3>7, OwnWaitCovers
  <2>4. CASE WaitDeferred(q)
    <3>1. Has(q, "wait")
      BY <2>4 DEF WaitDeferred, OnOtherVkQueue, Materialises, InWait
    <3> QED
      BY <1>1, <1>3, <2>0, <2>4, <3>1, DeferredWaitCovers
  <2>5. CASE WaitOnCpu(q)
    <3>1. Has(q, "wait")
      BY <2>5 DEF WaitOnCpu, OnOtherVkQueue, Materialises, InWait
    <3> QED
      BY <1>1, <1>3, <2>0, <2>5, <3>1, CpuWaitCovers
  <2>6. CASE CpuWaitReturns(q)
    <3>1. Has(q, "wait")
      BY <2>6 DEF CpuWaitReturns, Inv, ThreadsAtWork
    <3> QED
      BY <1>1, <1>3, <2>0, <2>6, <3>1, CpuWaitReturnsCovers
  <2>7. CASE FlushWaiters(q)
    <3> DEFINE waits == eliminate_completed(wait_semaphores[q])
    <3>1. Has(q, "signal") /\ UNCHANGED follows
      BY <2>7 DEF FlushWaiters, history
    <3>2. CASE DOMAIN waits = {} /\ UNCHANGED <<timeline_count, last_value, vk_queue>>
      BY <1>1, <1>3, <2>0, <2>7, <3>1, <3>2, NothingToFlushCovers
    <3>3. CASE submit(q, waits, {})
      <4>1. waits \in Waits
        BY <1>1, <1>2, EliminateFacts
      <4>2. {} \in SUBSET Works /\ follows'[q] \subseteq follows[q] \cup {}
        BY <3>1
      <4> QED
        BY <3>3, <4>1, <4>2, SubmittedCovers
    <3> QED
      BY <2>7, <3>2, <3>3 DEF FlushWaiters
  <2>8. CASE SignalFence(q)
    <3>1. /\ UNCHANGED <<follows, wait_semaphores, cpu_until>> /\ Has(q, "signal")
      BY <2>8 DEF SignalFence, Inv, ThreadsAtWork
    <3> QED
      BY <1>1, <1>3, <2>0, <3>1, CoverKept
  <2>9. CASE Execute(q)
    <3> DEFINE waits == eliminate_completed(wait_semaphores[q])
               id == Head(submissions[q]).id
    <3>1. /\ submit(q, waits, {<<q, id>>}) /\ Has(q, "execute")
          /\ follows' = [follows EXCEPT ![q] = @ \cup {<<q, id>>}]
      BY <2>9 DEF Execute
    <3>2. waits \in Waits
      BY <1>1, <1>2, EliminateFacts
    <3>3. <<q, id>> \in Works
      BY <1>1, <3>1, CommandFacts DEF Has
    <3>4. {<<q, id>>} \in SUBSET Works
      BY <3>3
    <3>5. follows'[q] = follows[q] \cup {<<q, id>>}
      BY <1>2, <3>1
    <3> HIDE DEF waits, id
    <3> QED
      BY <3>1, <3>2, <3>4, <3>5, SubmittedCovers
  <2> QED
    BY <1>9, <2>1, <2>2, <2>3, <2>4, <2>5, <2>6, <2>7, <2>8, <2>9 DEF SubmissionThread
<1> QED
  <2>1. ASSUME NEW r \in Queues, Application(r)
        PROVE  QueueCovered(q)' /\ (SignalsNext(q)' => LastCovers(q)')
    BY <1>4, <1>5, <2>1
  <2>2. ASSUME NEW r \in Queues, FenceWorker(r)
        PROVE  QueueCovered(q)' /\ (SignalsNext(q)' => LastCovers(q)')
    BY <1>4, <1>6, <2>2
  <2>3. ASSUME NEW t \in VkQueues, GpuExecutes(t)
        PROVE  QueueCovered(q)' /\ (SignalsNext(q)' => LastCovers(q)')
    BY <1>4, <1>7, <2>3
  <2>4. ASSUME NEW r \in Queues, SubmissionThread(r)
        PROVE  QueueCovered(q)' /\ (SignalsNext(q)' => LastCovers(q)')
    <3>1. CASE r = q
      BY <1>9, <2>4, <3>1
    <3>2. CASE r # q
      BY <1>4, <1>8, <2>4, <3>2
    <3> QED
      BY <3>1, <3>2
  <2> QED
    BY <2>1, <2>2, <2>3, <2>4 DEF Next
-----------------------------------------------------------------------------
(* Submissions and updates stay covered.                                   *)

EntryCovered(t, i) ==
  vk_queue[t][i].after \subseteq
    Ensured(t, vk_queue[t][i].value - 1) \cup EnsuredBy(vk_queue[t][i].waits)

\* An entry that stays, wherever it stands afterwards.
LEMMA EntryStaysCovered ==
  ASSUME Inv, Next, SubmissionsCovered, NEW t \in VkQueues, NEW i \in DOMAIN vk_queue[t],
         NEW j, vk_queue'[t][j] = vk_queue[t][i]
  PROVE  vk_queue'[t][j].after \subseteq
           Ensured(t, vk_queue[t][j].value - 1)' \cup EnsuredBy(vk_queue[t][j].waits)'
<1>1. PICK v, w, a : /\ v = vk_queue[t][i].value - 1 /\ w = vk_queue[t][i].waits
                     /\ a = vk_queue[t][i].after
  OBVIOUS
<1>2. v \in Nat /\ w \in Waits
  <2>1. /\ vk_queue[t][i].value \in Nat /\ timeline[t] \in Nat
        /\ timeline[t] < vk_queue[t][i].value /\ w \in Waits
    BY <1>1, SubmissionFacts DEF Inv
  <2> QED
    BY <1>1, <2>1
<1>3. a \subseteq Ensured(t, v) \cup EnsuredBy(w)
  BY <1>1 DEF SubmissionsCovered
<1>4. Ensured(t, v) \subseteq Ensured(t, v)' /\ EnsuredBy(w) \subseteq EnsuredBy(w)'
  BY <1>2, EnsuredGrows, EnsuredByGrows
<1>5. v = vk_queue'[t][j].value - 1 /\ w = vk_queue'[t][j].waits /\ a = vk_queue'[t][j].after
  BY <1>1
<1> QED
  BY <1>3, <1>4, <1>5

\* The entry that is new.
LEMMA NewEntryCovered ==
  ASSUME Inv, Next, SubmissionsCovered, NEW q \in Queues, QueueCovered(q),
         NEW waits \in Waits, NEW work \in SUBSET Works, Submits(q, waits, work),
         NEW v, v = timeline_count[VkQueueOf[q]]
  PROVE  follows[q] \subseteq Ensured(VkQueueOf[q], v)' \cup EnsuredBy(waits)'
<1>1. QueueTypes(q) /\ Types /\ TimelinesExact /\ ThreadsAtWork
  BY QueueTypesHold DEF Inv
<1> DEFINE t == VkQueueOf[q]
<1>2. PICK w : w = wait_semaphores[q]
  OBVIOUS
<1>3. t \in VkQueues /\ v \in Nat /\ w \in Waits
  BY <1>1, <1>2 DEF QueueTypes
<1>4. follows[q] \subseteq Ensured(t, v) \cup EnsuredBy(w) \cup EnsuredOnCpu(q)
  BY <1>2 DEF QueueCovered
<1>5. thread[q] = "ready" /\ waits = eliminate_completed(w)
  BY <1>2 DEF Submits
<1>6. EnsuredOnCpu(q) = completed
  BY <1>1, <1>5, NothingEnsured DEF EnsuredOnCpu, ThreadsAtWork
<1>7. completed \subseteq Ensured(t, v)' /\ Ensured(t, v) \subseteq Ensured(t, v)'
  BY <1>3, DoneIsEnsured, EnsuredGrows
<1>8. ASSUME NEW x \in DOMAIN w
      PROVE  Ensured(x, w[x]) \subseteq Ensured(t, v)' \cup EnsuredBy(waits)'
  <2>1. x \in VkQueues /\ w[x] \in Nat
    BY <1>3, WaitsFacts
  <2>2. CASE x \in DOMAIN waits
    <3>1. waits[x] = w[x]
      BY <1>1, <1>3, <1>5, <2>2, EliminateFacts
    <3>2. w[x] <= waits[x]
      BY <2>1, <3>1
    <3> QED
      BY <2>1, <2>2, <3>2, WaitsEnsure
  <2>3. CASE x \notin DOMAIN waits
    <3>1. timeline[x] >= w[x]
      BY <1>1, <1>3, <1>5, <2>3, EliminateFacts
    <3>2. Ensured(x, w[x]) = completed
      BY <1>1, <2>1, <3>1, EnsuredFacts
    <3> QED
      BY <1>7, <3>2
  <2> QED
    BY <2>2, <2>3
<1>9. EnsuredBy(w) \subseteq Ensured(t, v)' \cup EnsuredBy(waits)'
  BY <1>8 DEF EnsuredBy
<1> QED
  BY <1>4, <1>6, <1>7, <1>9

LEMMA SubmissionsStayCovered ==
  ASSUME Inv, Next, SubmissionsCovered, QueuesCovered
  PROVE  SubmissionsCovered'
<1>1. Types /\ TimelinesExact
  BY DEF Inv
<1>2. SUFFICES ASSUME NEW t \in VkQueues, NEW j \in DOMAIN vk_queue'[t]
               PROVE  EntryCovered(t, j)'
  BY DEF SubmissionsCovered, EntryCovered
<1>3. ASSUME NEW i \in DOMAIN vk_queue[t], vk_queue'[t][j] = vk_queue[t][i]
      PROVE  EntryCovered(t, j)'
  BY <1>3, EntryStaysCovered DEF EntryCovered
<1>4. CASE GpuQuiet
  BY <1>3, <1>4 DEF GpuQuiet
<1>5. ASSUME NEW q \in Queues, NEW waits \in Waits, NEW work \in SUBSET Works,
             Submits(q, waits, work)
      PROVE  EntryCovered(t, j)'
  <2>1. submit(q, waits, work)
    BY <1>5 DEF Submits
  <2>2. CASE t # VkQueueOf[q]
    <3>1. vk_queue'[t] = vk_queue[t]
      BY <1>1, <2>1, <2>2, SubmitFacts
    <3> QED
      BY <1>3, <3>1
  <2>3. CASE t = VkQueueOf[q]
    <3> DEFINE L == Len(vk_queue[t])
    <3>1. /\ L \in Nat /\ DOMAIN vk_queue[t] = 1..L /\ DOMAIN vk_queue'[t] = 1..(L + 1)
          /\ \A i \in 1..L : vk_queue'[t][i] = vk_queue[t][i]
          /\ timeline_count[t] \in Nat
          /\ vk_queue'[t][L + 1] = [waits |-> waits, value |-> timeline_count[t] + 1,
                                    work |-> work, after |-> follows[q]]
      BY <1>1, <2>1, <2>3, SubmitFacts
    <3>2. CASE j # L + 1
      <4>1. j \in 1..L
        BY <3>1, <3>2
      <4> QED
        BY <1>3, <3>1, <4>1
    <3>3. CASE j = L + 1
      <4>1. PICK v : v = timeline_count[t]
        OBVIOUS
      <4>2. QueueCovered(q)
        BY DEF QueuesCovered, QueueCovered
      <4>3. follows[q] \subseteq Ensured(t, v)' \cup EnsuredBy(waits)'
        BY <1>5, <2>3, <4>1, <4>2, NewEntryCovered
      <4>4. /\ vk_queue'[t][j].value = v + 1 /\ vk_queue'[t][j].after = follows[q]
            /\ vk_queue'[t][j].waits = waits
        BY <3>1, <3>3, <4>1
      <4>5. vk_queue'[t][j].value - 1 = v
        BY <3>1, <4>1, <4>4
      <4> QED
        BY <4>3, <4>4, <4>5 DEF EntryCovered
    <3> QED
      BY <3>2, <3>3
  <2> QED
    BY <2>2, <2>3
<1>6. ASSUME NEW x \in VkQueues, GpuExecutes(x)
      PROVE  EntryCovered(t, j)'
  <2>1. CASE t # x
    <3>1. vk_queue'[t] = vk_queue[t]
      BY <1>1, <1>6, <2>1, ExecutesFacts
    <3> QED
      BY <1>3, <3>1
  <2>2. CASE t = x
    <3> DEFINE L == Len(vk_queue[t])
    <3>1. /\ L \in Nat \ {0} /\ DOMAIN vk_queue[t] = 1..L /\ DOMAIN vk_queue'[t] = 1..(L - 1)
          /\ \A i \in 1..(L - 1) : vk_queue'[t][i] = vk_queue[t][i + 1]
      BY <1>1, <1>6, <2>2, ExecutesFacts
    <3>2. j + 1 \in DOMAIN vk_queue[t]
      BY <3>1
    <3> QED
      BY <1>3, <3>1, <3>2
  <2> QED
    BY <2>1, <2>2
<1> QED
  BY <1>4, <1>5, <1>6, GpuStep

LEMMA UpdatesStayCovered ==
  ASSUME Inv, Next, Covered
  PROVE  UpdatesCovered'
<1>1. Types /\ TimelinesExact /\ ThreadsAtWork /\ CommandsInOrder /\ FencesInOrder
      /\ SubmissionsCovered /\ UpdatesCovered
  BY DEF Inv, Covered
<1>2. SUFFICES ASSUME NEW f \in Fences, NEW u \in fences'[f].pending_updates
               PROVE  promised'[f][u.update_count] \subseteq
                        Ensured(u.vk_semaphore, u.vk_semaphore_value)'
  BY DEF UpdatesCovered
<1>3. CASE u \in fences[f].pending_updates /\ promised'[f][u.update_count] = promised[f][u.update_count]
  <2>1. u.vk_semaphore \in VkQueues /\ u.vk_semaphore_value \in Nat
    BY <1>1, <1>3, FenceFields DEF FencesInOrder, InOrder, PendingUpdate
  <2>2. promised[f][u.update_count] \subseteq Ensured(u.vk_semaphore, u.vk_semaphore_value)
    BY <1>1, <1>3 DEF UpdatesCovered
  <2>3. Ensured(u.vk_semaphore, u.vk_semaphore_value)
          \subseteq Ensured(u.vk_semaphore, u.vk_semaphore_value)'
    BY <1>1, <2>1, EnsuredGrows
  <2> QED
    BY <1>3, <2>2, <2>3
<1>4. ASSUME NEW q \in Queues, SignalFence(q), f = Current(q).fence,
             u = [update_count |-> fences[f].update_count + 1,
                  virtual_value |-> Current(q).value,
                  vk_semaphore |-> VkQueueOf[q], vk_semaphore_value |-> last_value[q]]
      PROVE  promised'[f][u.update_count] \subseteq
               Ensured(u.vk_semaphore, u.vk_semaphore_value)'
  <2>1. PICK t, l : t = VkQueueOf[q] /\ l = last_value[q]
    OBVIOUS
  <2>2. QueueTypes(q)
    BY <1>1, QueueTypesHold
  <2>3. t \in VkQueues /\ l \in Nat
    BY <2>1, <2>2 DEF QueueTypes
  <2>4. u.vk_semaphore = t /\ u.vk_semaphore_value = l /\ u.update_count = fences[f].update_count + 1
    BY <1>4, <2>1
  <2>5. promised'[f][fences[f].update_count + 1] = follows[q] /\ Has(q, "signal")
    BY <1>4, SignalFenceFacts
  <2>6. thread[q] = "flushed"
    BY <1>4 DEF SignalFence
  <2>7. wait_semaphores[q] = NoSemaphores /\ cpu_until[q] = Nothing
    BY <1>1, <2>6 DEF ThreadsAtWork
  <2>8. SignalsNext(q)
    BY <1>1, <2>5, AtSignalSignalsNext
  <2>9. follows[q] \subseteq Ensured(t, l) \cup EnsuredBy(wait_semaphores[q]) \cup EnsuredOnCpu(q)
    BY <2>1, <2>8 DEF Covered, LastValueCovers
  <2>10. EnsuredBy(wait_semaphores[q]) = {} /\ EnsuredOnCpu(q) = completed
    BY <1>1, <2>7, NothingEnsured DEF EnsuredOnCpu
  <2>11. completed \subseteq Ensured(t, l)' /\ Ensured(t, l) \subseteq Ensured(t, l)'
    BY <1>1, <2>3, DoneIsEnsured, EnsuredGrows
  <2>12. follows[q] \subseteq Ensured(t, l)'
    BY <2>9, <2>10, <2>11
  <2> QED
    BY <2>4, <2>5, <2>12
<1> QED
  BY <1>3, <1>4, NewUpdates

LEMMA CoveredIsKept ==
  ASSUME Inv, Next, NoQuietRelay(program), Covered
  PROVE  Covered'
<1>1. SubmissionsCovered' /\ UpdatesCovered'
  BY SubmissionsStayCovered, UpdatesStayCovered DEF Covered
<1>2. \A q \in Queues : QueueCovered(q)' /\ (SignalsNext(q)' => LastCovers(q)')
  BY QueuesStayCovered
<1>3. QueuesCovered'
  BY <1>2 DEF QueuesCovered, QueueCovered
<1>4. LastValueCovers'
  BY <1>2 DEF LastValueCovers, LastCovers
<1> QED
  BY <1>1, <1>3, <1>4 DEF Covered

-----------------------------------------------------------------------------
(* With one signaller, what is visible is done.                            *)

LEMMA SignalsHere ==
  ASSUME Types, CommandsInOrder, NEW q \in Queues, Has(q, "signal")
  PROVE  Signals(program, q, Current(q).fence)
<1>1. /\ Head(submissions[q]) = submissions[q][1] /\ 1 \in DOMAIN submissions[q]
  BY CommandFacts DEF Has
<1>2. submissions[q][1].id \in DOMAIN program[q]
  BY <1>1 DEF CommandsInOrder
<1> QED
  BY <1>1, <1>2 DEF Has, Current, Signals

\* What was promised for a number that is taken is never changed.
LEMMA PromisesStand ==
  ASSUME Inv, Next, NEW f \in Fences, NEW n \in 1..fences[f].update_count
  PROVE  promised'[f][n] = promised[f][n]
<1>1. CASE FencesSettle
  BY <1>1 DEF FencesSettle
<1>2. ASSUME NEW q \in Queues, ApiWait(q) PROVE promised' = promised
  BY <1>2, ApiWaitFacts
<1>3. ASSUME NEW q \in Queues, SignalFence(q) PROVE promised'[f][n] = promised[f][n]
  BY <1>3, SignalFenceFacts
<1> QED
  BY <1>1, <1>2, <1>3, FenceStep

\* Only a fence worker makes an update visible.
Publishes(q, f) ==
  /\ RetireSignal(q)
  /\ f = Head(worker[q]).fence
  /\ fences'[f].signal_count = Head(worker[q]).update_count

LEMMA VisibleStep ==
  ASSUME Inv, Next, NEW f \in Fences
  PROVE  \/ fences'[f].signal_count = fences[f].signal_count
         \/ \E q \in Queues : Publishes(q, f)
<1>1. Types /\ CommandsInOrder /\ ThreadsAtWork /\ FencesInOrder
  BY DEF Inv
<1>2. fences \in [Fences -> FenceRecord] /\ \A h \in Fences : InOrder(fences[h])
  BY <1>1 DEF Types, FencesInOrder
<1> DEFINE Same == fences'[f].signal_count = fences[f].signal_count
<1>3. ASSUME NEW q \in Queues, Application(q) PROVE Same
  <2>1. CASE ApiExecute(q) \/ ApiSignal(q)
    BY <2>1 DEF ApiExecute, ApiSignal, fence_vars
  <2>2. ASSUME NEW h \in Fences, NEW v \in Value,
               fences' = [fences EXCEPT ![h] = signal_cpu_timeline_semaphore(@, v)]
        PROVE  Same
    BY <1>2, <2>2, CpuSignalFacts
  <2>3. CASE ApiCpuSignal(q)
    <3>1. NextCall(q).fence \in Fences /\ NextCall(q).value \in Value
      BY <1>1, <2>3, CallingFacts DEF ApiCpuSignal
    <3> QED
      BY <2>2, <2>3, <3>1 DEF ApiCpuSignal
  <2>4. CASE ApiRelease(q)
    <3>1. NextCall(q).fence \in Fences
      BY <1>1, <2>4, CallingFacts DEF ApiRelease
    <3>2. MaxValue \in Value
      BY MaxValueAssumption DEF Value
    <3> QED
      BY <2>2, <2>4, <3>1, <3>2 DEF ApiRelease
  <2>5. CASE ApiWait(q)
    <3> DEFINE h == NextCall(q).fence
               g == register_pending_gpu_wait(fences[h], NextCall(q).value)
    <3>1. fences' = [fences EXCEPT ![h] = g]
      BY <2>5 DEF ApiWait
    <3>2. g.signal_count = fences[h].signal_count \/ h \notin Fences
      BY <1>2 DEF register_pending_gpu_wait, FenceRecord
    <3> HIDE DEF g
    <3> QED
      BY <1>2, <3>1, <3>2
  <2> QED
    BY <1>3, <2>1, <2>3, <2>4, <2>5 DEF Application
<1>4. ASSUME NEW q \in Queues, SubmissionThread(q) PROVE Same
  <2>1. ASSUME UNCHANGED fences PROVE Same
    BY <2>1
  <2>2. ASSUME Has(q, "wait"), Consume(q) PROVE Same
    <3> DEFINE h == Current(q).fence
    <3>1. h \in Fences
      BY <1>1, <2>2, CurrentFacts
    <3> QED
      BY <1>2, <2>2, <3>1, ConsumeFacts DEF Consume
  <2>3. CASE WaitAlreadySatisfied(q) \/ WaitSleeps(q) \/ CpuWaitReturns(q)
    BY <2>1, <2>3 DEF WaitAlreadySatisfied, WaitSleeps, CpuWaitReturns, fence_vars
  <2>4. CASE WaitOnOwnVkQueue(q)
    BY <2>2, <2>4 DEF WaitOnOwnVkQueue, Materialises, InWait
  <2>5. CASE WaitDeferred(q)
    BY <2>2, <2>5 DEF WaitDeferred, OnOtherVkQueue, Materialises, InWait
  <2>6. CASE WaitOnCpu(q)
    BY <2>2, <2>6 DEF WaitOnCpu, OnOtherVkQueue, Materialises, InWait
  <2>7. CASE FlushWaiters(q) \/ Execute(q)
    BY <2>1, <2>7 DEF FlushWaiters, Execute, fence_vars
  <2>8. CASE SignalFence(q)
    <3>1. CASE f = Current(q).fence
      BY <2>8, <3>1, SignalFenceFacts
    <3>2. CASE f # Current(q).fence
      <4>1. fences'[f] = fences[f]
        BY <2>8, <3>2, SignalFenceFacts
      <4> QED
        BY <4>1
    <3> QED
      BY <3>1, <3>2
  <2> QED
    BY <1>4, <2>3, <2>4, <2>5, <2>6, <2>7, <2>8 DEF SubmissionThread
<1>5. ASSUME NEW q \in Queues, FenceWorker(q) PROVE Same \/ Publishes(q, f)
  <2>1. CASE RetireOrder(q) \/ RetireRelease(q)
    BY <2>1 DEF RetireOrder, RetireRelease, fence_vars
  <2>2. CASE RetireSignal(q)
    <3> DEFINE e == Head(worker[q])
    <3>1. e.fence \in Fences /\ e.update_count \in 1..fences[e.fence].update_count
      BY <2>2, SignalEntryFacts DEF RetireSignal, Retire
    <3>2. fences' = [fences EXCEPT ![e.fence] = fence_signal(fences[e.fence], e.update_count)]
      BY <2>2 DEF RetireSignal
    <3> HIDE DEF e
    <3>3. fence_signal(fences[e.fence], e.update_count).signal_count
            = IF fences[e.fence].signal_count < e.update_count
                THEN e.update_count ELSE fences[e.fence].signal_count
      BY <1>2, <3>1, PublishFacts
    <3>4. CASE f = e.fence
      <4>1. fences'[f].signal_count = e.update_count \/ Same
        BY <1>2, <3>1, <3>2, <3>3, <3>4
      <4> QED
        BY <2>2, <3>4, <4>1 DEF Publishes, e
    <3>5. CASE f # e.fence
      BY <1>2, <3>2, <3>5
    <3> QED
      BY <3>4, <3>5
  <2> QED
    BY <1>5, <2>1, <2>2 DEF FenceWorker
<1>6. ASSUME NEW t \in VkQueues, GpuExecutes(t) PROVE Same
  BY <1>6 DEF GpuExecutes, fence_vars
<1> QED
  BY <1>3, <1>4, <1>5, <1>6 DEF Next

LEMMA UpdatesStayAscending ==
  ASSUME Inv, Next, OneSignaller(program), UpdatesAscend
  PROVE  UpdatesAscend'
<1>1. /\ Types /\ CommandsInOrder /\ FencesInOrder /\ program' = program
      /\ \A q \in Queues : last_value[q] \in Nat /\ last_value'[q] \in Nat
           /\ last_value[q] <= last_value'[q]
  <2>1. Types' /\ Types
    BY InvIsKept DEF Inv
  <2>2. \A q \in Queues : last_value[q] \in Nat /\ last_value'[q] \in Nat
    BY <2>1 DEF Types
  <2> QED
    BY <2>1, <2>2, CommandStep, CountsGrow DEF Inv
<1>2. ASSUME NEW f \in Fences, NEW u \in fences[f].pending_updates
      PROVE  u.vk_semaphore_value \in Nat /\ u.update_count \in Nat
  BY <1>1, FenceFields DEF FencesInOrder, InOrder
\* The update that is new, its signaller and the updates before it.
<1>3. ASSUME NEW f \in Fences, NEW q \in Queues, SignalFence(q), f = Current(q).fence,
             NEW u \in fences'[f].pending_updates, u \notin fences[f].pending_updates,
             u = [update_count |-> fences[f].update_count + 1,
                  virtual_value |-> Current(q).value,
                  vk_semaphore |-> VkQueueOf[q], vk_semaphore_value |-> last_value[q]]
      PROVE  /\ \A r \in Queues : Signals(program, r, f) => r = q
             /\ \A w \in fences[f].pending_updates :
                  w.vk_semaphore_value <= u.vk_semaphore_value /\ w.update_count < u.update_count
             /\ u.vk_semaphore = VkQueueOf[q] /\ u.vk_semaphore_value = last_value[q]
             /\ fences'[f].pending_updates = fences[f].pending_updates \cup {u}
  <2>1. Signals(program, q, f)
    BY <1>1, <1>3, SignalFenceFacts, SignalsHere
  <2>2. \A r \in Queues : Signals(program, r, f) => r = q
    BY <2>1 DEF OneSignaller
  <2>3. u.vk_semaphore = VkQueueOf[q] /\ u.vk_semaphore_value = last_value[q]
        /\ u.update_count = fences[f].update_count + 1
    BY <1>3
  <2>4. ASSUME NEW w \in fences[f].pending_updates
        PROVE  w.vk_semaphore_value <= u.vk_semaphore_value /\ w.update_count < u.update_count
    <3>1. w.vk_semaphore_value <= last_value[q]
      BY <2>1 DEF UpdatesAscend
    <3>2. /\ w.update_count \in fences[f].signal_count + 1 .. fences[f].update_count
          /\ fences[f].update_count \in Nat /\ fences[f].signal_count \in Nat
      BY <1>1, FenceFields DEF FencesInOrder, InOrder, PendingWindow
    <3> QED
      BY <2>3, <3>1, <3>2
  <2>5. fences'[f].pending_updates = fences[f].pending_updates \cup {u}
    BY <1>3, SignalFenceFacts
  <2> QED
    BY <2>2, <2>3, <2>4, <2>5
<1>4. SUFFICES
        ASSUME NEW f \in Fences
        PROVE  /\ \A q \in Queues, u \in fences'[f].pending_updates :
                    Signals(program, q, f) =>
                      u.vk_semaphore = VkQueueOf[q] /\ u.vk_semaphore_value <= last_value'[q]
               /\ \A u, w \in fences'[f].pending_updates :
                    u.update_count <= w.update_count => u.vk_semaphore_value <= w.vk_semaphore_value
  BY <1>1 DEF UpdatesAscend
<1>5. ASSUME NEW q \in Queues, NEW u \in fences[f].pending_updates, Signals(program, q, f)
      PROVE  u.vk_semaphore = VkQueueOf[q] /\ u.vk_semaphore_value <= last_value'[q]
  <2>1. u.vk_semaphore = VkQueueOf[q] /\ u.vk_semaphore_value <= last_value[q]
    BY <1>5 DEF UpdatesAscend
  <2>2. u.vk_semaphore_value \in Nat
    BY <1>2
  <2> QED
    BY <1>1, <2>1, <2>2
<1>6. CASE fences'[f].pending_updates \subseteq fences[f].pending_updates
  BY <1>5, <1>6 DEF UpdatesAscend
<1>7. ASSUME NEW v \in fences'[f].pending_updates, v \notin fences[f].pending_updates
      PROVE  /\ \A q \in Queues, u \in fences'[f].pending_updates :
                  Signals(program, q, f) =>
                    u.vk_semaphore = VkQueueOf[q] /\ u.vk_semaphore_value <= last_value'[q]
             /\ \A u, w \in fences'[f].pending_updates :
                  u.update_count <= w.update_count => u.vk_semaphore_value <= w.vk_semaphore_value
  <2>1. PICK s \in Queues :
          /\ \A r \in Queues : Signals(program, r, f) => r = s
          /\ \A w \in fences[f].pending_updates :
               w.vk_semaphore_value <= v.vk_semaphore_value /\ w.update_count < v.update_count
          /\ v.vk_semaphore = VkQueueOf[s] /\ v.vk_semaphore_value = last_value[s]
          /\ fences'[f].pending_updates = fences[f].pending_updates \cup {v}
          /\ v.update_count = fences[f].update_count + 1 /\ fences[f].update_count \in Nat
    <3>1. PICK s \in Queues :
            /\ SignalFence(s) /\ f = Current(s).fence
            /\ v = [update_count |-> fences[f].update_count + 1,
                    virtual_value |-> Current(s).value,
                    vk_semaphore |-> VkQueueOf[s], vk_semaphore_value |-> last_value[s]]
      BY <1>7, NewUpdates
    <3>2. v.update_count = fences[f].update_count + 1
      BY <3>1
    <3>3. fences[f].update_count \in Nat
      BY <1>1, FenceFields DEF FencesInOrder, InOrder
    <3> QED
      BY <1>3, <1>7, <3>1, <3>2, <3>3
  <2>2. \A q \in Queues : Signals(program, q, f) =>
          v.vk_semaphore = VkQueueOf[q] /\ v.vk_semaphore_value <= last_value'[q]
    BY <1>1, <2>1
  <2>3. ASSUME NEW u \in fences'[f].pending_updates, NEW w \in fences'[f].pending_updates,
               u.update_count <= w.update_count
        PROVE  u.vk_semaphore_value <= w.vk_semaphore_value
    <3>1. CASE u \in fences[f].pending_updates /\ w \in fences[f].pending_updates
      BY <2>3, <3>1 DEF UpdatesAscend
    <3>2. CASE u \in fences[f].pending_updates /\ w = v
      BY <2>1, <3>2
    <3>3. CASE u = v /\ w \in fences[f].pending_updates
      BY <1>2, <2>1, <2>3, <3>3
    <3>4. CASE u = v /\ w = v
      BY <1>1, <2>1, <3>4
    <3> QED
      BY <2>1, <3>1, <3>2, <3>3, <3>4
  <2> QED
    BY <1>5, <2>1, <2>2, <2>3
<1> QED
  BY <1>6, <1>7

\* What a fence worker publishes is done: the values of the earlier updates were
\* reached before that of its own.
LEMMA PublishedIsDone ==
  ASSUME Inv, Next, UpdatesCovered, UpdatesAscend, NEW f \in Fences, NEW q \in Queues,
         Publishes(q, f), NEW n \in 1..fences'[f].signal_count, n > fences[f].signal_count
  PROVE  n \in 1..fences[f].update_count /\ promised[f][n] \subseteq completed
<1>1. Types /\ TimelinesExact /\ FencesInOrder /\ UpdatesHaveSignallers /\ EntriesMatch
  BY DEF Inv
<1> DEFINE e == Head(worker[q])
<1>2. /\ worker[q] # <<>> /\ e.type = "signal" /\ EntryReady(e) /\ f = e.fence
      /\ fences'[f].signal_count = e.update_count
  BY DEF Publishes, RetireSignal, Retire
<1>3. /\ 1 \in DOMAIN worker[q] /\ e = worker[q][1]
      /\ e.update_count \in 1..fences[f].update_count
      /\ e.vk_semaphore \in VkQueues /\ e.vk_semaphore_value \in Nat
  BY <1>2, SignalEntryFacts
<1>4. timeline[e.vk_semaphore] >= e.vk_semaphore_value
  BY <1>2 DEF EntryReady, Reached
<1>5. \A w \in fences[f].pending_updates :
        w.update_count = e.update_count =>
          w.vk_semaphore = e.vk_semaphore /\ w.vk_semaphore_value = e.vk_semaphore_value
  BY <1>1, <1>2, <1>3 DEF EntriesMatch
<1> HIDE DEF e
<1>6. /\ {u.update_count : u \in fences[f].pending_updates}
           = fences[f].signal_count + 1 .. fences[f].update_count
      /\ fences[f].signal_count \in Nat /\ fences[f].update_count \in Nat
  BY <1>1, FenceFields DEF FencesInOrder, InOrder, PendingWindow
<1>7. /\ n \in Nat /\ n <= e.update_count /\ n \in 1..fences[f].update_count
      /\ n \in fences[f].signal_count + 1 .. fences[f].update_count
      /\ e.update_count \in fences[f].signal_count + 1 .. fences[f].update_count
  BY <1>2, <1>3, <1>6
<1>8. PICK u \in fences[f].pending_updates : u.update_count = n
  BY <1>6, <1>7
<1>9. PICK w \in fences[f].pending_updates : w.update_count = e.update_count
  BY <1>6, <1>7
<1>10. u.vk_semaphore_value <= w.vk_semaphore_value
  BY <1>7, <1>8, <1>9 DEF UpdatesAscend
<1>11. u.vk_semaphore = w.vk_semaphore
  BY <1>1 DEF UpdatesHaveSignallers, UpdatesAscend
<1>12. u.vk_semaphore \in VkQueues /\ u.vk_semaphore_value \in Nat
  BY <1>1, FenceFields DEF FencesInOrder, InOrder
<1>13. timeline[u.vk_semaphore] >= u.vk_semaphore_value
  <2>1. timeline[u.vk_semaphore] \in Nat
    BY <1>1, <1>12 DEF Types
  <2>2. w.vk_semaphore = e.vk_semaphore /\ w.vk_semaphore_value = e.vk_semaphore_value
    BY <1>5, <1>9
  <2>3. /\ timeline[u.vk_semaphore] >= e.vk_semaphore_value
        /\ u.vk_semaphore_value <= e.vk_semaphore_value
    BY <1>4, <1>10, <1>11, <2>2
  <2> QED
    BY <1>3, <1>12, <2>1, <2>3
<1>14. Ensured(u.vk_semaphore, u.vk_semaphore_value) = completed
  BY <1>1, <1>12, <1>13, EnsuredFacts
<1>15. promised[f][n] \subseteq Ensured(u.vk_semaphore, u.vk_semaphore_value)
  BY <1>8 DEF UpdatesCovered
<1> QED
  BY <1>7, <1>14, <1>15

LEMMA VisibleStaysDone ==
  ASSUME Inv, Next, UpdatesCovered, UpdatesAscend, VisibleMeansDone
  PROVE  VisibleMeansDone'
<1>1. FencesInOrder
  BY DEF Inv
<1>2. SUFFICES ASSUME NEW f \in Fences, NEW n \in 1..fences'[f].signal_count
               PROVE  promised'[f][n] \subseteq completed'
  BY DEF VisibleMeansDone
<1>3. /\ fences[f].signal_count \in Nat /\ fences[f].update_count \in Nat
      /\ fences[f].signal_count <= fences[f].update_count
  BY <1>1, FenceFields DEF FencesInOrder, InOrder, PendingWindow
<1>4. n \in 1..fences[f].update_count /\ promised[f][n] \subseteq completed
  <2>1. CASE n \in 1..fences[f].signal_count
    BY <1>3, <2>1 DEF VisibleMeansDone
  <2>2. CASE n \notin 1..fences[f].signal_count
    <3>1. fences'[f].signal_count # fences[f].signal_count /\ n > fences[f].signal_count
      BY <1>3, <2>2
    <3>2. PICK q \in Queues : Publishes(q, f)
      BY <3>1, VisibleStep
    <3> QED
      BY <3>1, <3>2, PublishedIsDone
  <2> QED
    BY <2>1, <2>2
<1>5. promised'[f][n] = promised[f][n]
  BY <1>4, PromisesStand
<1> QED
  BY <1>4, <1>5, CompletedGrows

-----------------------------------------------------------------------------
(* The invariant holds.                                                    *)

LEMMA NewFence ==
  /\ fence_init(0) \in FenceRecord
  /\ InOrder(fence_init(0))
  /\ fence_init(0).update_count = 0 /\ fence_init(0).signal_count = 0
  /\ fence_init(0).pending_updates = {}
<1>1. 0 \in Value
  BY MaxValueAssumption DEF Value
<1>2. fence_init(0) \in FenceRecord
  BY <1>1 DEF fence_init, FenceRecord
<1>3. /\ fence_init(0).update_count = 0 /\ fence_init(0).signal_count = 0
      /\ fence_init(0).pending_updates = {} /\ fence_init(0).wait_tickets = {}
      /\ fence_init(0).events = {} /\ fence_init(0).virtual_value = 0
      /\ fence_init(0).max_pending = 0
  BY DEF fence_init
<1>4. WaitersUnsatisfied(fence_init(0)) /\ MaxPendingExact(fence_init(0))
  BY <1>3 DEF WaitersUnsatisfied, MaxPendingExact
<1>5. PendingWindow(fence_init(0))
  BY <1>3 DEF PendingWindow
<1> QED
  BY <1>2, <1>3, <1>4, <1>5 DEF InOrder

LEMMA InitIInv ==
  ASSUME Init
  PROVE  IInv
<1>1. \A f \in Fences : fences[f] = fence_init(0) /\ promised[f] = <<>>
  BY DEF Init
<1>2. \A q \in Queues : /\ submissions[q] = <<>> /\ worker[q] = <<>> /\ thread[q] = "ready"
                        /\ cpu_until[q] = Nothing /\ last_value[q] = 0 /\ follows[q] = {}
  BY DEF Init
<1>3. \A t \in VkQueues : vk_queue[t] = <<>> /\ timeline[t] = 0 /\ timeline_count[t] = 0
  BY DEF Init
<1>4. /\ DOMAIN <<>> = {} /\ Len(<<>>) = 0
  OBVIOUS
<1>5. \A f \in Fences : /\ fences[f].pending_updates = {} /\ InOrder(fences[f])
                        /\ fences[f].update_count = 0 /\ fences[f].signal_count = 0
  BY <1>1, NewFence
<1>6. Types
  <2>1. fences \in [Fences -> FenceRecord]
    BY NewFence DEF Init
  <2>2. \A q \in Queues : Nothing \in SemaphoreValue
    BY QueuesAssumption DEF Nothing, SemaphoreValue
  <2>3. cpu_until \in [Queues -> SemaphoreValue]
    BY <2>2 DEF Init
  <2>4. NoSemaphores \in Waits
    <3>1. NoSemaphores \in [{} -> Nat]
      BY DEF NoSemaphores
    <3> QED
      BY <3>1 DEF Waits
  <2>5. wait_semaphores \in [Queues -> Waits]
    BY <2>4 DEF Init
  <2>6. /\ submissions \in [Queues -> Seq(Command)]
        /\ wait_fences \in [Queues -> Seq([fence : Fences, update_count : Nat])]
        /\ vk_queue \in [VkQueues -> Seq(GpuSubmission)]
        /\ worker \in [Queues -> Seq(Entry)]
        /\ promised \in [Fences -> Seq(SUBSET Works)]
    BY DEF Init
  <2>7. /\ program \in Programs
        /\ next \in [Queues -> Nat \ {0}]
        /\ thread \in [Queues -> {"ready", "asleep", "awake", "cpu_wait", "flushed"}]
        /\ last_value \in [Queues -> Nat]
        /\ timeline_count \in [VkQueues -> Nat]
        /\ timeline \in [VkQueues -> Nat]
        /\ completed \subseteq Works
        /\ follows \in [Queues -> SUBSET Works]
    BY DEF Init
  <2> QED
    BY <2>1, <2>3, <2>5, <2>6, <2>7 DEF Types
<1>7. CommandsInOrder /\ TicketsStand /\ EntriesMatch
  BY <1>2, <1>4 DEF CommandsInOrder, TicketsStand, EntriesMatch
<1>8. ThreadsAtWork
  BY <1>2 DEF ThreadsAtWork
<1>9. TimelinesExact
  BY <1>2, <1>3, <1>4, QueuesAssumption DEF TimelinesExact
<1>10. FencesInOrder /\ UpdatesHaveSignallers /\ UpdatesAscend /\ UpdatesCovered
  BY <1>1, <1>4, <1>5 DEF FencesInOrder, UpdatesHaveSignallers, UpdatesAscend, UpdatesCovered
<1>11. SubmissionsCovered
  BY <1>3, <1>4 DEF SubmissionsCovered
<1>12. QueuesCovered /\ LastValueCovers
  BY <1>2 DEF QueuesCovered, LastValueCovers
<1>13. VisibleMeansDone
  BY <1>5 DEF VisibleMeansDone
<1> QED
  BY <1>6, <1>7, <1>8, <1>9, <1>10, <1>11, <1>12, <1>13 DEF IInv, Inv, Covered

LEMMA NextIInv ==
  ASSUME IInv, Next
  PROVE  IInv'
<1>1. Inv /\ Inv' /\ program' = program
  BY InvIsKept, CommandStep DEF IInv
<1>2. NoQuietRelay(program) => Covered /\ Covered'
  BY <1>1, CoveredIsKept DEF IInv
<1>3. NoQuietRelay(program) /\ OneSignaller(program) => UpdatesAscend' /\ VisibleMeansDone'
  BY <1>1, <1>2, UpdatesStayAscending, VisibleStaysDone DEF IInv, Covered
<1> QED
  BY <1>1, <1>2, <1>3 DEF IInv

LEMMA StutterIInv ==
  ASSUME IInv, UNCHANGED vars
  PROVE  IInv'
<1>1. /\ UNCHANGED <<program, next, submissions, thread, cpu_until, wait_fences, wait_semaphores>>
      /\ UNCHANGED <<last_value, timeline_count, vk_queue, timeline, worker, fences>>
      /\ UNCHANGED <<completed, follows, promised>>
  BY DEF vars, app_vars, thread_vars, gpu_vars, fence_vars, history
<1>2. Inv'
  <2>1. Types'
    BY <1>1 DEF IInv, Inv, Types
  <2>2. CommandsInOrder' /\ TicketsStand'
    BY <1>1 DEF IInv, Inv, CommandsInOrder, TicketsStand
  <2>3. ThreadsAtWork' /\ TimelinesExact'
    BY <1>1 DEF IInv, Inv, ThreadsAtWork, Has, TimelinesExact
  <2>4. FencesInOrder' /\ UpdatesHaveSignallers' /\ EntriesMatch'
    BY <1>1 DEF IInv, Inv, FencesInOrder, UpdatesHaveSignallers, EntriesMatch
  <2> QED
    BY <2>1, <2>2, <2>3, <2>4 DEF Inv
<1>3. Covered => Covered'
  BY <1>1
    DEF Covered, SubmissionsCovered, QueuesCovered, UpdatesCovered, LastValueCovers,
        SignalsNext, Remaining, Ensured, EnsuredBy, EnsuredOnCpu
<1>4. (UpdatesAscend => UpdatesAscend') /\ (VisibleMeansDone => VisibleMeansDone')
  BY <1>1 DEF UpdatesAscend, VisibleMeansDone
<1> QED
  BY <1>1, <1>2, <1>3, <1>4 DEF IInv

\* The inductive invariant: what precedes a submission, an update or a queue's next
\* submission is covered by the semaphore values that stand for it.
THEOREM OrderHolds == Spec => []IInv
<1>1. IInv /\ [Next]_vars => IInv'
  BY NextIInv, StutterIInv
<1> QED
  BY InitIInv, <1>1, PTL DEF Spec

-----------------------------------------------------------------------------
(* What the application can rely on.                                       *)

\* A Wait that was resolved holds on the GPU, through any chain of signals and
\* waits, however the queues share the VkQueues: what a submission has to come
\* after is done when it may execute.  d3d12_command_queue_signal signals with the
\* value of the queue's own last submission; the condition is what that needs.
THEOREM WaitsHoldOnTheGpu == Spec => [](NoQuietRelay(program) => GpuFollowsSignals)
<1>1. IInv => (NoQuietRelay(program) => GpuFollowsSignals)
  BY HeadFollows DEF IInv, Inv, Covered, GpuFollowsSignals
<1> QED
  BY OrderHolds, <1>1, PTL

\* A value is visible on the CPU only when the work before its Signal is done,
\* whichever fence worker published it, if in addition no fence is signalled by
\* two queues: d3d12_fence_signal makes earlier updates visible with its own.
THEOREM VisibleValuesAreDone ==
  Spec => [](NoQuietRelay(program) /\ OneSignaller(program) => VisibleMeansDone)
<1>1. IInv => (NoQuietRelay(program) /\ OneSignaller(program) => VisibleMeansDone)
  BY DEF IInv
<1> QED
  BY OrderHolds, <1>1, PTL
-----------------------------------------------------------------------------
(***************************************************************************)
(* No knot.  Submissions and fence workers wait only for what was there    *)
(* before them, so among any of them there is one that waits for no other. *)
(***************************************************************************)
\* The number of an update of a fence is one it has taken, and a semaphore value one
\* that has been submitted.
EntryKnown(e) ==
  /\ e.type = "order" => e.update_count <= fences[e.fence].update_count
  /\ e.type \in {"signal", "release"} =>
       e.vk_semaphore_value <= timeline_count[e.vk_semaphore]

\* Nobody waits for what has not been submitted yet.
WaitsSubmitted ==
  /\ \A t \in VkQueues : \A i \in DOMAIN vk_queue[t] : \A x \in DOMAIN vk_queue[t][i].waits :
       vk_queue[t][i].waits[x] <= timeline_count[x]
  /\ \A q \in Queues : \A x \in DOMAIN wait_semaphores[q] :
       wait_semaphores[q][x] <= timeline_count[x]
  /\ \A q \in Queues : cpu_until[q].vk_semaphore_value <= timeline_count[cpu_until[q].vk_semaphore]
  /\ \A f \in Fences : \A u \in fences[f].pending_updates :
       u.vk_semaphore_value <= timeline_count[u.vk_semaphore]

OrdersKnown ==
  /\ \A q \in Queues : \A i \in DOMAIN wait_fences[q] :
       wait_fences[q][i].update_count <= fences[wait_fences[q][i].fence].update_count
  /\ \A q \in Queues : \A i \in DOMAIN worker[q] : EntryKnown(worker[q][i])

\* An update that is not visible yet has its entry with some fence worker.
SignalOf(e, f, n) == e.type = "signal" /\ e.fence = f /\ e.update_count = n

UpdatesHaveEntries ==
  \A f \in Fences : \A n \in fences[f].signal_count + 1 .. fences[f].update_count :
    \E q \in Queues : \E i \in DOMAIN worker[q] : SignalOf(worker[q][i], f, n)

\* The submissions that have not executed, by VkQueue and value.
Pending ==
  UNION {{<<t, v>> : v \in timeline[t] + 1 .. timeline_count[t]} : t \in VkQueues}

SubmissionAt(t, v) == vk_queue[t][v - timeline[t]]

\* A submission that waits for none of D: not behind one in its VkQueue, not for
\* the semaphore value of one.
WaitsForNone(D, t, v) ==
  /\ \A w \in Nat : <<t, w>> \in D => v <= w
  /\ \A x \in DOMAIN SubmissionAt(t, v).waits : \A w \in Nat :
       <<x, w>> \in D => SubmissionAt(t, v).waits[x] < w

\* However many submissions are picked, they do not all wait for each other.
SubmissionsUntied ==
  \A D \in SUBSET Pending :
    D # {} => \E t \in VkQueues, v \in Nat : <<t, v>> \in D /\ WaitsForNone(D, t, v)

\* The same for the entries of the fence workers, which wait for those before them
\* and, to keep the order of a fence, for the entry of a signal.
Slots == UNION {{<<q, i>> : i \in DOMAIN worker[q]} : q \in Queues}

EntryWaitsForNone(D, q, i) ==
  /\ \A j \in Nat : <<q, j>> \in D => i <= j
  /\ worker[q][i].type = "order" =>
       \A r \in Queues, j \in Nat :
         <<r, j>> \in D => ~ SignalOf(worker[r][j], worker[q][i].fence, worker[q][i].update_count)

EntriesUntied ==
  \A D \in SUBSET Slots :
    D # {} => \E q \in Queues, i \in Nat : <<q, i>> \in D /\ EntryWaitsForNone(D, q, i)

KnotInv ==
  /\ WaitsSubmitted
  /\ OrdersKnown
  /\ UpdatesHaveEntries
  /\ SubmissionsUntied
  /\ EntriesUntied

-----------------------------------------------------------------------------
(* How the entries of a fence worker change.                               *)

\* The worker of q keeps its entries and gets others behind them.
Extends(q, added) ==
  /\ WorkerOf(q)
  /\ added \in Seq(Entry)
  /\ worker'[q] = worker[q] \o added

NoSignal(s) == \A i \in DOMAIN s : s[i].type # "signal"

LEMMA AppendConcat ==
  ASSUME NEW S, NEW s \in Seq(S), NEW e \in S
  PROVE  Append(s, e) = s \o <<e>> /\ <<e>> \in Seq(S)
BY AppendProperties, ConcatProperties, LenProperties

LEMMA EnqueueExtends ==
  ASSUME Types, NEW q \in Queues, NEW e \in Entry, worker' = enqueue(worker, q, e)
  PROVE  Extends(q, <<e>>)
<1>1. worker \in [Queues -> Seq(Entry)] /\ worker[q] \in Seq(Entry)
  BY DEF Types
<1>2. WorkerOf(q)
  BY EnqueueKeepsSignals
<1>3. Append(worker[q], e) = worker[q] \o <<e>> /\ <<e>> \in Seq(Entry)
  BY <1>1, AppendConcat
<1>4. worker'[q] = Append(worker[q], e)
  BY <1>1 DEF enqueue
<1> QED
  BY <1>2, <1>3, <1>4 DEF Extends

LEMMA FinalizeExtends ==
  ASSUME Types, NEW q \in Queues, NEW entries \in Seq(Entry), NoSignal(entries),
         finalize_waits(q, entries)
  PROVE  Extends(q, OrderEntries(q) \o entries)
<1>1. worker \in [Queues -> Seq(Entry)] /\ worker[q] \in Seq(Entry)
  BY DEF Types
<1>2. OrderEntries(q) \in Seq(Entry)
  BY OrderEntriesType
<1>3. WorkerOf(q)
  BY FinalizeKeepsSignals DEF NoSignal
<1>4. worker'[q] = worker[q] \o OrderEntries(q) \o entries
  BY <1>1 DEF finalize_waits
<1>5. (worker[q] \o OrderEntries(q)) \o entries = worker[q] \o (OrderEntries(q) \o entries)
  BY <1>1, <1>2, ConcatAssociative
<1>6. OrderEntries(q) \o entries \in Seq(Entry)
  BY <1>2, ConcatFacts
<1> QED
  BY <1>3, <1>4, <1>5, <1>6 DEF Extends

\* What an order entry made of a resolved wait is.
LEMMA OrderEntriesFields ==
  ASSUME Types, NEW q \in Queues, NEW i \in DOMAIN OrderEntries(q)
  PROVE  /\ i \in DOMAIN wait_fences[q]
         /\ wait_fences[q][i].fence \in Fences /\ wait_fences[q][i].update_count \in Nat
         /\ OrderEntries(q)[i]
              = OrderEntry(wait_fences[q][i].fence, wait_fences[q][i].update_count)
<1>1. wait_fences[q] \in Seq([fence : Fences, update_count : Nat])
  BY DEF Types
<1>2. i \in DOMAIN wait_fences[q]
  BY DEF OrderEntries
<1>3. wait_fences[q][i] \in [fence : Fences, update_count : Nat]
  BY <1>1, <1>2, LenProperties
<1> QED
  BY <1>2, <1>3 DEF OrderEntries

\* The fence worker of q takes the entry at the head.
LEMMA RetireFacts ==
  ASSUME Types, NEW q \in Queues, NEW type, Retire(q, type)
  PROVE  /\ WorkerOf(q)
         /\ worker[q] # <<>> /\ 1 \in DOMAIN worker[q]
         /\ Head(worker[q]) = worker[q][1] /\ Head(worker[q]).type = type
         /\ EntryReady(Head(worker[q])) /\ Head(worker[q]) \in Entry
         /\ worker'[q] = Tail(worker[q])
         /\ \A i \in DOMAIN worker'[q] :
              i \in Nat \ {0} /\ i + 1 \in DOMAIN worker[q] /\ worker'[q][i] = worker[q][i + 1]
         /\ \A i \in DOMAIN worker[q] : i # 1 =>
              i - 1 \in DOMAIN worker'[q] /\ worker'[q][i - 1] = worker[q][i]
<1>1. worker \in [Queues -> Seq(Entry)] /\ worker[q] \in Seq(Entry) /\ worker[q] # <<>>
  BY DEF Types, Retire
<1>2. WorkerOf(q)
  BY RetireKeepsSignals
<1> DEFINE s == Tail(worker[q])
<1>3. /\ DOMAIN worker[q] = 1..Len(worker[q])
      /\ DOMAIN s = 1..(Len(worker[q]) - 1)
      /\ Len(worker[q]) \in Nat \ {0}
      /\ \A i \in 1..(Len(worker[q]) - 1) : s[i] = worker[q][i + 1]
      /\ Head(worker[q]) = worker[q][1] /\ 1 \in DOMAIN worker[q] /\ Head(worker[q]) \in Entry
  BY <1>1, TailFacts
<1>4. worker'[q] = s
  BY <1>1 DEF Retire
<1> HIDE DEF s
<1>5. \A i \in DOMAIN worker'[q] :
        i \in Nat \ {0} /\ i + 1 \in DOMAIN worker[q] /\ worker'[q][i] = worker[q][i + 1]
  BY <1>3, <1>4
<1>6. ASSUME NEW i \in DOMAIN worker[q], i # 1
      PROVE  i - 1 \in DOMAIN worker'[q] /\ worker'[q][i - 1] = worker[q][i]
  <2>1. i \in Nat /\ i - 1 \in 1..(Len(worker[q]) - 1) /\ (i - 1) + 1 = i
    BY <1>3, <1>6
  <2> QED
    BY <1>3, <1>4, <2>1
<1>7. Head(worker[q]).type = type /\ EntryReady(Head(worker[q]))
  BY DEF Retire
<1> QED
  BY <1>1, <1>2, <1>3, <1>4, <1>5, <1>6, <1>7 DEF s

\* Where the entries of an extended worker come from.
LEMMA ExtendsFacts ==
  ASSUME Types, NEW q \in Queues, NEW added, Extends(q, added)
  PROVE  /\ \A i \in DOMAIN worker[q] :
              i \in DOMAIN worker'[q] /\ worker'[q][i] = worker[q][i]
         /\ \A i \in DOMAIN worker'[q] : i \notin DOMAIN worker[q] =>
              /\ i \in Nat /\ \A j \in DOMAIN worker[q] : j < i
              /\ \E k \in DOMAIN added : worker'[q][i] = added[k]
         /\ \A k \in DOMAIN added : \E i \in DOMAIN worker'[q] : worker'[q][i] = added[k]
<1> DEFINE s == worker[q]
           z == s \o added
<1>1. s \in Seq(Entry) /\ added \in Seq(Entry) /\ worker'[q] = z
  BY DEF Types, Extends
<1> HIDE DEF s
<1>2. /\ Len(z) = Len(s) + Len(added)
      /\ \A i \in 1 .. Len(s) + Len(added) :
           z[i] = IF i <= Len(s) THEN s[i] ELSE added[i - Len(s)]
      /\ z \in Seq(Entry)
  BY <1>1, ConcatProperties
<1>3. /\ Len(s) \in Nat /\ Len(added) \in Nat
      /\ DOMAIN s = 1..Len(s) /\ DOMAIN added = 1..Len(added)
      /\ DOMAIN z = 1 .. Len(s) + Len(added)
  BY <1>1, <1>2, LenProperties
<1> HIDE DEF z
<1>4. \A i \in DOMAIN s : i \in DOMAIN z /\ z[i] = s[i]
  BY <1>2, <1>3
<1>5. ASSUME NEW i \in DOMAIN z, i \notin DOMAIN s
      PROVE  /\ i \in Nat /\ \A j \in DOMAIN s : j < i
             /\ \E k \in DOMAIN added : z[i] = added[k]
  <2>1. i \in Nat /\ Len(s) < i /\ i - Len(s) \in DOMAIN added
    BY <1>3, <1>5
  <2>2. z[i] = added[i - Len(s)]
    BY <1>2, <1>3, <2>1
  <2>3. \A j \in DOMAIN s : j < i
    BY <1>3, <2>1
  <2> QED
    BY <2>1, <2>2, <2>3
<1>6. ASSUME NEW k \in DOMAIN added PROVE \E i \in DOMAIN z : z[i] = added[k]
  <2>1. Len(s) + k \in DOMAIN z /\ ~ (Len(s) + k <= Len(s)) /\ (Len(s) + k) - Len(s) = k
    BY <1>3
  <2>2. z[Len(s) + k] = added[(Len(s) + k) - Len(s)]
    BY <1>2, <1>3, <2>1
  <2> QED
    BY <2>1, <2>2
<1> QED
  BY <1>1, <1>4, <1>5, <1>6 DEF s

-----------------------------------------------------------------------------
(* The fence workers' entries in a step.                                   *)

\* The counters that numbers and values are checked against only grow.
LEMMA UpdateCountsGrow ==
  ASSUME Inv, Next, NEW f \in Fences
  PROVE  /\ fences[f].update_count \in Nat /\ fences'[f].update_count \in Nat
         /\ fences[f].signal_count \in Nat /\ fences'[f].signal_count \in Nat
         /\ fences[f].update_count <= fences'[f].update_count
<1>1. fences[f] \in FenceRecord /\ fences'[f] \in FenceRecord
  BY FencesStayInOrder DEF Inv, Types
<1>2. /\ fences[f].update_count \in Nat /\ fences'[f].update_count \in Nat
      /\ fences[f].signal_count \in Nat /\ fences'[f].signal_count \in Nat
  BY <1>1, FenceFields
<1>3. CASE FencesSettle
  BY <1>2, <1>3 DEF FencesSettle, Settles
<1>4. ASSUME NEW q \in Queues, ApiWait(q)
      PROVE  fences[f].update_count <= fences'[f].update_count
  BY <1>2, <1>4, ApiWaitFacts
<1>5. ASSUME NEW q \in Queues, SignalFence(q)
      PROVE  fences[f].update_count <= fences'[f].update_count
  <2>1. CASE f = Current(q).fence
    BY <1>2, <1>5, <2>1, SignalFenceFacts
  <2>2. CASE f # Current(q).fence
    <3>1. fences'[f] = fences[f]
      BY <1>5, <2>2, SignalFenceFacts
    <3> QED
      BY <1>2, <3>1
  <2> QED
    BY <2>1, <2>2
<1> QED
  BY <1>2, <1>3, <1>4, <1>5, FenceStep

LEMMA EntryFields ==
  ASSUME NEW e \in Entry
  PROVE  /\ e.type \in {"signal", "order", "release"}
         /\ e.type \in {"signal", "order"} => e.fence \in Fences /\ e.update_count \in Nat
         /\ e.type \in {"signal", "release"} =>
              e.vk_semaphore \in VkQueues /\ e.vk_semaphore_value \in Nat
         /\ e.type = "release" => e.id \in Nat
BY DEF Entry

\* The same of an entry, after the step.
KnownNext(e) ==
  /\ e.type = "order" => e.update_count <= fences'[e.fence].update_count
  /\ e.type \in {"signal", "release"} =>
       e.vk_semaphore_value <= timeline_count'[e.vk_semaphore]

LEMMA KnownStaysKnown ==
  ASSUME Inv, Next, NEW e \in Entry, EntryKnown(e)
  PROVE  KnownNext(e)
<1>1. /\ e.type = "order" => e.fence \in Fences /\ e.update_count \in Nat
      /\ e.type \in {"signal", "release"} =>
           e.vk_semaphore \in VkQueues /\ e.vk_semaphore_value \in Nat
  BY EntryFields
<1>2. ASSUME e.type = "order" PROVE e.update_count <= fences'[e.fence].update_count
  <2>1. e.update_count <= fences[e.fence].update_count
    BY <1>2 DEF EntryKnown
  <2>2. /\ fences[e.fence].update_count \in Nat /\ fences'[e.fence].update_count \in Nat
        /\ fences[e.fence].update_count <= fences'[e.fence].update_count
    BY <1>1, <1>2, UpdateCountsGrow
  <2> QED
    BY <1>1, <1>2, <2>1, <2>2
<1>3. ASSUME e.type \in {"signal", "release"}
      PROVE  e.vk_semaphore_value <= timeline_count'[e.vk_semaphore]
  <2>1. e.vk_semaphore_value <= timeline_count[e.vk_semaphore]
    BY <1>3 DEF EntryKnown
  <2>2. timeline_count[e.vk_semaphore] <= timeline_count'[e.vk_semaphore]
    BY <1>1, <1>3, CountsGrow
  <2>3. /\ timeline_count[e.vk_semaphore] \in Nat
        /\ timeline_count'[e.vk_semaphore] \in Nat
    BY <1>1, <1>3, TimelinesStayExact DEF Inv, Types
  <2> QED
    BY <1>1, <1>3, <2>1, <2>2, <2>3
<1> QED
  BY <1>2, <1>3 DEF KnownNext

\* What a submission thread adds that is not the entry of a Signal.
AddsOthers(q) ==
  \E added : /\ Extends(q, added) /\ NoSignal(added)
             /\ \A k \in DOMAIN added : KnownNext(added[k])

AddsSignal(q) ==
  LET f == Current(q).fence
      e == SignalEntry(f, fences[f].update_count + 1, VkQueueOf[q], last_value[q])
  IN  Extends(q, <<e>>) /\ KnownNext(e) /\ f \in Fences

LEMMA OrderEntryKnown ==
  ASSUME Inv, Next, NEW f \in Fences, NEW n \in Nat, n <= fences[f].update_count
  PROVE  OrderEntry(f, n) \in Entry /\ KnownNext(OrderEntry(f, n))
<1> DEFINE e == OrderEntry(f, n)
<1>1. e \in Entry /\ e.type = "order"
  BY OrderEntryType
<1>2. e.fence = f /\ e.update_count = n
  BY DEF OrderEntry
<1>3. EntryKnown(e)
  BY <1>1, <1>2 DEF EntryKnown
<1> HIDE DEF e
<1> QED
  BY <1>1, <1>3, KnownStaysKnown DEF e

LEMMA WorkerMoves ==
  ASSUME Inv, OrdersKnown, Next
  PROVE  \/ worker' = worker
         \/ \E q \in Queues : \E type \in {"signal", "order", "release"} :
              Retire(q, type) /\ (type = "signal" => RetireSignal(q))
         \/ \E q \in Queues : AddsOthers(q)
         \/ \E q \in Queues : SignalFence(q) /\ AddsSignal(q)
<1>1. Types /\ CommandsInOrder /\ TimelinesExact
  BY DEF Inv
<1>2. ASSUME NEW q \in Queues, Application(q) PROVE worker' = worker
  BY <1>2 DEF Application, ApiExecute, ApiSignal, ApiWait, ApiCpuSignal, ApiRelease
<1>3. ASSUME NEW q \in Queues, FenceWorker(q)
      PROVE  \E type \in {"signal", "order", "release"} :
               Retire(q, type) /\ (type = "signal" => RetireSignal(q))
  BY <1>3 DEF FenceWorker, RetireSignal, RetireOrder, RetireRelease
<1>4. ASSUME NEW t \in VkQueues, GpuExecutes(t) PROVE worker' = worker
  BY <1>4 DEF GpuExecutes
<1>5. ASSUME NEW q \in Queues, NEW f \in Fences, NEW n \in 1..fences[f].update_count,
             worker' = enqueue(worker, q, OrderEntry(f, n))
      PROVE  AddsOthers(q)
  <2>1. n \in Nat /\ n <= fences[f].update_count
    BY <1>5, UpdateCountsGrow
  <2> DEFINE e == OrderEntry(f, n)
  <2>2. e \in Entry /\ KnownNext(e) /\ e.type = "order"
    BY <2>1, OrderEntryKnown, OrderEntryType
  <2> HIDE DEF e
  <2>3. worker' = enqueue(worker, q, e)
    BY <1>5 DEF e
  <2>4. Extends(q, <<e>>)
    BY <1>1, <2>2, <2>3, EnqueueExtends
  <2>5. NoSignal(<<e>>) /\ \A k \in DOMAIN <<e>> : <<e>>[k] = e
    BY <2>2 DEF NoSignal
  <2>6. \A k \in DOMAIN <<e>> : KnownNext(<<e>>[k])
    BY <2>2, <2>5
  <2> QED
    BY <2>4, <2>5, <2>6 DEF AddsOthers
<1>6. ASSUME NEW q \in Queues, NEW entries \in Seq(Entry), NoSignal(entries),
             \A k \in DOMAIN entries : KnownNext(entries[k]), finalize_waits(q, entries)
      PROVE  AddsOthers(q)
  <2> DEFINE o == OrderEntries(q)
             a == o \o entries
  <2>1. o \in Seq(Entry) /\ NoSignal(o)
    BY <1>1, OrderEntriesType DEF NoSignal
  <2>2. ASSUME NEW i \in DOMAIN o PROVE KnownNext(o[i])
    <3>1. /\ i \in DOMAIN wait_fences[q]
          /\ wait_fences[q][i].fence \in Fences /\ wait_fences[q][i].update_count \in Nat
          /\ o[i] = OrderEntry(wait_fences[q][i].fence, wait_fences[q][i].update_count)
      BY <1>1, OrderEntriesFields
    <3>2. wait_fences[q][i].update_count <= fences[wait_fences[q][i].fence].update_count
      BY <3>1 DEF OrdersKnown
    <3>3. KnownNext(OrderEntry(wait_fences[q][i].fence, wait_fences[q][i].update_count))
      BY <3>1, <3>2, OrderEntryKnown
    <3> QED
      BY <3>1, <3>3
  <2>3. Extends(q, a)
    BY <1>1, <1>6, FinalizeExtends
  <2> HIDE DEF o
  <2>4. \A i \in DOMAIN a : \/ i \in DOMAIN o /\ a[i] = o[i]
                            \/ \E j \in DOMAIN entries : a[i] = entries[j]
    BY <2>1, ConcatFacts
  <2> HIDE DEF a
  <2>5. NoSignal(a)
    BY <1>6, <2>1, <2>4 DEF NoSignal
  <2>6. \A k \in DOMAIN a : KnownNext(a[k])
    BY <1>6, <2>2, <2>4
  <2> QED
    BY <2>3, <2>5, <2>6 DEF AddsOthers
<1>7. ASSUME NEW q \in Queues, SubmissionThread(q), ~SignalFence(q)
      PROVE  worker' = worker \/ AddsOthers(q)
  <2>1. CASE WaitAlreadySatisfied(q) \/ WaitSleeps(q) \/ WaitDeferred(q) \/ CpuWaitReturns(q)
    BY <2>1 DEF WaitAlreadySatisfied, WaitSleeps, WaitDeferred, CpuWaitReturns
  <2>2. CASE WaitOnOwnVkQueue(q)
    <3> DEFINE f == Current(q).fence
    <3>1. Materialises(q)
      BY <2>2 DEF WaitOnOwnVkQueue
    <3>2. PICK u \in SatisfyingOnQueue(fences[f], Current(q).value, VkQueueOf[q]) :
             worker' = enqueue(worker, q, OrderEntry(f, u.update_count))
      BY <2>2 DEF WaitOnOwnVkQueue
    <3>3. f \in Fences /\ u.update_count \in 1..fences[f].update_count
      BY <3>1, OwnUpdateFacts
    <3> HIDE DEF f
    <3> QED
      BY <1>5, <3>2, <3>3
  <2>3. CASE WaitOnCpu(q)
    <3> DEFINE f == Current(q).fence
               n == ChosenUpdate(q).update_count
    <3>1. OnOtherVkQueue(q) /\ worker' = enqueue(worker, q, OrderEntry(f, n))
      BY <2>3 DEF WaitOnCpu
    <3>2. f \in Fences /\ n \in 1..fences[f].update_count
      BY <3>1, ChosenUpdateFacts
    <3> HIDE DEF f, n
    <3> QED
      BY <1>5, <3>1, <3>2
  <2>4. CASE FlushWaiters(q)
    <3>1. finalize_waits(q, <<>>)
      BY <2>4 DEF FlushWaiters
    <3>2. <<>> \in Seq(Entry) /\ NoSignal(<<>>) /\ \A k \in DOMAIN <<>> : KnownNext(<<>>[k])
      BY DEF NoSignal
    <3> QED
      BY <1>6, <3>1, <3>2
  <2>5. CASE Execute(q)
    <3> DEFINE id == Head(submissions[q]).id
               v == last_value'[q]
               e == ReleaseEntry(id, VkQueueOf[q], v)
    <3>1. finalize_waits(q, <<e>>) /\ Has(q, "execute")
      BY <2>5 DEF Execute
    <3>2. id \in Nat
      BY <1>1, <3>1, CommandFacts DEF Has
    <3>3. v \in Nat /\ VkQueueOf[q] \in VkQueues
      BY TimelinesStayExact, QueuesAssumption
    <3>4. v <= timeline_count'[VkQueueOf[q]]
      BY TimelinesStayExact DEF TimelinesExact
    <3>5. e.type = "release" /\ e.vk_semaphore = VkQueueOf[q] /\ e.vk_semaphore_value = v
      BY DEF ReleaseEntry
    <3> HIDE DEF id, v
    <3>6. e \in Entry
      BY <3>2, <3>3, ReleaseEntryType
    <3> HIDE DEF e
    <3>7. PICK x : x = e
      OBVIOUS
    <3>8. KnownNext(x)
      BY <3>4, <3>5, <3>7 DEF KnownNext
    <3>9. <<x>> \in Seq(Entry) /\ NoSignal(<<x>>) /\ \A k \in DOMAIN <<x>> : <<x>>[k] = x
      BY <3>5, <3>6, <3>7 DEF NoSignal
    <3>10. \A k \in DOMAIN <<x>> : KnownNext(<<x>>[k])
      BY <3>8, <3>9
    <3> QED
      BY <1>6, <3>1, <3>7, <3>9, <3>10
  <2> QED
    BY <1>7, <2>1, <2>2, <2>3, <2>4, <2>5 DEF SubmissionThread
<1>8. ASSUME NEW q \in Queues, SignalFence(q) PROVE AddsSignal(q)
  <2> DEFINE f == Current(q).fence
             n == fences[f].update_count + 1
             e == SignalEntry(f, n, VkQueueOf[q], last_value[q])
  <2>1. f \in Fences /\ n \in Nat /\ fences'[f].update_count = n
    BY <1>8, SignalFenceFacts
  <2>2. worker' = enqueue(worker, q, e)
    BY <1>8, <2>1 DEF SignalFence
  <2>3. /\ VkQueueOf[q] \in VkQueues /\ last_value[q] \in Nat
        /\ last_value[q] <= timeline_count[VkQueueOf[q]]
    BY <1>1, QueuesAssumption DEF Types, TimelinesExact
  <2>4. e.type = "signal" /\ e.vk_semaphore = VkQueueOf[q] /\ e.vk_semaphore_value = last_value[q]
    BY DEF SignalEntry
  <2> HIDE DEF f, n
  <2>5. e \in Entry
    BY <2>1, <2>3, SignalEntryType
  <2> HIDE DEF e
  <2>6. EntryKnown(e)
    BY <2>3, <2>4 DEF EntryKnown
  <2>7. Extends(q, <<e>>)
    BY <1>1, <2>2, <2>5, EnqueueExtends
  <2>8. KnownNext(e)
    BY <2>5, <2>6, KnownStaysKnown
  <2> QED
    BY <2>1, <2>7, <2>8 DEF AddsSignal, e, n, f
<1> QED
  BY <1>2, <1>3, <1>4, <1>7, <1>8 DEF Next

-----------------------------------------------------------------------------
(* What is waited for has been submitted.                                  *)

LEMMA AddWaitBounds ==
  ASSUME NEW w \in Waits, NEW t \in VkQueues, NEW v \in Nat,
         NEW x \in DOMAIN add_wait_semaphore(w, t, v)
  PROVE  \/ x \in DOMAIN w /\ add_wait_semaphore(w, t, v)[x] = w[x]
         \/ x = t /\ add_wait_semaphore(w, t, v)[x] = v
<1>1. PICK D \in SUBSET VkQueues : w \in [D -> Nat]
  BY DEF Waits
<1>2. x \in D \cup {t} /\ DOMAIN w = D
  BY <1>1 DEF add_wait_semaphore
<1>3. CASE x # t
  BY <1>1, <1>2, <1>3 DEF add_wait_semaphore
<1>4. CASE x = t /\ t \notin D
  BY <1>1, <1>2, <1>4 DEF add_wait_semaphore
<1>5. CASE x = t /\ t \in D
  <2>1. add_wait_semaphore(w, t, v)[x] = Max({w[t], v})
    BY <1>1, <1>2, <1>5 DEF add_wait_semaphore
  <2>2. w[t] \in Nat
    BY <1>1, <1>5
  <2>3. \E y \in {w[t], v} : \A z \in {w[t], v} : y >= z
    BY <2>2
  <2>4. Max({w[t], v}) \in {w[t], v}
    BY <2>3 DEF Max
  <2> QED
    BY <1>1, <1>5, <2>1, <2>4
<1> QED
  BY <1>2, <1>3, <1>4, <1>5

\* What a submission thread does to what it waits for and to the waits it has
\* resolved.
Defers(q) ==
  LET u == ChosenUpdate(q)
      f == Current(q).fence
  IN  /\ OnOtherVkQueue(q)
      /\ wait_fences' = [wait_fences EXCEPT ![q] =
            Append(wait_fences[q], [fence |-> f, update_count |-> u.update_count])]
      /\ wait_semaphores' = [wait_semaphores EXCEPT ![q] =
            add_wait_semaphore(wait_semaphores[q], u.vk_semaphore, u.vk_semaphore_value)]

Flushes(q) ==
  /\ wait_fences' = [wait_fences EXCEPT ![q] = <<>>]
  /\ wait_semaphores' = [wait_semaphores EXCEPT ![q] = NoSemaphores]

LEMMA WaitsStep ==
  ASSUME Next
  PROVE  /\ \/ UNCHANGED <<wait_fences, wait_semaphores>>
            \/ \E q \in Queues : Defers(q) \/ Flushes(q)
         /\ \/ UNCHANGED cpu_until
            \/ \E q \in Queues :
                 cpu_until' = [cpu_until EXCEPT ![q] = Nothing]
            \/ \E q \in Queues :
                 /\ OnOtherVkQueue(q)
                 /\ cpu_until' = [cpu_until EXCEPT ![q] =
                      [vk_semaphore |-> ChosenUpdate(q).vk_semaphore,
                       vk_semaphore_value |-> ChosenUpdate(q).vk_semaphore_value]]
<1> DEFINE A == \/ UNCHANGED <<wait_fences, wait_semaphores>>
                \/ \E q \in Queues : Defers(q) \/ Flushes(q)
           B == \/ UNCHANGED cpu_until
                \/ \E q \in Queues :
                     cpu_until' = [cpu_until EXCEPT ![q] = Nothing]
                \/ \E q \in Queues :
                     /\ OnOtherVkQueue(q)
                     /\ cpu_until' = [cpu_until EXCEPT ![q] =
                          [vk_semaphore |-> ChosenUpdate(q).vk_semaphore,
                           vk_semaphore_value |-> ChosenUpdate(q).vk_semaphore_value]]
           Same == UNCHANGED <<wait_fences, wait_semaphores, cpu_until>>
<1>0. Same => A /\ B
  OBVIOUS
<1>1. ASSUME NEW q \in Queues, Application(q) PROVE Same
  BY <1>1 DEF Application, ApiExecute, ApiSignal, ApiWait, ApiCpuSignal, ApiRelease
<1>2. ASSUME NEW q \in Queues, FenceWorker(q) PROVE Same
  BY <1>2 DEF FenceWorker, RetireSignal, RetireOrder, RetireRelease, thread_vars
<1>3. ASSUME NEW t \in VkQueues, GpuExecutes(t) PROVE Same
  BY <1>3 DEF GpuExecutes, thread_vars
<1>4. ASSUME NEW q \in Queues, SubmissionThread(q) PROVE A /\ B
  <2>1. CASE WaitAlreadySatisfied(q) \/ WaitSleeps(q) \/ WaitOnOwnVkQueue(q) \/ SignalFence(q)
    BY <2>1 DEF WaitAlreadySatisfied, WaitSleeps, WaitOnOwnVkQueue, SignalFence
  <2>2. CASE WaitDeferred(q)
    <3>1. Defers(q) /\ UNCHANGED cpu_until
      BY <2>2 DEF WaitDeferred, Defers
    <3> QED
      BY <3>1
  <2>3. CASE WaitOnCpu(q)
    BY <2>3 DEF WaitOnCpu
  <2>4. CASE CpuWaitReturns(q)
    BY <2>4 DEF CpuWaitReturns
  <2>5. CASE FlushWaiters(q) \/ Execute(q)
    BY <2>5 DEF FlushWaiters, Execute, finalize_waits, Flushes
  <2> QED
    BY <1>4, <2>1, <2>2, <2>3, <2>4, <2>5 DEF SubmissionThread
<1> HIDE DEF A, B, Same
<1>5. A /\ B
  BY <1>0, <1>1, <1>2, <1>3, <1>4 DEF Next
<1> QED
  BY <1>5 DEF A, B

LEMMA WaitsStaySubmitted ==
  ASSUME Inv, WaitsSubmitted, Next
  PROVE  WaitsSubmitted'
<1>1. /\ Types /\ TimelinesExact /\ FencesInOrder
      /\ timeline_count \in [VkQueues -> Nat] /\ timeline_count' \in [VkQueues -> Nat]
      /\ wait_semaphores \in [Queues -> Waits] /\ cpu_until \in [Queues -> SemaphoreValue]
      /\ vk_queue \in [VkQueues -> Seq(GpuSubmission)]
      /\ fences \in [Fences -> FenceRecord]
  BY TimelinesStayExact DEF Inv, Types
<1>2. ASSUME NEW t \in VkQueues, NEW v \in Nat, v <= timeline_count[t]
      PROVE  v <= timeline_count'[t]
  <2>1. timeline_count[t] <= timeline_count'[t]
    BY CountsGrow
  <2>2. timeline_count[t] \in Nat /\ timeline_count'[t] \in Nat
    BY <1>1
  <2> QED
    BY <1>2, <2>1, <2>2
<1>3. ASSUME NEW w \in Waits, \A x \in DOMAIN w : w[x] <= timeline_count[x]
      PROVE  \A x \in DOMAIN w : w[x] <= timeline_count'[x]
  BY <1>2, <1>3, WaitsFacts
<1>4. ASSUME NEW q \in Queues PROVE \A x \in DOMAIN wait_semaphores[q] : wait_semaphores[q][x] <= timeline_count[x]
  BY DEF WaitsSubmitted
<1>5. ASSUME NEW f \in Fences, NEW u \in fences[f].pending_updates
      PROVE  /\ u.vk_semaphore \in VkQueues /\ u.vk_semaphore_value \in Nat
             /\ u.vk_semaphore_value <= timeline_count[u.vk_semaphore]
  <2>1. fences[f] \in FenceRecord
    BY <1>1
  <2> QED
    BY <2>1, FenceFields DEF WaitsSubmitted
<1>6. ASSUME NEW t \in VkQueues, NEW i \in DOMAIN vk_queue'[t]
      PROVE  \A x \in DOMAIN vk_queue'[t][i].waits :
               vk_queue'[t][i].waits[x] <= timeline_count'[x]
  <2>1. ASSUME NEW j \in DOMAIN vk_queue[t]
        PROVE  \A x \in DOMAIN vk_queue[t][j].waits :
                 vk_queue[t][j].waits[x] <= timeline_count'[x]
    <3>1. vk_queue[t][j].waits \in Waits
      <4>1. vk_queue[t] \in Seq(GpuSubmission)
        BY <1>1
      <4>2. vk_queue[t][j] \in GpuSubmission
        BY <4>1, LenProperties
      <4> QED
        BY <4>2 DEF GpuSubmission
    <3>2. \A x \in DOMAIN vk_queue[t][j].waits : vk_queue[t][j].waits[x] <= timeline_count[x]
      BY DEF WaitsSubmitted
    <3> QED
      BY <1>3, <3>1, <3>2
  <2>2. CASE GpuQuiet
    BY <1>6, <2>1, <2>2 DEF GpuQuiet
  <2>3. ASSUME NEW q \in Queues, NEW waits \in Waits, NEW work \in SUBSET Works,
               Submits(q, waits, work)
        PROVE  \A x \in DOMAIN vk_queue'[t][i].waits :
                 vk_queue'[t][i].waits[x] <= timeline_count'[x]
    <3> DEFINE s == VkQueueOf[q]
               L == Len(vk_queue[s])
    <3>1. submit(q, waits, work) /\ waits = eliminate_completed(wait_semaphores[q])
      BY <2>3 DEF Submits
    <3>2. PICK c : c = [waits |-> waits, value |-> timeline_count[s] + 1, work |-> work,
                        after |-> follows[q]]
      OBVIOUS
    <3>3. /\ s \in VkQueues /\ L \in Nat
          /\ \A x \in VkQueues : x # s => vk_queue'[x] = vk_queue[x]
          /\ DOMAIN vk_queue[s] = 1..L /\ DOMAIN vk_queue'[s] = 1..(L + 1)
          /\ \A j \in 1..L : vk_queue'[s][j] = vk_queue[s][j]
          /\ vk_queue'[s][L + 1] = c
      BY <1>1, <3>1, <3>2, SubmitFacts
    <3>4. c.waits = waits
      BY <3>2
    <3> HIDE DEF s, L
    <3>5. CASE t # s
      BY <2>1, <3>3, <3>5
    <3>6. CASE t = s /\ i \in 1..L
      BY <2>1, <3>3, <3>6
    <3>7. CASE t = s /\ i = L + 1
      <4>1. wait_semaphores[q] \in Waits
        BY <1>1
      <4>2. /\ waits \in Waits /\ DOMAIN waits \subseteq DOMAIN wait_semaphores[q]
            /\ \A x \in DOMAIN waits : waits[x] = wait_semaphores[q][x]
        BY <1>1, <3>1, <4>1, EliminateFacts
      <4>3. \A x \in DOMAIN waits : waits[x] <= timeline_count[x]
        BY <1>4, <4>2
      <4>4. \A x \in DOMAIN waits : waits[x] <= timeline_count'[x]
        BY <1>3, <4>2, <4>3
      <4> QED
        BY <3>3, <3>4, <3>7, <4>4
    <3> QED
      BY <3>3, <3>5, <3>6, <3>7
  <2>4. ASSUME NEW s \in VkQueues, GpuExecutes(s)
        PROVE  \E j \in DOMAIN vk_queue[t] : vk_queue'[t][i] = vk_queue[t][j]
    <3>1. CASE t # s
      <4>1. vk_queue'[t] = vk_queue[t]
        BY <1>1, <2>4, <3>1, ExecutesFacts
      <4> QED
        BY <4>1
    <3>2. CASE t = s
      <4> DEFINE L == Len(vk_queue[t])
      <4>1. /\ L \in Nat \ {0} /\ DOMAIN vk_queue[t] = 1..L
            /\ DOMAIN vk_queue'[t] = 1..(L - 1)
            /\ \A k \in 1..(L - 1) : vk_queue'[t][k] = vk_queue[t][k + 1]
        BY <1>1, <2>4, <3>2, ExecutesFacts
      <4> HIDE DEF L
      <4>2. i + 1 \in DOMAIN vk_queue[t] /\ vk_queue'[t][i] = vk_queue[t][i + 1]
        BY <4>1
      <4> QED
        BY <4>2
    <3> QED
      BY <3>1, <3>2
  <2> QED
    BY <2>1, <2>2, <2>3, <2>4, GpuStep
<1>7. ASSUME NEW q \in Queues
      PROVE  \A x \in DOMAIN wait_semaphores'[q] : wait_semaphores'[q][x] <= timeline_count'[x]
  <2>1. \A x \in DOMAIN wait_semaphores[q] : wait_semaphores[q][x] <= timeline_count'[x]
    BY <1>1, <1>3, <1>4
  <2>2. CASE Defers(q)
    <3> DEFINE u == ChosenUpdate(q)
               s == u.vk_semaphore
               v == u.vk_semaphore_value
               a == add_wait_semaphore(wait_semaphores[q], s, v)
    <3>1. OnOtherVkQueue(q) /\ wait_semaphores' = [wait_semaphores EXCEPT ![q] = a]
      BY <2>2 DEF Defers
    <3>2. Current(q).fence \in Fences /\ u \in fences[Current(q).fence].pending_updates
      BY <3>1, ChosenUpdateFacts
    <3>3. s \in VkQueues /\ v \in Nat /\ v <= timeline_count[s]
      BY <1>5, <3>2
    <3>4. wait_semaphores'[q] = a /\ wait_semaphores[q] \in Waits
      BY <1>1, <3>1
    <3>5. v <= timeline_count'[s]
      BY <1>2, <3>3
    <3> HIDE DEF u, s, v
    <3>6. \A x \in DOMAIN a : \/ x \in DOMAIN wait_semaphores[q] /\ a[x] = wait_semaphores[q][x]
                              \/ x = s /\ a[x] = v
      BY <3>3, <3>4, AddWaitBounds
    <3> QED
      BY <2>1, <3>4, <3>5, <3>6
  <2>3. CASE Flushes(q)
    <3>1. wait_semaphores'[q] = NoSemaphores
      BY <1>1, <2>3 DEF Flushes
    <3> QED
      BY <3>1 DEF NoSemaphores
  <2>4. ASSUME NEW r \in Queues, r # q, Defers(r) \/ Flushes(r)
        PROVE  wait_semaphores'[q] = wait_semaphores[q]
    BY <1>1, <2>4 DEF Defers, Flushes
  <2> QED
    BY <2>1, <2>2, <2>3, <2>4, WaitsStep
<1>8. ASSUME NEW q \in Queues
      PROVE  cpu_until'[q].vk_semaphore_value <= timeline_count'[cpu_until'[q].vk_semaphore]
  <2>1. CASE cpu_until'[q] = cpu_until[q]
    <3>1. cpu_until[q].vk_semaphore \in VkQueues /\ cpu_until[q].vk_semaphore_value \in Nat
      BY <1>1 DEF SemaphoreValue
    <3>2. cpu_until[q].vk_semaphore_value <= timeline_count[cpu_until[q].vk_semaphore]
      BY DEF WaitsSubmitted
    <3> QED
      BY <1>2, <2>1, <3>1, <3>2
  <2>2. CASE cpu_until'[q] = Nothing
    <3>1. Nothing.vk_semaphore_value = 0 /\ Nothing.vk_semaphore \in VkQueues
      BY QueuesAssumption DEF Nothing
    <3>2. timeline_count'[Nothing.vk_semaphore] \in Nat
      BY <1>1, <3>1
    <3> QED
      BY <2>2, <3>1, <3>2
  <2>3. ASSUME OnOtherVkQueue(q),
               cpu_until'[q] = [vk_semaphore |-> ChosenUpdate(q).vk_semaphore,
                                vk_semaphore_value |-> ChosenUpdate(q).vk_semaphore_value]
        PROVE  cpu_until'[q].vk_semaphore_value <= timeline_count'[cpu_until'[q].vk_semaphore]
    <3> DEFINE u == ChosenUpdate(q)
    <3>1. Current(q).fence \in Fences /\ u \in fences[Current(q).fence].pending_updates
      BY <2>3, ChosenUpdateFacts
    <3>2. u.vk_semaphore_value <= timeline_count'[u.vk_semaphore]
      BY <1>2, <1>5, <3>1
    <3>3. /\ cpu_until'[q].vk_semaphore = u.vk_semaphore
          /\ cpu_until'[q].vk_semaphore_value = u.vk_semaphore_value
      BY <2>3
    <3> QED
      BY <3>2, <3>3
  <2>4. \/ cpu_until'[q] = cpu_until[q]
        \/ cpu_until'[q] = Nothing
        \/ /\ OnOtherVkQueue(q)
           /\ cpu_until'[q] = [vk_semaphore |-> ChosenUpdate(q).vk_semaphore,
                               vk_semaphore_value |-> ChosenUpdate(q).vk_semaphore_value]
    BY <1>1, WaitsStep
  <2> QED
    BY <2>1, <2>2, <2>3, <2>4
<1>9. ASSUME NEW f \in Fences, NEW u \in fences'[f].pending_updates
      PROVE  u.vk_semaphore_value <= timeline_count'[u.vk_semaphore]
  <2>1. CASE u \in fences[f].pending_updates
    BY <1>2, <1>5, <2>1
  <2>2. ASSUME NEW q \in Queues, u.vk_semaphore = VkQueueOf[q],
               u.vk_semaphore_value = last_value[q]
        PROVE  u.vk_semaphore_value <= timeline_count'[u.vk_semaphore]
    <3>1. /\ VkQueueOf[q] \in VkQueues /\ last_value[q] \in Nat
          /\ last_value[q] <= timeline_count[VkQueueOf[q]]
      BY <1>1, QueuesAssumption DEF Types, TimelinesExact
    <3> QED
      BY <1>2, <2>2, <3>1
  <2>3. ASSUME NEW q \in Queues,
               u = [update_count |-> fences[f].update_count + 1,
                    virtual_value |-> Current(q).value,
                    vk_semaphore |-> VkQueueOf[q], vk_semaphore_value |-> last_value[q]]
        PROVE  u.vk_semaphore = VkQueueOf[q] /\ u.vk_semaphore_value = last_value[q]
    BY <2>3
  <2> QED
    BY <2>1, <2>2, <2>3, NewUpdates
<1> QED
  BY <1>6, <1>7, <1>8, <1>9 DEF WaitsSubmitted

LEMMA OrdersStayKnown ==
  ASSUME Inv, OrdersKnown, Next
  PROVE  OrdersKnown'
<1>1. /\ Types /\ worker \in [Queues -> Seq(Entry)]
      /\ wait_fences \in [Queues -> Seq([fence : Fences, update_count : Nat])]
  BY DEF Inv, Types
<1>2. ASSUME NEW f \in Fences, NEW n \in Nat, n <= fences[f].update_count
      PROVE  n <= fences'[f].update_count
  BY <1>2, UpdateCountsGrow
<1>3. ASSUME NEW q \in Queues, NEW i \in DOMAIN wait_fences'[q]
      PROVE  wait_fences'[q][i].update_count <= fences'[wait_fences'[q][i].fence].update_count
  <2>1. ASSUME NEW j \in DOMAIN wait_fences[q]
        PROVE  wait_fences[q][j].update_count <= fences'[wait_fences[q][j].fence].update_count
    <3>1. wait_fences[q] \in Seq([fence : Fences, update_count : Nat])
      BY <1>1
    <3>2. wait_fences[q][j] \in [fence : Fences, update_count : Nat]
      BY <3>1, LenProperties
    <3>3. wait_fences[q][j].update_count <= fences[wait_fences[q][j].fence].update_count
      BY DEF OrdersKnown
    <3> QED
      BY <1>2, <3>2, <3>3
  <2>2. CASE Defers(q)
    <3> DEFINE f == Current(q).fence
               n == ChosenUpdate(q).update_count
               e == [fence |-> f, update_count |-> n]
    <3>1. OnOtherVkQueue(q) /\ wait_fences' = [wait_fences EXCEPT ![q] = Append(wait_fences[q], e)]
      BY <2>2 DEF Defers
    <3>2. f \in Fences /\ n \in 1..fences[f].update_count
      BY <3>1, ChosenUpdateFacts
    <3> HIDE DEF f, n
    <3>3. n \in Nat /\ n <= fences'[f].update_count
      BY <1>2, <3>2, UpdateCountsGrow
    <3>4. e \in [fence : Fences, update_count : Nat] /\ e.fence = f /\ e.update_count = n
      BY <3>2, <3>3
    <3> HIDE DEF e
    <3> DEFINE s == wait_fences[q]
    <3>5. s \in Seq([fence : Fences, update_count : Nat]) /\ wait_fences'[q] = Append(s, e)
      BY <1>1, <3>1
    <3> HIDE DEF s
    <3>6. /\ Len(s) \in Nat /\ DOMAIN s = 1..Len(s)
          /\ DOMAIN Append(s, e) = 1..(Len(s) + 1)
          /\ \A k \in 1..Len(s) : Append(s, e)[k] = s[k]
          /\ Append(s, e)[Len(s) + 1] = e
      BY <3>4, <3>5, AppendFacts
    <3>7. i \in DOMAIN s \/ i = Len(s) + 1
      BY <1>3, <3>5, <3>6
    <3>8. CASE i \in DOMAIN s
      BY <2>1, <3>5, <3>6, <3>8 DEF s
    <3>9. CASE i = Len(s) + 1
      BY <3>3, <3>4, <3>5, <3>6, <3>9
    <3> QED
      BY <3>7, <3>8, <3>9
  <2>3. CASE Flushes(q)
    <3>1. wait_fences'[q] = <<>>
      BY <1>1, <2>3 DEF Flushes
    <3> QED
      BY <1>3, <3>1
  <2>4. ASSUME NEW r \in Queues, r # q, Defers(r) \/ Flushes(r)
        PROVE  wait_fences'[q] = wait_fences[q]
    BY <1>1, <2>4 DEF Defers, Flushes
  <2> QED
    BY <1>3, <2>1, <2>2, <2>3, <2>4, WaitsStep
<1>4. ASSUME NEW q \in Queues, NEW i \in DOMAIN worker'[q]
      PROVE  KnownNext(worker'[q][i])
  <2>1. ASSUME NEW j \in DOMAIN worker[q] PROVE KnownNext(worker[q][j])
    <3>1. worker[q] \in Seq(Entry)
      BY <1>1
    <3>2. worker[q][j] \in Entry
      BY <3>1, LenProperties
    <3>3. EntryKnown(worker[q][j])
      BY DEF OrdersKnown
    <3> QED
      BY <3>2, <3>3, KnownStaysKnown
  <2>2. CASE worker'[q] = worker[q]
    BY <1>4, <2>1, <2>2
  <2>3. ASSUME NEW type, Retire(q, type)
        PROVE  KnownNext(worker'[q][i])
    BY <1>1, <1>4, <2>1, <2>3, RetireFacts
  <2>4. ASSUME NEW added, Extends(q, added), \A k \in DOMAIN added : KnownNext(added[k])
        PROVE  KnownNext(worker'[q][i])
    <3>1. CASE i \in DOMAIN worker[q]
      BY <1>1, <2>1, <2>4, <3>1, ExtendsFacts
    <3>2. CASE i \notin DOMAIN worker[q]
      <4>1. \E k \in DOMAIN added : worker'[q][i] = added[k]
        BY <1>1, <1>4, <2>4, <3>2, ExtendsFacts
      <4> QED
        BY <2>4, <4>1
    <3> QED
      BY <3>1, <3>2
  <2>5. CASE AddsOthers(q)
    BY <2>4, <2>5 DEF AddsOthers
  <2>6. CASE AddsSignal(q)
    <3> DEFINE e == SignalEntry(Current(q).fence, fences[Current(q).fence].update_count + 1,
                                VkQueueOf[q], last_value[q])
    <3>1. Extends(q, <<e>>) /\ KnownNext(e)
      BY <2>6 DEF AddsSignal
    <3> HIDE DEF e
    <3>2. \A k \in DOMAIN <<e>> : <<e>>[k] = e
      OBVIOUS
    <3>3. \A k \in DOMAIN <<e>> : KnownNext(<<e>>[k])
      BY <3>1, <3>2
    <3> QED
      BY <2>4, <3>1, <3>3
  <2>7. ASSUME NEW r \in Queues, r # q, WorkerOf(r)
        PROVE  worker'[q] = worker[q]
    BY <2>7 DEF WorkerOf
  <2>8. ASSUME NEW r \in Queues,
               (\E type : Retire(r, type)) \/ AddsOthers(r) \/ AddsSignal(r)
        PROVE  WorkerOf(r)
    BY <1>1, <2>8, RetireFacts DEF AddsOthers, AddsSignal, Extends
  <2> QED
    BY <2>2, <2>3, <2>5, <2>6, <2>7, <2>8, WorkerMoves
<1>5. \A q \in Queues : \A i \in DOMAIN worker'[q] : EntryKnown(worker[q][i])'
  BY <1>4 DEF EntryKnown, KnownNext
<1> QED
  BY <1>3, <1>5 DEF OrdersKnown

-----------------------------------------------------------------------------
(* An update that is not visible yet has an entry.                         *)

LEMMA UpdatesKeepEntries ==
  ASSUME Inv, OrdersKnown, UpdatesHaveEntries, Next
  PROVE  UpdatesHaveEntries'
<1>1. Types /\ FencesInOrder /\ fences \in [Fences -> FenceRecord]
  BY DEF Inv, Types
<1>2. ASSUME NEW f \in Fences, NEW n \in fences'[f].signal_count + 1 .. fences'[f].update_count
      PROVE  \E q \in Queues : \E i \in DOMAIN worker'[q] : SignalOf(worker'[q][i], f, n)
  <2>1. /\ fences[f].update_count \in Nat /\ fences'[f].update_count \in Nat
        /\ fences[f].signal_count \in Nat /\ fences'[f].signal_count \in Nat
    BY UpdateCountsGrow
  <2>2. fences[f].signal_count <= fences'[f].signal_count
    <3>1. ASSUME NEW q \in Queues, RetireSignal(q), f = Head(worker[q]).fence
          PROVE  fences[f].signal_count <= fences'[f].signal_count
      <4> DEFINE e == Head(worker[q])
                 c == e.update_count
      <4>1. worker[q] # <<>> /\ e.type = "signal"
            /\ fences' = [fences EXCEPT ![f] = fence_signal(fences[f], c)]
        BY <3>1 DEF RetireSignal, Retire
      <4>2. c \in 1..fences[f].update_count
        BY <3>1, <4>1, SignalEntryFacts
      <4> HIDE DEF e, c
      <4>3. InOrder(fences[f]) /\ fences'[f] = fence_signal(fences[f], c)
        BY <1>1, <4>1 DEF FencesInOrder
      <4>4. fences'[f].signal_count
              = IF fences[f].signal_count < c THEN c ELSE fences[f].signal_count
        BY <4>2, <4>3, PublishFacts
      <4> QED
        BY <2>1, <4>2, <4>4
    <3> QED
      BY <2>1, <3>1, VisibleStep DEF Publishes
  <2>3. CASE n <= fences[f].update_count
    <3>1. n \in fences[f].signal_count + 1 .. fences[f].update_count
      BY <1>2, <2>1, <2>2, <2>3
    <3>2. PICK q \in Queues : \E i \in DOMAIN worker[q] : SignalOf(worker[q][i], f, n)
      BY <3>1 DEF UpdatesHaveEntries
    <3>0. PICK i \in DOMAIN worker[q] : SignalOf(worker[q][i], f, n)
      BY <3>2
    <3>3. CASE worker'[q] = worker[q]
      BY <3>0, <3>3
    <3>4. ASSUME NEW added, Extends(q, added)
          PROVE  \E j \in DOMAIN worker'[q] : SignalOf(worker'[q][j], f, n)
      <4>1. i \in DOMAIN worker'[q] /\ worker'[q][i] = worker[q][i]
        BY <1>1, <3>4, ExtendsFacts
      <4> QED
        BY <3>0, <4>1
    <3>5. ASSUME NEW type \in {"signal", "order", "release"}, Retire(q, type),
                 type = "signal" => RetireSignal(q)
          PROVE  \E j \in DOMAIN worker'[q] : SignalOf(worker'[q][j], f, n)
      <4>1. i # 1
        <5> SUFFICES ASSUME i = 1 PROVE FALSE
          OBVIOUS
        <5>1. Head(worker[q]) = worker[q][1] /\ Head(worker[q]).type = type
          BY <1>1, <3>5, RetireFacts
        <5>2. SignalOf(Head(worker[q]), f, n)
          BY <3>0, <5>1
        <5>3. RetireSignal(q) /\ worker[q] # <<>> /\ Head(worker[q]).type = "signal"
              /\ Head(worker[q]).fence = f /\ Head(worker[q]).update_count = n
          BY <1>1, <3>5, <5>1, <5>2, RetireFacts DEF SignalOf
        <5>4. n \in 1..fences[f].update_count
          BY <5>3, SignalEntryFacts
        <5>5. InOrder(fences[f]) /\ fences'[f] = fence_signal(fences[f], n)
          BY <1>1, <5>3 DEF FencesInOrder, RetireSignal
        <5>6. fences'[f].signal_count
                = IF fences[f].signal_count < n THEN n ELSE fences[f].signal_count
          BY <5>4, <5>5, PublishFacts
        <5> QED
          BY <1>2, <2>1, <5>4, <5>6
      <4>2. i - 1 \in DOMAIN worker'[q] /\ worker'[q][i - 1] = worker[q][i]
        BY <1>1, <3>5, <4>1, RetireFacts
      <4> QED
        BY <3>0, <4>2
    <3>6. ASSUME NEW r \in Queues, r # q, WorkerOf(r)
          PROVE  worker'[q] = worker[q]
      BY <3>6 DEF WorkerOf
    <3>7. ASSUME NEW r \in Queues,
                 (\E type : Retire(r, type)) \/ AddsOthers(r) \/ AddsSignal(r)
          PROVE  WorkerOf(r)
      BY <1>1, <3>7, RetireFacts DEF AddsOthers, AddsSignal, Extends
    <3> QED
      BY <3>3, <3>4, <3>5, <3>6, <3>7, WorkerMoves DEF AddsOthers, AddsSignal
  <2>4. CASE ~ (n <= fences[f].update_count)
    <3>1. fences'[f].update_count # fences[f].update_count
      BY <1>2, <2>1, <2>4
    <3>2. PICK q \in Queues : SignalFence(q)
      BY <3>1, FenceStep, ApiWaitFacts DEF FencesSettle, Settles
    <3>3. /\ f = Current(q).fence
          /\ fences'[f].update_count = fences[f].update_count + 1
      BY <3>1, <3>2, SignalFenceFacts
    <3>4. n = fences[f].update_count + 1
      BY <1>2, <2>1, <2>4, <3>3
    <3> DEFINE e == SignalEntry(f, n, VkQueueOf[q], last_value[q])
    <3>5. SignalOf(e, f, n)
      BY DEF SignalEntry, SignalOf
    <3>6. VkQueueOf[q] \in VkQueues /\ last_value[q] \in Nat /\ n \in Nat
      BY <1>1, <2>1, <3>4, QueuesAssumption DEF Types
    <3>7. e \in Entry
      BY <3>6, SignalEntryType
    <3>8. worker' = enqueue(worker, q, e)
      BY <3>2, <3>3, <3>4 DEF SignalFence
    <3> HIDE DEF e
    <3>9. Extends(q, <<e>>)
      BY <1>1, <3>7, <3>8, EnqueueExtends
    <3>10. \A k \in DOMAIN <<e>> : \E i \in DOMAIN worker'[q] : worker'[q][i] = <<e>>[k]
      BY <1>1, <3>9, ExtendsFacts
    <3>11. 1 \in DOMAIN <<e>> /\ <<e>>[1] = e
      OBVIOUS
    <3>12. \E i \in DOMAIN worker'[q] : worker'[q][i] = e
      BY <3>10, <3>11
    <3> QED
      BY <3>5, <3>12
  <2> QED
    BY <2>3, <2>4
<1> QED
  BY <1>2 DEF UpdatesHaveEntries

-----------------------------------------------------------------------------
(* Submissions do not wait for each other.                                 *)

LEMMA PendingElement ==
  ASSUME NEW t, NEW v
  PROVE  <<t, v>> \in Pending <=> t \in VkQueues /\ v \in timeline[t] + 1 .. timeline_count[t]
BY DEF Pending

LEMMA PendingElementNext ==
  ASSUME NEW t, NEW v
  PROVE  <<t, v>> \in Pending' <=> t \in VkQueues /\ v \in timeline'[t] + 1 .. timeline_count'[t]
BY DEF Pending

\* A submission that stays is the same submission.
LEMMA SubmissionStays ==
  ASSUME Inv, Next, NEW t \in VkQueues, NEW v,
         v \in timeline'[t] + 1 .. timeline_count[t]
  PROVE  /\ v \in timeline[t] + 1 .. timeline_count[t]
         /\ SubmissionAt(t, v)' = SubmissionAt(t, v)
<1>1. /\ Types /\ TimelinesExact
      /\ timeline[t] \in Nat /\ timeline_count[t] \in Nat /\ timeline'[t] \in Nat
      /\ timeline[t] <= timeline'[t]
  BY TimelinesStayExact, CountsGrow DEF Inv, Types
<1>2. v \in timeline[t] + 1 .. timeline_count[t]
  BY <1>1
<1>3. timeline_count[t] = timeline[t] + Len(vk_queue[t]) /\ Len(vk_queue[t]) \in Nat
  BY <1>1, LenProperties DEF TimelinesExact, Types
<1> DEFINE i == v - timeline[t]
<1>4. i \in 1..Len(vk_queue[t])
  BY <1>1, <1>2, <1>3
<1>5. CASE GpuQuiet
  BY <1>5 DEF GpuQuiet, SubmissionAt
<1>6. ASSUME NEW q \in Queues, NEW waits \in Waits, NEW work \in SUBSET Works,
             Submits(q, waits, work)
      PROVE  SubmissionAt(t, v)' = SubmissionAt(t, v)
  <2>1. submit(q, waits, work) /\ timeline' = timeline
    BY <1>6 DEF Submits
  <2>2. vk_queue'[t][i] = vk_queue[t][i]
    <3>1. CASE t # VkQueueOf[q]
      BY <1>1, <2>1, <3>1, SubmitFacts
    <3>2. CASE t = VkQueueOf[q]
      <4> HIDE DEF i
      <4>1. \A j \in 1..Len(vk_queue[t]) : vk_queue'[t][j] = vk_queue[t][j]
        BY <1>1, <2>1, <3>2, SubmitFacts
      <4> QED
        BY <1>4, <4>1
    <3> QED
      BY <3>1, <3>2
  <2> QED
    BY <2>1, <2>2 DEF SubmissionAt
<1>7. ASSUME NEW s \in VkQueues, GpuExecutes(s)
      PROVE  SubmissionAt(t, v)' = SubmissionAt(t, v)
  <2>1. CASE t # s
    <3>1. vk_queue'[t] = vk_queue[t] /\ timeline'[t] = timeline[t]
      BY <1>1, <1>7, <2>1, ExecutesFacts
    <3> QED
      BY <3>1 DEF SubmissionAt
  <2>2. CASE t = s
    <3>1. /\ timeline'[t] = timeline[t] + 1
          /\ \A j \in 1..(Len(vk_queue[t]) - 1) : vk_queue'[t][j] = vk_queue[t][j + 1]
      BY <1>1, <1>7, <2>2, ExecutesFacts
    <3>2. /\ v - timeline'[t] \in 1..(Len(vk_queue[t]) - 1)
          /\ (v - timeline'[t]) + 1 = v - timeline[t]
      BY <1>1, <1>3, <3>1
    <3>3. vk_queue'[t][v - timeline'[t]] = vk_queue[t][v - timeline[t]]
      BY <3>1, <3>2
    <3> QED
      BY <3>3 DEF SubmissionAt
  <2> QED
    BY <2>1, <2>2
<1> QED
  BY <1>2, <1>5, <1>6, <1>7, GpuStep

LEMMA SubmissionsStayUntied ==
  ASSUME Inv, WaitsSubmitted, SubmissionsUntied, Next
  PROVE  SubmissionsUntied'
<1>1. /\ Types /\ TimelinesExact
      /\ timeline \in [VkQueues -> Nat] /\ timeline_count \in [VkQueues -> Nat]
      /\ timeline' \in [VkQueues -> Nat] /\ timeline_count' \in [VkQueues -> Nat]
      /\ \A t \in VkQueues : timeline[t] <= timeline'[t] /\ timeline_count[t] <= timeline_count'[t]
      /\ Types' /\ WaitsSubmitted' /\ TimelinesExact'
  BY InvIsKept, WaitsStaySubmitted, CountsGrow DEF Inv, Types
<1> SUFFICES ASSUME NEW D \in SUBSET Pending', D # {}
             PROVE  \E t \in VkQueues, v \in Nat : <<t, v>> \in D /\ WaitsForNone(D, t, v)'
  BY DEF SubmissionsUntied
<1>2. ASSUME NEW t \in VkQueues, NEW v \in Nat, <<t, v>> \in D
      PROVE  v \in timeline'[t] + 1 .. timeline_count'[t]
  BY <1>2, PendingElementNext
\* what waits now for none of the old ones
<1>3. CASE \E t \in VkQueues, v \in Nat : <<t, v>> \in D /\ v <= timeline_count[t]
  <2> DEFINE E == {x \in D : x \in Pending}
  <2>1. ASSUME NEW t \in VkQueues, NEW v \in Nat, <<t, v>> \in D, v <= timeline_count[t]
        PROVE  <<t, v>> \in E
    <3>1. v \in timeline'[t] + 1 .. timeline_count[t]
      BY <1>1, <1>2, <2>1
    <3>2. v \in timeline[t] + 1 .. timeline_count[t]
      BY <3>1, SubmissionStays
    <3> QED
      BY <2>1, <3>2, PendingElement
  <2>2. E \in SUBSET Pending /\ E # {}
    BY <1>3, <2>1
  <2>3. PICK t \in VkQueues, v \in Nat : <<t, v>> \in E /\ WaitsForNone(E, t, v)
    BY <2>2 DEF SubmissionsUntied
  <2>4. <<t, v>> \in D /\ v \in timeline[t] + 1 .. timeline_count[t]
    BY <2>3, PendingElement
  <2>5. v \in timeline'[t] + 1 .. timeline_count[t]
    BY <1>1, <1>2, <2>4
  <2>6. SubmissionAt(t, v)' = SubmissionAt(t, v)
    BY <2>5, SubmissionStays
  <2> DEFINE waits == SubmissionAt(t, v).waits
  <2>7. waits \in Waits /\ \A x \in DOMAIN waits : waits[x] <= timeline_count[x]
    <3> DEFINE i == v - timeline[t]
    <3>1. vk_queue[t] \in Seq(GpuSubmission) /\ timeline_count[t] = timeline[t] + Len(vk_queue[t])
      BY <1>1 DEF Types, TimelinesExact
    <3>2. Len(vk_queue[t]) \in Nat /\ DOMAIN vk_queue[t] = 1..Len(vk_queue[t])
      BY <3>1, LenProperties
    <3>3. timeline[t] \in Nat /\ timeline_count[t] \in Nat
      BY <1>1
    <3>4. i \in DOMAIN vk_queue[t]
      BY <2>4, <3>1, <3>2, <3>3
    <3> HIDE DEF i
    <3>5. vk_queue[t][i] \in GpuSubmission
      BY <3>1, <3>4, LenProperties
    <3>6. vk_queue[t][i].waits \in Waits
      BY <3>5 DEF GpuSubmission
    <3>7. \A x \in DOMAIN vk_queue[t][i].waits : vk_queue[t][i].waits[x] <= timeline_count[x]
      BY <3>4 DEF WaitsSubmitted
    <3> QED
      BY <3>6, <3>7 DEF SubmissionAt, i
  <2>8. ASSUME NEW w \in Nat, <<t, w>> \in D PROVE v <= w
    <3>1. CASE w <= timeline_count[t]
      <4>1. <<t, w>> \in E
        BY <2>1, <2>8, <3>1
      <4> QED
        BY <2>3, <4>1 DEF WaitsForNone
    <3>2. CASE ~ (w <= timeline_count[t])
      <4>1. v <= timeline_count[t] /\ timeline_count[t] \in Nat
        BY <1>1, <2>4
      <4> QED
        BY <3>2, <4>1
    <3> QED
      BY <3>1, <3>2
  <2>9. ASSUME NEW x \in DOMAIN waits, NEW w \in Nat, <<x, w>> \in D PROVE waits[x] < w
    <3>1. x \in VkQueues /\ waits[x] \in Nat /\ waits[x] <= timeline_count[x]
      BY <2>7, WaitsFacts
    <3>2. CASE w <= timeline_count[x]
      <4>1. <<x, w>> \in E
        BY <2>1, <2>9, <3>1, <3>2
      <4> QED
        BY <2>3, <4>1 DEF WaitsForNone
    <3>3. CASE ~ (w <= timeline_count[x])
      <4>1. timeline_count[x] \in Nat
        BY <1>1, <3>1
      <4> QED
        BY <3>1, <3>3, <4>1
    <3> QED
      BY <3>2, <3>3
  <2>10. WaitsForNone(D, t, v)'
    <3>1. SubmissionAt(t, v)'.waits = waits
      BY <2>6
    <3> HIDE DEF waits
    <3> QED
      BY <2>8, <2>9, <3>1 DEF WaitsForNone
  <2> QED
    BY <2>4, <2>10
\* what was submitted just now waits for nothing but old ones
<1>4. CASE \A t \in VkQueues, v \in Nat : <<t, v>> \in D => ~ (v <= timeline_count[t])
  <2>1. PICK t \in VkQueues, v \in Nat : <<t, v>> \in D
    <3>1. D \in SUBSET Pending' /\ D # {}
      OBVIOUS
    <3>2. PICK y \in D : TRUE
      OBVIOUS
    <3>3. PICK t \in VkQueues : \E v \in timeline'[t] + 1 .. timeline_count'[t] : y = <<t, v>>
      BY <3>2 DEF Pending
    <3>4. PICK v \in timeline'[t] + 1 .. timeline_count'[t] : y = <<t, v>>
      BY <3>3
    <3>5. v \in Nat
      BY <1>1
    <3> QED
      BY <3>2, <3>4, <3>5
  <2>2. v \in timeline'[t] + 1 .. timeline_count'[t] /\ ~ (v <= timeline_count[t])
    BY <1>2, <1>4, <2>1
  <2>3. timeline_count'[t] # timeline_count[t]
    <3>1. timeline_count'[t] \in Nat /\ timeline_count[t] \in Nat
      BY <1>1
    <3> QED
      BY <2>2, <3>1
  <2>4. PICK q \in Queues, waits \in Waits, work \in SUBSET Works : Submits(q, waits, work)
    <3>1. ~ GpuQuiet
      BY <2>3 DEF GpuQuiet
    <3>2. ~ \E s \in VkQueues : GpuExecutes(s)
      BY <1>1, <2>3, ExecutesFacts
    <3> QED
      BY <3>1, <3>2, GpuStep
  <2> DEFINE L == Len(vk_queue[t])
  <2>5. submit(q, waits, work) /\ timeline' = timeline
        /\ waits = eliminate_completed(wait_semaphores[q])
    BY <2>4 DEF Submits
  <2>6. t = VkQueueOf[q]
    BY <1>1, <2>3, <2>5, SubmitFacts
  <2>7. PICK c : c = [waits |-> waits, value |-> timeline_count[t] + 1, work |-> work,
                      after |-> follows[q]]
    OBVIOUS
  <2>8. /\ L \in Nat /\ timeline_count[t] \in Nat /\ timeline_count'[t] = timeline_count[t] + 1
        /\ \A x \in VkQueues : x # t => timeline_count'[x] = timeline_count[x]
        /\ vk_queue'[t][L + 1] = c
    BY <1>1, <2>5, <2>6, <2>7, SubmitFacts
  <2>9. v = timeline_count[t] + 1
    BY <2>2, <2>8
  <2>10. timeline_count[t] = timeline[t] + L /\ timeline[t] \in Nat
    BY <1>1 DEF TimelinesExact
  <2>11. v - timeline[t] = L + 1
    BY <2>8, <2>9, <2>10
  <2>12. SubmissionAt(t, v)' = c /\ c.waits = waits
    BY <2>5, <2>7, <2>8, <2>11 DEF SubmissionAt
  <2>13. ASSUME NEW x \in DOMAIN waits, NEW w \in Nat, <<x, w>> \in D PROVE waits[x] < w
    <3>1. wait_semaphores[q] \in Waits
      BY <1>1 DEF Types
    <3>2. /\ x \in VkQueues /\ x \in DOMAIN wait_semaphores[q]
          /\ waits[x] = wait_semaphores[q][x] /\ waits[x] \in Nat
      BY <1>1, <2>5, <3>1, EliminateFacts
    <3>3. waits[x] <= timeline_count[x]
      BY <3>2 DEF WaitsSubmitted
    <3>4. ~ (w <= timeline_count[x])
      BY <1>4, <2>13, <3>2
    <3>5. timeline_count[x] \in Nat
      BY <1>1, <3>2
    <3> QED
      BY <3>2, <3>3, <3>4, <3>5
  <2>14. ASSUME NEW w \in Nat, <<t, w>> \in D PROVE v <= w
    <3>1. ~ (w <= timeline_count[t])
      BY <1>4, <2>14
    <3> QED
      BY <2>8, <2>9, <3>1
  <2>15. WaitsForNone(D, t, v)'
    BY <2>12, <2>13, <2>14 DEF WaitsForNone
  <2> QED
    BY <2>1, <2>15
<1> QED
  BY <1>3, <1>4

-----------------------------------------------------------------------------
(* Fence workers do not wait for each other.                               *)

LEMMA SlotElement ==
  ASSUME NEW q, NEW i
  PROVE  <<q, i>> \in Slots <=> q \in Queues /\ i \in DOMAIN worker[q]
BY DEF Slots

LEMMA SlotElementNext ==
  ASSUME NEW q, NEW i
  PROVE  <<q, i>> \in Slots' <=> q \in Queues /\ i \in DOMAIN worker'[q]
BY DEF Slots

\* Nothing is tied that only lost its first entry.
LEMMA RetireLeavesUntied ==
  ASSUME Inv, EntriesUntied, NEW q \in Queues, NEW type, Retire(q, type)
  PROVE  EntriesUntied'
<1>0. Types /\ worker \in [Queues -> Seq(Entry)]
  BY DEF Inv, Types
<1>1. /\ \A r \in Queues : r # q => worker'[r] = worker[r]
      /\ \A i \in DOMAIN worker'[q] :
           i \in Nat \ {0} /\ i + 1 \in DOMAIN worker[q] /\ worker'[q][i] = worker[q][i + 1]
  BY <1>0, RetireFacts DEF WorkerOf
<1> SUFFICES ASSUME NEW D \in SUBSET Slots', D # {}
             PROVE  \E r \in Queues, i \in Nat : <<r, i>> \in D /\ EntryWaitsForNone(D, r, i)'
  BY DEF EntriesUntied
<1> DEFINE old(r, i) == IF r = q THEN i + 1 ELSE i
           E == UNION {{<<r, old(r, i)>> : i \in {j \in DOMAIN worker'[r] : <<r, j>> \in D}} : r \in Queues}
<1>2. ASSUME NEW r \in Queues, NEW i \in DOMAIN worker'[r]
      PROVE  /\ i \in Nat /\ old(r, i) \in Nat /\ old(r, i) \in DOMAIN worker[r]
             /\ worker'[r][i] = worker[r][old(r, i)]
  <2>1. CASE r = q
    BY <1>1, <1>2, <2>1
  <2>2. CASE r # q
    <3>1. worker[r] \in Seq(Entry) /\ worker'[r] = worker[r]
      BY <1>0, <1>1, <2>2
    <3>2. DOMAIN worker[r] \subseteq Nat
      BY <3>1, LenProperties
    <3> QED
      BY <1>2, <2>2, <3>1, <3>2
  <2> QED
    BY <2>1, <2>2
<1>3. ASSUME NEW r \in Queues, NEW i, <<r, i>> \in D
      PROVE  i \in DOMAIN worker'[r] /\ <<r, old(r, i)>> \in E
  <2>1. i \in DOMAIN worker'[r]
    BY <1>3, SlotElementNext
  <2> QED
    BY <1>3, <2>1
<1>4. ASSUME NEW r, NEW k, <<r, k>> \in E
      PROVE  r \in Queues /\ \E i \in DOMAIN worker'[r] : <<r, i>> \in D /\ k = old(r, i)
  <2> HIDE DEF old
  <2>1. PICK p \in Queues :
           <<r, k>> \in {<<p, old(p, i)>> : i \in {j \in DOMAIN worker'[p] : <<p, j>> \in D}}
    BY <1>4
  <2>2. PICK i \in {j \in DOMAIN worker'[p] : <<p, j>> \in D} : <<r, k>> = <<p, old(p, i)>>
    BY <2>1
  <2>3. r = p /\ k = old(p, i)
    BY <2>2
  <2> QED
    BY <2>2, <2>3
<1>5. E \in SUBSET Slots
  <2>1. ASSUME NEW r \in Queues, NEW i \in DOMAIN worker'[r] PROVE <<r, old(r, i)>> \in Slots
    <3>1. old(r, i) \in DOMAIN worker[r]
      BY <1>2
    <3> HIDE DEF old
    <3> QED
      BY <3>1, SlotElement
  <2> HIDE DEF old
  <2>2. \A r \in Queues :
          {<<r, old(r, i)>> : i \in {j \in DOMAIN worker'[r] : <<r, j>> \in D}} \subseteq Slots
    BY <2>1
  <2> QED
    BY <2>2
<1>6. E # {}
  <2>1. PICK y \in D : TRUE
    OBVIOUS
  <2>2. PICK r \in Queues : \E i \in DOMAIN worker'[r] : y = <<r, i>>
    BY <2>1 DEF Slots
  <2> HIDE DEF E, old
  <2> QED
    BY <1>3, <2>1, <2>2
<1> HIDE DEF E
<1>7. PICK r \in Queues, k \in Nat : <<r, k>> \in E /\ EntryWaitsForNone(E, r, k)
  BY <1>5, <1>6 DEF EntriesUntied
<1>8. PICK i \in DOMAIN worker'[r] : <<r, i>> \in D /\ k = old(r, i)
  BY <1>4, <1>7
<1>9. i \in Nat /\ worker'[r][i] = worker[r][k]
  BY <1>2, <1>8
<1>10. ASSUME NEW j \in Nat, <<r, j>> \in D PROVE i <= j
  <2>1. <<r, old(r, j)>> \in E /\ old(r, j) \in Nat
    BY <1>2, <1>3, <1>10
  <2>2. k <= old(r, j)
    BY <1>7, <2>1 DEF EntryWaitsForNone
  <2> QED
    BY <1>8, <1>9, <1>10, <2>2
<1>11. ASSUME worker'[r][i].type = "order", NEW p \in Queues, NEW j \in Nat, <<p, j>> \in D
       PROVE  ~ SignalOf(worker'[p][j], worker'[r][i].fence, worker'[r][i].update_count)
  <2>1. j \in DOMAIN worker'[p] /\ <<p, old(p, j)>> \in E
    BY <1>3, <1>11
  <2>2. old(p, j) \in Nat /\ worker'[p][j] = worker[p][old(p, j)]
    BY <1>2, <2>1
  <2> HIDE DEF old
  <2>3. ~ SignalOf(worker[p][old(p, j)], worker[r][k].fence, worker[r][k].update_count)
    BY <1>7, <1>9, <1>11, <2>1, <2>2 DEF EntryWaitsForNone
  <2> QED
    BY <1>9, <2>2, <2>3
<1>12. EntryWaitsForNone(D, r, i)'
  <2>1. \A p, j : SignalOf(worker[p][j], worker[r][i].fence, worker[r][i].update_count)'
                    = SignalOf(worker'[p][j], worker'[r][i].fence, worker'[r][i].update_count)
    BY DEF SignalOf
  <2> QED
    BY <1>10, <1>11 DEF EntryWaitsForNone, SignalOf
<1> QED
  BY <1>8, <1>9, <1>12

\* Nothing is tied by entries that nobody waits for.
LEMMA ExtendLeavesUntied ==
  ASSUME Inv, EntriesUntied, NEW q \in Queues, NEW added, Extends(q, added),
         \A k \in DOMAIN added : \A r \in Queues : \A i \in DOMAIN worker'[r] :
           worker'[r][i].type = "order" =>
             ~ SignalOf(added[k], worker'[r][i].fence, worker'[r][i].update_count)
  PROVE  EntriesUntied'
<1>0. Types /\ worker \in [Queues -> Seq(Entry)]
  BY DEF Inv, Types
<1>1. /\ \A r \in Queues : r # q => worker'[r] = worker[r]
      /\ \A i \in DOMAIN worker[q] : i \in DOMAIN worker'[q] /\ worker'[q][i] = worker[q][i]
      /\ \A i \in DOMAIN worker'[q] : i \notin DOMAIN worker[q] =>
           /\ i \in Nat /\ \A j \in DOMAIN worker[q] : j < i
           /\ \E k \in DOMAIN added : worker'[q][i] = added[k]
  <2>1. \A r \in Queues : r # q => worker'[r] = worker[r]
    BY DEF Extends, WorkerOf
  <2>2. /\ \A i \in DOMAIN worker[q] : i \in DOMAIN worker'[q] /\ worker'[q][i] = worker[q][i]
        /\ \A i \in DOMAIN worker'[q] : i \notin DOMAIN worker[q] =>
             /\ i \in Nat /\ \A j \in DOMAIN worker[q] : j < i
             /\ \E k \in DOMAIN added : worker'[q][i] = added[k]
    BY <1>0, ExtendsFacts
  <2> QED
    BY <2>1, <2>2
<1> SUFFICES ASSUME NEW D \in SUBSET Slots', D # {}
             PROVE  \E r \in Queues, i \in Nat : <<r, i>> \in D /\ EntryWaitsForNone(D, r, i)'
  BY DEF EntriesUntied
<1>2. ASSUME NEW r \in Queues, NEW i, <<r, i>> \in D, <<r, i>> \notin Slots
      PROVE  /\ r = q /\ i \in DOMAIN worker'[q] /\ i \notin DOMAIN worker[q] /\ i \in Nat
             /\ \A j \in DOMAIN worker[q] : j < i
             /\ \E k \in DOMAIN added : worker'[q][i] = added[k]
  <2>1. i \in DOMAIN worker'[r] /\ i \notin DOMAIN worker[r]
    BY <1>2, SlotElement, SlotElementNext
  <2>2. r = q
    BY <1>1, <2>1
  <2> QED
    BY <1>1, <2>1, <2>2
<1>3. ASSUME NEW r \in Queues, NEW i, <<r, i>> \in Slots
      PROVE  i \in DOMAIN worker[r] /\ i \in Nat /\ worker'[r][i] = worker[r][i] /\ i \in DOMAIN worker'[r]
  <2>1. i \in DOMAIN worker[r]
    BY <1>3, SlotElement
  <2>2. worker[r] \in Seq(Entry)
    BY <1>0
  <2>3. i \in Nat
    BY <2>1, <2>2, LenProperties
  <2> QED
    BY <1>1, <2>1, <2>3
<1>4. ASSUME NEW r \in Queues, NEW i \in DOMAIN worker'[r], worker'[r][i].type = "order",
             NEW p \in Queues, NEW j, <<p, j>> \in D, <<p, j>> \notin Slots
      PROVE  ~ SignalOf(worker'[p][j], worker'[r][i].fence, worker'[r][i].update_count)
  <2>1. PICK k \in DOMAIN added : worker'[p][j] = added[k]
    BY <1>2, <1>4
  <2> QED
    BY <1>4, <2>1
<1>5. CASE \E r \in Queues, i \in Nat : <<r, i>> \in D /\ <<r, i>> \in Slots
  <2> DEFINE E == {x \in D : x \in Slots}
  <2>1. PICK r \in Queues, i \in Nat : <<r, i>> \in E /\ EntryWaitsForNone(E, r, i)
    <3>1. E \in SUBSET Slots /\ E # {}
      BY <1>5
    <3> HIDE DEF E
    <3> QED
      BY <3>1 DEF EntriesUntied
  <2>2. <<r, i>> \in D /\ <<r, i>> \in Slots
    BY <2>1
  <2>3. i \in DOMAIN worker[r] /\ worker'[r][i] = worker[r][i] /\ i \in DOMAIN worker'[r]
    BY <1>3, <2>2
  <2>4. ASSUME NEW j \in Nat, <<r, j>> \in D PROVE i <= j
    <3>1. CASE <<r, j>> \in Slots
      BY <2>1, <2>4, <3>1 DEF EntryWaitsForNone
    <3>2. CASE <<r, j>> \notin Slots
      <4>1. i < j
        BY <1>2, <2>3, <2>4, <3>2
      <4> QED
        BY <4>1
    <3> QED
      BY <3>1, <3>2
  <2>5. ASSUME worker'[r][i].type = "order", NEW p \in Queues, NEW j \in Nat, <<p, j>> \in D
        PROVE  ~ SignalOf(worker'[p][j], worker'[r][i].fence, worker'[r][i].update_count)
    <3>1. CASE <<p, j>> \in Slots
      <4>1. <<p, j>> \in E /\ worker'[p][j] = worker[p][j]
        BY <1>3, <2>5, <3>1
      <4>2. ~ SignalOf(worker[p][j], worker[r][i].fence, worker[r][i].update_count)
        BY <2>1, <2>3, <2>5, <4>1 DEF EntryWaitsForNone
      <4> QED
        BY <2>3, <4>1, <4>2
    <3>2. CASE <<p, j>> \notin Slots
      BY <1>4, <2>3, <2>5, <3>2
    <3> QED
      BY <3>1, <3>2
  <2>6. EntryWaitsForNone(D, r, i)'
    BY <2>4, <2>5 DEF EntryWaitsForNone, SignalOf
  <2> QED
    BY <2>2, <2>6
<1>6. CASE ~ \E r \in Queues, i \in Nat : <<r, i>> \in D /\ <<r, i>> \in Slots
  <2> DEFINE N == {i \in Nat : <<q, i>> \in D}
  <2>1. ASSUME NEW r \in Queues, NEW i, <<r, i>> \in D
        PROVE  r = q /\ i \in N /\ <<r, i>> \notin Slots
    <3>1. <<r, i>> \notin Slots
      BY <1>3, <1>6, <2>1
    <3> QED
      BY <1>2, <2>1, <3>1
  <2>2. N \subseteq Nat /\ N # {}
    <3>1. PICK y \in D : TRUE
      OBVIOUS
    <3>2. PICK r \in Queues : \E i \in DOMAIN worker'[r] : y = <<r, i>>
      BY <3>1 DEF Slots
    <3> HIDE DEF N
    <3>3. N # {}
      BY <2>1, <3>1, <3>2
    <3> QED
      BY <3>3 DEF N
  <2>3. PICK i \in N : \A j \in N : i <= j
    <3> HIDE DEF N
    <3> QED
      BY <2>2, LeastNatural
  <2>4. <<q, i>> \in D /\ i \in Nat /\ i \in DOMAIN worker'[q]
    BY <2>3, SlotElementNext
  <2>5. ASSUME worker'[q][i].type = "order", NEW p \in Queues, NEW j \in Nat, <<p, j>> \in D
        PROVE  ~ SignalOf(worker'[p][j], worker'[q][i].fence, worker'[q][i].update_count)
    BY <1>4, <2>1, <2>4, <2>5
  <2>6. \A j \in Nat : <<q, j>> \in D => i <= j
    BY <2>3
  <2>7. EntryWaitsForNone(D, q, i)'
    BY <2>5, <2>6 DEF EntryWaitsForNone, SignalOf
  <2> QED
    BY <2>4, <2>7
<1> QED
  BY <1>5, <1>6

LEMMA EntriesStayUntied ==
  ASSUME Inv, OrdersKnown, EntriesUntied, Next
  PROVE  EntriesUntied'
<1>1. Types /\ worker \in [Queues -> Seq(Entry)] /\ OrdersKnown'
  BY OrdersStayKnown DEF Inv, Types
<1>2. CASE worker' = worker
  <2>1. Slots' = Slots /\ \A D, q, i : EntryWaitsForNone(D, q, i)' <=> EntryWaitsForNone(D, q, i)
    BY <1>2 DEF Slots, EntryWaitsForNone, SignalOf
  <2> QED
    BY <2>1 DEF EntriesUntied
<1>3. ASSUME NEW q \in Queues, NEW type, Retire(q, type) PROVE EntriesUntied'
  BY <1>3, RetireLeavesUntied
<1>4. ASSUME NEW q \in Queues, AddsOthers(q) PROVE EntriesUntied'
  <2>1. PICK added : Extends(q, added) /\ NoSignal(added)
    BY <1>4 DEF AddsOthers
  <2>2. \A k \in DOMAIN added : \A f, n : ~ SignalOf(added[k], f, n)
    BY <2>1 DEF NoSignal, SignalOf
  <2> QED
    BY <2>1, <2>2, ExtendLeavesUntied
<1>5. ASSUME NEW q \in Queues, SignalFence(q), AddsSignal(q) PROVE EntriesUntied'
  <2> DEFINE f == Current(q).fence
             n == fences[f].update_count + 1
             e == SignalEntry(f, n, VkQueueOf[q], last_value[q])
             added == <<e>>
  <2>1. Extends(q, added) /\ f \in Fences /\ fences[f].update_count \in Nat
    BY <1>5, SignalFenceFacts DEF AddsSignal
  <2>2. e.type = "signal" /\ e.fence = f /\ e.update_count = n
    BY DEF SignalEntry
  <2> HIDE DEF e, f
  <2>3. DOMAIN added = {1} /\ added[1] = e
    OBVIOUS
  <2> HIDE DEF added
  <2>4. ASSUME NEW k \in DOMAIN added, NEW r \in Queues, NEW i \in DOMAIN worker'[r],
               worker'[r][i].type = "order",
               SignalOf(added[k], worker'[r][i].fence, worker'[r][i].update_count)
        PROVE  FALSE
    <3>1. worker'[r][i].fence = f /\ worker'[r][i].update_count = n
      BY <2>2, <2>3, <2>4 DEF SignalOf
    <3>2. \E j \in DOMAIN worker[r] : worker'[r][i] = worker[r][j]
      <4>1. CASE r # q
        BY <2>1, <2>4, <4>1 DEF Extends, WorkerOf
      <4>2. CASE r = q /\ i \in DOMAIN worker[q]
        BY <1>1, <2>1, <4>2, ExtendsFacts
      <4>3. CASE r = q /\ i \notin DOMAIN worker[q]
        <5>1. \E m \in DOMAIN added : worker'[q][i] = added[m]
          BY <1>1, <2>1, <2>4, <4>3, ExtendsFacts
        <5>2. worker'[q][i] = e
          BY <2>3, <5>1
        <5> QED
          BY <2>2, <2>4, <4>3, <5>2
      <4> QED
        BY <4>1, <4>2, <4>3
    <3>3. worker'[r][i].update_count <= fences[f].update_count
      BY <2>4, <3>1, <3>2 DEF OrdersKnown, EntryKnown
    <3> QED
      BY <2>1, <3>1, <3>3
  <2> QED
    BY <2>1, <2>4, ExtendLeavesUntied
<1> QED
  BY <1>2, <1>3, <1>4, <1>5, WorkerMoves

-----------------------------------------------------------------------------
(* No knot.                                                                *)

LEMMA InitKnotInv ==
  ASSUME Init
  PROVE  KnotInv
<1>1. /\ \A q \in Queues : /\ worker[q] = <<>> /\ wait_fences[q] = <<>>
                           /\ wait_semaphores[q] = NoSemaphores /\ cpu_until[q] = Nothing
      /\ \A t \in VkQueues : vk_queue[t] = <<>> /\ timeline[t] = 0 /\ timeline_count[t] = 0
      /\ \A f \in Fences : fences[f] = fence_init(0)
  BY DEF Init
<1>2. DOMAIN <<>> = {} /\ DOMAIN NoSemaphores = {}
  BY DEF NoSemaphores
<1>3. \A q \in Queues : Nothing.vk_semaphore \in VkQueues /\ Nothing.vk_semaphore_value = 0
  BY QueuesAssumption DEF Nothing
<1>4. WaitsSubmitted
  <2>1. \A q \in Queues : cpu_until[q].vk_semaphore_value <= timeline_count[cpu_until[q].vk_semaphore]
    BY <1>1, <1>3, QueuesAssumption
  <2> QED
    BY <1>1, <1>2, <2>1, NewFence DEF WaitsSubmitted
<1>5. OrdersKnown
  BY <1>1, <1>2 DEF OrdersKnown
<1>6. UpdatesHaveEntries
  <2>1. \A f \in Fences : fences[f].signal_count + 1 .. fences[f].update_count = {}
    BY <1>1, NewFence
  <2> QED
    BY <2>1 DEF UpdatesHaveEntries
<1>7. Pending = {}
  <2>1. \A t \in VkQueues : timeline[t] + 1 .. timeline_count[t] = {}
    BY <1>1
  <2> QED
    BY <2>1 DEF Pending
<1>8. Slots = {}
  BY <1>1, <1>2 DEF Slots
<1> QED
  BY <1>4, <1>5, <1>6, <1>7, <1>8 DEF KnotInv, SubmissionsUntied, EntriesUntied

LEMMA NextKnotInv ==
  ASSUME Inv, KnotInv, Next
  PROVE  KnotInv'
BY WaitsStaySubmitted, OrdersStayKnown, UpdatesKeepEntries, SubmissionsStayUntied,
   EntriesStayUntied DEF KnotInv

LEMMA StutterKnotInv ==
  ASSUME KnotInv, UNCHANGED vars
  PROVE  KnotInv'
<1>1. UNCHANGED <<wait_fences, wait_semaphores, cpu_until, timeline_count, vk_queue, timeline,
                  worker, fences>>
  BY DEF vars, thread_vars, gpu_vars, fence_vars
<1>2. WaitsSubmitted' /\ OrdersKnown' /\ UpdatesHaveEntries'
  BY <1>1 DEF KnotInv, WaitsSubmitted, OrdersKnown, EntryKnown, UpdatesHaveEntries, SignalOf
<1>3. SubmissionsUntied'
  <2>1. Pending' = Pending /\ \A D, t, v : WaitsForNone(D, t, v)' <=> WaitsForNone(D, t, v)
    BY <1>1 DEF Pending, WaitsForNone, SubmissionAt
  <2> QED
    BY <2>1 DEF KnotInv, SubmissionsUntied
<1>4. EntriesUntied'
  <2>1. Slots' = Slots /\ \A D, q, i : EntryWaitsForNone(D, q, i)' <=> EntryWaitsForNone(D, q, i)
    BY <1>1 DEF Slots, EntryWaitsForNone, SignalOf
  <2> QED
    BY <2>1 DEF KnotInv, EntriesUntied
<1> QED
  BY <1>2, <1>3, <1>4 DEF KnotInv

\* A VkQueue that has work left holds up others, or can execute.
LEMMA SomeSubmissionExecutes ==
  ASSUME Inv, WaitsSubmitted, SubmissionsUntied, NEW s \in VkQueues, vk_queue[s] # <<>>
  PROVE  \E t \in VkQueues : Executable(t)
<1>1. /\ Types /\ timeline \in [VkQueues -> Nat] /\ timeline_count \in [VkQueues -> Nat]
      /\ vk_queue \in [VkQueues -> Seq(GpuSubmission)]
      /\ \A t \in VkQueues : timeline_count[t] = timeline[t] + Len(vk_queue[t])
  BY DEF Inv, Types, TimelinesExact
<1>2. <<s, timeline[s] + 1>> \in Pending
  <2>1. vk_queue[s] \in Seq(GpuSubmission)
    BY <1>1
  <2>2. Len(vk_queue[s]) \in Nat \ {0}
    BY <2>1, TailFacts
  <2>3. timeline[s] \in Nat /\ timeline_count[s] = timeline[s] + Len(vk_queue[s])
    BY <1>1
  <2>4. timeline[s] + 1 \in timeline[s] + 1 .. timeline_count[s]
    BY <2>2, <2>3
  <2> QED
    BY <2>4, PendingElement
<1>3. PICK t \in VkQueues, v \in Nat : <<t, v>> \in Pending /\ WaitsForNone(Pending, t, v)
  BY <1>2 DEF SubmissionsUntied
<1>4. v \in timeline[t] + 1 .. timeline_count[t] /\ timeline[t] \in Nat /\ timeline_count[t] \in Nat
  BY <1>1, <1>3, PendingElement
<1>5. v = timeline[t] + 1
  <2>1. timeline[t] + 1 \in timeline[t] + 1 .. timeline_count[t] /\ timeline[t] + 1 \in Nat
    BY <1>4
  <2>2. <<t, timeline[t] + 1>> \in Pending
    BY <2>1, PendingElement
  <2>3. v <= timeline[t] + 1
    BY <1>3, <2>1, <2>2 DEF WaitsForNone
  <2> QED
    BY <1>4, <2>3
<1>6. vk_queue[t] # <<>> /\ Head(vk_queue[t]) = vk_queue[t][1] /\ 1 \in DOMAIN vk_queue[t]
      /\ Head(vk_queue[t]) \in GpuSubmission
  <2>1. vk_queue[t] \in Seq(GpuSubmission) /\ timeline_count[t] = timeline[t] + Len(vk_queue[t])
    BY <1>1
  <2>2. Len(vk_queue[t]) \in Nat /\ Len(vk_queue[t]) # 0
    BY <1>4, <2>1, LenProperties
  <2>3. vk_queue[t] # <<>>
    BY <2>2
  <2> QED
    BY <2>1, <2>3, TailFacts
<1>7. SubmissionAt(t, v) = Head(vk_queue[t])
  <2>1. v - timeline[t] = 1
    BY <1>4, <1>5
  <2> QED
    BY <1>6, <2>1 DEF SubmissionAt
<1> DEFINE waits == Head(vk_queue[t]).waits
<1>8. waits \in Waits /\ \A x \in DOMAIN waits : waits[x] <= timeline_count[x]
  BY <1>6 DEF GpuSubmission, WaitsSubmitted
<1>9. ASSUME NEW x \in DOMAIN waits PROVE timeline[x] >= waits[x]
  <2>1. x \in VkQueues /\ waits[x] \in Nat /\ waits[x] <= timeline_count[x]
    BY <1>8, WaitsFacts
  <2>2. timeline[x] \in Nat /\ timeline_count[x] \in Nat
    BY <1>1, <2>1
  <2>3. CASE timeline[x] < waits[x]
    <3>1. waits[x] \in timeline[x] + 1 .. timeline_count[x]
      BY <2>1, <2>2, <2>3
    <3>2. <<x, waits[x]>> \in Pending
      BY <2>1, <3>1, PendingElement
    <3>3. waits[x] < waits[x]
      BY <1>3, <1>7, <2>1, <3>2 DEF WaitsForNone
    <3> QED
      BY <2>1, <3>3
  <2> QED
    BY <2>1, <2>2, <2>3
<1> QED
  BY <1>6, <1>9 DEF Executable

\* The waits of the queues never tie a knot.
LEMMA Untied ==
  ASSUME Inv, KnotInv
  PROVE  NoKnot
<1>1. /\ Types /\ timeline \in [VkQueues -> Nat] /\ timeline_count \in [VkQueues -> Nat]
      /\ worker \in [Queues -> Seq(Entry)] /\ cpu_until \in [Queues -> SemaphoreValue]
      /\ \A t \in VkQueues : timeline_count[t] = timeline[t] + Len(vk_queue[t])
      /\ WaitsSubmitted /\ OrdersKnown /\ UpdatesHaveEntries /\ SubmissionsUntied /\ EntriesUntied
  BY DEF Inv, Types, TimelinesExact, KnotInv
<1> SUFFICES ASSUME ~ \E t \in VkQueues : Executable(t),
                    ~ \E q \in Queues : worker[q] # <<>> /\ EntryReady(Head(worker[q])),
                    ~ \E q \in Queues : thread[q] = "cpu_wait" /\ Reached(cpu_until[q]),
                    NEW b \in Queues, worker[b] # <<>> \/ thread[b] = "cpu_wait"
             PROVE  FALSE
  <2>1. \A t \in VkQueues : vk_queue[t] # <<>> => \E s \in VkQueues : Executable(s)
    BY <1>1, SomeSubmissionExecutes
  <2> QED
    BY <2>1 DEF NoKnot
<1>2. ASSUME NEW t \in VkQueues, NEW v \in Nat, v <= timeline_count[t] PROVE timeline[t] >= v
  <2>1. vk_queue[t] = <<>>
    BY <1>1, SomeSubmissionExecutes
  <2>2. timeline_count[t] = timeline[t] + 0 /\ timeline[t] \in Nat
    BY <1>1, <2>1
  <2> QED
    BY <1>2, <2>2
<1>3. ASSUME thread[b] = "cpu_wait" PROVE FALSE
  <2>1. cpu_until[b].vk_semaphore \in VkQueues /\ cpu_until[b].vk_semaphore_value \in Nat
    BY <1>1 DEF SemaphoreValue
  <2>2. cpu_until[b].vk_semaphore_value <= timeline_count[cpu_until[b].vk_semaphore]
    BY <1>1 DEF WaitsSubmitted
  <2>3. Reached(cpu_until[b])
    BY <1>2, <2>1, <2>2 DEF Reached
  <2> QED
    BY <1>3, <2>3
<1>4. ASSUME worker[b] # <<>> PROVE FALSE
  <2>1. ASSUME NEW q \in Queues, worker[q] # <<>>
        PROVE  /\ 1 \in DOMAIN worker[q] /\ Head(worker[q]) = worker[q][1]
               /\ Head(worker[q]) \in Entry
               /\ Head(worker[q]).type = "order"
               /\ ~ (fences[Head(worker[q]).fence].signal_count >= Head(worker[q]).update_count)
    <3> DEFINE e == Head(worker[q])
    <3>1. worker[q] \in Seq(Entry)
      BY <1>1
    <3>2. 1 \in DOMAIN worker[q] /\ e = worker[q][1] /\ e \in Entry
      BY <2>1, <3>1, TailFacts
    <3>3. EntryKnown(e)
      BY <1>1, <3>2 DEF OrdersKnown
    <3>4. ~ EntryReady(e)
      BY <2>1
    <3> HIDE DEF e
    <3>5. e.type \in {"signal", "order", "release"}
          /\ (e.type \in {"signal", "release"} =>
                e.vk_semaphore \in VkQueues /\ e.vk_semaphore_value \in Nat)
      BY <3>2, EntryFields
    <3>6. e.type \in {"signal", "release"} => Reached(e)
      BY <1>2, <3>3, <3>5 DEF EntryKnown, Reached
    <3>7. e.type = "order"
      BY <3>4, <3>5, <3>6 DEF EntryReady
    <3>8. ~ (fences[e.fence].signal_count >= e.update_count)
      BY <3>4, <3>7 DEF EntryReady
    <3> QED
      BY <3>2, <3>7, <3>8 DEF e
  <2>2. Slots \in SUBSET Slots /\ Slots # {}
    <3>1. <<b, 1>> \in Slots
      BY <1>4, <2>1, SlotElement
    <3> QED
      BY <3>1
  <2>3. PICK q \in Queues, i \in Nat : <<q, i>> \in Slots /\ EntryWaitsForNone(Slots, q, i)
    BY <1>1, <2>2 DEF EntriesUntied
  <2>4. worker[q] # <<>> /\ i \in DOMAIN worker[q]
    <3>1. i \in DOMAIN worker[q]
      BY <2>3, SlotElement
    <3> QED
      BY <3>1
  <2> DEFINE e == worker[q][1]
  <2>5. e \in Entry /\ e.type = "order" /\ ~ (fences[e.fence].signal_count >= e.update_count)
        /\ EntryKnown(e) /\ <<q, 1>> \in Slots
    BY <1>1, <2>1, <2>4, SlotElement DEF OrdersKnown
  <2>6. i = 1
    <3>1. i <= 1
      BY <2>3, <2>5 DEF EntryWaitsForNone
    <3>2. worker[q] \in Seq(Entry)
      BY <1>1
    <3>3. i \in 1..Len(worker[q]) /\ Len(worker[q]) \in Nat
      BY <2>4, <3>2, LenProperties
    <3> QED
      BY <3>1, <3>3
  <2> HIDE DEF e
  <2>7. /\ e.fence \in Fences /\ e.update_count \in Nat
        /\ e.update_count <= fences[e.fence].update_count
    BY <2>5, EntryFields DEF EntryKnown
  <2>8. fences[e.fence].signal_count \in Nat /\ fences[e.fence].update_count \in Nat
    BY <1>1, <2>7, FenceFields DEF Types
  <2>9. e.update_count \in fences[e.fence].signal_count + 1 .. fences[e.fence].update_count
    BY <2>5, <2>7, <2>8
  <2>10. PICK r \in Queues : \E j \in DOMAIN worker[r] :
                               SignalOf(worker[r][j], e.fence, e.update_count)
    BY <1>1, <2>7, <2>9 DEF UpdatesHaveEntries
  <2>11. PICK j \in DOMAIN worker[r] : SignalOf(worker[r][j], e.fence, e.update_count)
    BY <2>10
  <2>12. j \in Nat /\ <<r, j>> \in Slots
    <3>1. worker[r] \in Seq(Entry)
      BY <1>1
    <3> QED
      BY <3>1, LenProperties, SlotElement
  <2> QED
    BY <2>3, <2>5, <2>6, <2>11, <2>12 DEF EntryWaitsForNone, e
<1> QED
  BY <1>3, <1>4

\* What is pending always can be put in an order in which each waits for earlier ones.
LEMMA KnotHolds == Spec => []KnotInv
<1>1. Inv /\ KnotInv /\ [Next]_vars => KnotInv'
  BY NextKnotInv, StutterKnotInv
<1>2. IInv => Inv
  BY DEF IInv
<1> QED
  BY OrderHolds, InitKnotInv, <1>1, <1>2, PTL DEF Spec

\* Waits across queues never tie a knot, whatever the programs: as long as a
\* VkQueue, a fence worker or a thread in a CPU wait has something to do, one of
\* them can move.  A wait is resolved only to a signal that has been submitted, so
\* neither submissions nor fence workers can wait for each other in a circle.
THEOREM NeverAKnot == Spec => []NoKnot
<1>1. IInv => Inv
  BY DEF IInv
<1>2. Inv /\ KnotInv => NoKnot
  BY Untied
<1> QED
  BY OrderHolds, KnotHolds, <1>1, <1>2, PTL

-----------------------------------------------------------------------------
(* How many places of the queues' sequences have something of a kind.      *)

Spots(s, G) ==
  UNION {{<<q, i>> : i \in {j \in DOMAIN s[q] : <<q, s[q][j]>> \in G}} : q \in Queues}

Hits(a, q, G) == {i \in DOMAIN a : <<q, a[i]>> \in G}

HitCount(a, q, G) == Cardinality(Hits(a, q, G))

\* One sequence has finitely many, no more than it is long.
LEMMA HitsFinite ==
  ASSUME NEW S, NEW a \in Seq(S), NEW q, NEW G
  PROVE  /\ IsFiniteSet(Hits(a, q, G)) /\ HitCount(a, q, G) \in Nat
         /\ Hits(a, q, G) \subseteq 1..Len(a)
<1>1. Len(a) \in Nat /\ DOMAIN a = 1..Len(a)
  BY LenProperties
<1>2. IsFiniteSet(1..Len(a))
  BY <1>1, FS_Interval
<1>3. Hits(a, q, G) \in SUBSET (1..Len(a))
  BY <1>1 DEF Hits
<1>4. IsFiniteSet(Hits(a, q, G))
  BY <1>2, <1>3, FS_Subset
<1> QED
  BY <1>3, <1>4, FS_CardinalityType DEF HitCount

\* The empty sequence has none.
LEMMA HitsEmpty ==
  ASSUME NEW q, NEW G
  PROVE  HitCount(<<>>, q, G) = 0
<1>1. Hits(<<>>, q, G) = {}
  BY DEF Hits
<1> QED
  BY <1>1, FS_EmptySet DEF HitCount

\* A sequence of one has one or none.
LEMMA HitsOne ==
  ASSUME NEW e, NEW q, NEW G
  PROVE  HitCount(<<e>>, q, G) = IF <<q, e>> \in G THEN 1 ELSE 0
<1>1. DOMAIN <<e>> = {1} /\ <<e>>[1] = e
  OBVIOUS
<1>2. CASE <<q, e>> \in G
  <2>1. Hits(<<e>>, q, G) = {1}
    BY <1>1, <1>2 DEF Hits
  <2> QED
    BY <1>2, <2>1, FS_Singleton DEF HitCount
<1>3. CASE <<q, e>> \notin G
  <2>1. Hits(<<e>>, q, G) = {}
    BY <1>1, <1>3 DEF Hits
  <2> QED
    BY <1>3, <2>1, FS_EmptySet DEF HitCount
<1> QED
  BY <1>2, <1>3

\* Two sequences, one behind the other, have those of both.
LEMMA HitsConcat ==
  ASSUME NEW S, NEW a \in Seq(S), NEW b \in Seq(S), NEW q, NEW G
  PROVE  HitCount(a \o b, q, G) = HitCount(a, q, G) + HitCount(b, q, G)
<1> DEFINE z == a \o b
           n == Len(a)
           m == Len(b)
           A == Hits(a, q, G)
           B == Hits(b, q, G)
           C == {n + k : k \in B}
           move == [k \in B |-> n + k]
<1>0. n \in Nat /\ m \in Nat
  BY LenProperties
<1>1. /\ DOMAIN a = 1..n /\ DOMAIN b = 1..m /\ DOMAIN z = 1..(n + m)
      /\ \A i \in 1..(n + m) : z[i] = IF i <= n THEN a[i] ELSE b[i - n]
  BY ConcatProperties, LenProperties
<1>2. IsFiniteSet(A) /\ IsFiniteSet(B) /\ HitCount(a, q, G) \in Nat /\ HitCount(b, q, G) \in Nat
  BY HitsFinite
<1> HIDE DEF z
<1>3. /\ \A k \in B : k \in 1..m /\ <<q, b[k]>> \in G
      /\ \A k \in DOMAIN b : <<q, b[k]>> \in G => k \in B
  BY <1>1 DEF Hits
<1>4. /\ \A i \in A : i \in 1..n /\ <<q, a[i]>> \in G
      /\ \A i \in DOMAIN a : <<q, a[i]>> \in G => i \in A
  BY <1>1 DEF Hits
<1> HIDE DEF n, m, A, B
<1>5. Hits(z, q, G) = A \cup C
  <2>1. ASSUME NEW i \in Hits(z, q, G) PROVE i \in A \cup C
    <3>1. i \in 1..(n + m) /\ <<q, z[i]>> \in G
      BY <1>1, <2>1 DEF Hits
    <3>2. CASE i <= n
      <4>1. i \in DOMAIN a /\ z[i] = a[i]
        BY <1>0, <1>1, <3>1, <3>2
      <4> QED
        BY <1>4, <3>1, <4>1
    <3>3. CASE ~ (i <= n)
      <4>1. i - n \in DOMAIN b /\ z[i] = b[i - n] /\ n + (i - n) = i
        BY <1>0, <1>1, <3>1, <3>3
      <4>2. i - n \in B
        BY <1>3, <3>1, <4>1
      <4> QED
        BY <4>1, <4>2
    <3> QED
      BY <3>2, <3>3
  <2>2. ASSUME NEW i \in A PROVE i \in Hits(z, q, G)
    <3>0. i \in 1..n
      BY <1>4
    <3>1. i \in 1..(n + m) /\ i <= n
      BY <1>0, <3>0
    <3>2. i \in DOMAIN z /\ z[i] = a[i]
      BY <1>1, <3>1
    <3> QED
      BY <1>4, <2>2, <3>2 DEF Hits
  <2>3. ASSUME NEW k \in B PROVE n + k \in Hits(z, q, G)
    <3>0. k \in 1..m
      BY <1>3
    <3>1. n + k \in 1..(n + m) /\ ~ (n + k <= n) /\ (n + k) - n = k
      BY <1>0, <3>0
    <3>2. n + k \in DOMAIN z /\ z[n + k] = b[(n + k) - n]
      BY <1>0, <1>1, <3>1
    <3> QED
      BY <1>3, <2>3, <3>1, <3>2 DEF Hits
  <2> QED
    BY <2>1, <2>2, <2>3
<1>6. move \in Bijection(B, C)
  <2>1. move \in [B -> C]
    OBVIOUS
  <2>2. ASSUME NEW k \in B, NEW l \in B, move[k] = move[l] PROVE k = l
    <3>1. k \in 1..m /\ l \in 1..m
      BY <1>3
    <3>2. n + k = n + l
      BY <2>2
    <3> QED
      BY <1>0, <3>1, <3>2
  <2>3. \A x \in C : \E k \in B : move[k] = x
    OBVIOUS
  <2> QED
    BY <2>1, <2>2, <2>3 DEF Bijection, Injection, Surjection, IsInjective
<1>7. IsFiniteSet(C) /\ Cardinality(C) = Cardinality(B)
  <2>1. ExistsBijection(B, C)
    BY <1>6 DEF ExistsBijection
  <2>2. IsFiniteSet(B)
    BY <1>2 DEF B
  <2> HIDE DEF C
  <2> QED
    BY <2>1, <2>2, FS_Bijection
<1>8. A \cap C = {}
  <2> SUFFICES ASSUME NEW k \in B, n + k \in A PROVE FALSE
    OBVIOUS
  <2>1. k \in 1..m /\ n + k \in 1..n
    BY <1>3, <1>4
  <2> QED
    BY <1>0, <2>1
<1>9. Cardinality(A \cup C) = Cardinality(A) + Cardinality(C) - Cardinality(A \cap C)
  <2>1. IsFiniteSet(A)
    BY <1>2 DEF A
  <2> HIDE DEF C
  <2> QED
    BY <1>7, <2>1, FS_Union
<1>10. /\ HitCount(z, q, G) = Cardinality(A \cup C)
       /\ HitCount(a, q, G) = Cardinality(A) /\ HitCount(b, q, G) = Cardinality(B)
  BY <1>5 DEF HitCount, A, B
<1>11. Cardinality(A \cap C) = 0
  BY <1>8, FS_EmptySet
<1> QED
  BY <1>2, <1>7, <1>9, <1>10, <1>11 DEF z

\* The places that count.
LEMMA SpotElement ==
  ASSUME NEW s, NEW G, NEW q, NEW i
  PROVE  <<q, i>> \in Spots(s, G) <=> q \in Queues /\ i \in DOMAIN s[q] /\ <<q, s[q][i]>> \in G
<1>1. ASSUME <<q, i>> \in Spots(s, G)
      PROVE  q \in Queues /\ i \in DOMAIN s[q] /\ <<q, s[q][i]>> \in G
  <2>1. PICK r \in Queues :
          <<q, i>> \in {<<r, k>> : k \in {j \in DOMAIN s[r] : <<r, s[r][j]>> \in G}}
    BY <1>1 DEF Spots
  <2>2. PICK k \in {j \in DOMAIN s[r] : <<r, s[r][j]>> \in G} : <<q, i>> = <<r, k>>
    BY <2>1
  <2>3. q = r /\ i = k
    BY <2>2
  <2> QED
    BY <2>2, <2>3
<1>2. ASSUME q \in Queues, i \in DOMAIN s[q], <<q, s[q][i]>> \in G
      PROVE  <<q, i>> \in Spots(s, G)
  <2>1. i \in {j \in DOMAIN s[q] : <<q, s[q][j]>> \in G}
    BY <1>2
  <2>2. <<q, i>> \in {<<q, k>> : k \in {j \in DOMAIN s[q] : <<q, s[q][j]>> \in G}}
    BY <2>1
  <2> QED
    BY <1>2, <2>2 DEF Spots
<1> QED
  BY <1>1, <1>2

\* Every place is one of some queue.
LEMMA SpotPair ==
  ASSUME NEW s, NEW G, NEW x \in Spots(s, G)
  PROVE  \E q \in Queues : \E i \in DOMAIN s[q] : x = <<q, i>>
<1>1. PICK q \in Queues :
        x \in {<<q, i>> : i \in {j \in DOMAIN s[q] : <<q, s[q][j]>> \in G}}
  BY DEF Spots
<1> QED
  BY <1>1

\* The places of the other queues.
Elsewhere(s, q, G) == {x \in Spots(s, G) : x[1] # q}

\* The count is that of one queue and of the others.
LEMMA SpotsSplit ==
  ASSUME NEW S, NEW s, NEW q \in Queues, s[q] \in Seq(S), NEW G,
         IsFiniteSet(Elsewhere(s, q, G))
  PROVE  /\ IsFiniteSet(Spots(s, G))
         /\ Cardinality(Spots(s, G)) = Cardinality(Elsewhere(s, q, G)) + HitCount(s[q], q, G)
<1> DEFINE H == Hits(s[q], q, G)
           R == Elsewhere(s, q, G)
           T == {<<q, i>> : i \in H}
           move == [i \in H |-> <<q, i>>]
<1>1. IsFiniteSet(H) /\ HitCount(s[q], q, G) = Cardinality(H)
  BY HitsFinite DEF HitCount
<1>2. move \in Bijection(H, T)
  <2> HIDE DEF H
  <2>1. move \in [H -> T] /\ \A x \in T : \E i \in H : move[i] = x
    OBVIOUS
  <2>2. \A i, j \in H : move[i] = move[j] => i = j
    OBVIOUS
  <2> QED
    BY <2>1, <2>2 DEF Bijection, Injection, Surjection, IsInjective
<1>3. IsFiniteSet(T) /\ Cardinality(T) = Cardinality(H)
  <2>1. ExistsBijection(H, T)
    BY <1>2 DEF ExistsBijection
  <2> HIDE DEF H, T
  <2> QED
    BY <1>1, <2>1, FS_Bijection
<1>4. Spots(s, G) = R \cup T
  <2>1. ASSUME NEW x \in Spots(s, G), x \notin R PROVE x \in T
    <3>1. PICK r \in Queues : \E i \in DOMAIN s[r] : x = <<r, i>>
      BY SpotPair
    <3>2. PICK i \in DOMAIN s[r] : x = <<r, i>>
      BY <3>1
    <3>3. r = q
      BY <2>1, <3>2 DEF Elsewhere
    <3>4. i \in H
      BY <3>2, <3>3, SpotElement DEF Hits
    <3> QED
      BY <3>2, <3>3, <3>4
  <2>2. ASSUME NEW i \in H PROVE <<q, i>> \in Spots(s, G)
    <3>1. i \in DOMAIN s[q] /\ <<q, s[q][i]>> \in G
      BY <2>2 DEF Hits
    <3> QED
      BY <3>1, SpotElement
  <2>3. R \subseteq Spots(s, G)
    BY DEF Elsewhere
  <2> QED
    BY <2>1, <2>2, <2>3
<1>5. R \cap T = {}
  <2> SUFFICES ASSUME NEW x \in R, x \in T PROVE FALSE
    OBVIOUS
  <2>1. x[1] # q
    BY DEF Elsewhere
  <2>2. x[1] = q
    OBVIOUS
  <2> QED
    BY <2>1, <2>2
<1>6. /\ IsFiniteSet(R \cup T)
      /\ Cardinality(R \cup T) = Cardinality(R) + Cardinality(T) - Cardinality(R \cap T)
  <2> HIDE DEF R, T
  <2>1. IsFiniteSet(R)
    BY DEF R
  <2> QED
    BY <1>3, <2>1, FS_Union
<1>7. Cardinality(R \cap T) = 0
  BY <1>5, FS_EmptySet
<1>8. Cardinality(R) \in Nat /\ Cardinality(T) \in Nat
  <2> HIDE DEF T
  <2> QED
    BY <1>3, FS_CardinalityType
<1> QED
  BY <1>1, <1>3, <1>4, <1>6, <1>7, <1>8

\* When the sequence of one queue changes, so does the count.
LEMMA SpotsChange ==
  ASSUME NEW S, NEW s, NEW z, NEW q \in Queues, s[q] \in Seq(S), z[q] \in Seq(S),
         \A r \in Queues \ {q} : z[r] = s[r], NEW G, IsFiniteSet(Spots(s, G))
  PROVE  /\ IsFiniteSet(Spots(z, G))
         /\ Cardinality(Spots(s, G)) \in Nat /\ Cardinality(Spots(z, G)) \in Nat
         /\ HitCount(s[q], q, G) \in Nat /\ HitCount(z[q], q, G) \in Nat
         /\ Cardinality(Spots(z, G)) + HitCount(s[q], q, G)
              = Cardinality(Spots(s, G)) + HitCount(z[q], q, G)
<1>1. Elsewhere(z, q, G) = Elsewhere(s, q, G)
  <2>1. ASSUME NEW x \in Elsewhere(z, q, G) PROVE x \in Elsewhere(s, q, G)
    <3>1. x \in Spots(z, G) /\ x[1] # q
      BY <2>1 DEF Elsewhere
    <3>2. PICK r \in Queues : \E i \in DOMAIN z[r] : x = <<r, i>>
      BY <3>1, SpotPair
    <3>3. PICK i \in DOMAIN z[r] : x = <<r, i>>
      BY <3>2
    <3>4. z[r] = s[r]
      BY <3>1, <3>3
    <3>5. <<r, i>> \in Spots(s, G)
      BY <3>1, <3>3, <3>4, SpotElement
    <3> QED
      BY <3>1, <3>3, <3>5 DEF Elsewhere
  <2>2. ASSUME NEW x \in Elsewhere(s, q, G) PROVE x \in Elsewhere(z, q, G)
    <3>1. x \in Spots(s, G) /\ x[1] # q
      BY <2>2 DEF Elsewhere
    <3>2. PICK r \in Queues : \E i \in DOMAIN s[r] : x = <<r, i>>
      BY <3>1, SpotPair
    <3>3. PICK i \in DOMAIN s[r] : x = <<r, i>>
      BY <3>2
    <3>4. z[r] = s[r]
      BY <3>1, <3>3
    <3>5. <<r, i>> \in Spots(z, G)
      BY <3>1, <3>3, <3>4, SpotElement
    <3> QED
      BY <3>1, <3>3, <3>5 DEF Elsewhere
  <2> QED
    BY <2>1, <2>2
<1> DEFINE R == Elsewhere(s, q, G)
<1>2. IsFiniteSet(R)
  <2>1. R \in SUBSET Spots(s, G)
    BY DEF Elsewhere
  <2> QED
    BY <2>1, FS_Subset
<1>3. Cardinality(Spots(s, G)) = Cardinality(R) + HitCount(s[q], q, G)
  BY <1>2, SpotsSplit
<1>4. /\ IsFiniteSet(Spots(z, G))
      /\ Cardinality(Spots(z, G)) = Cardinality(R) + HitCount(z[q], q, G)
  <2>1. IsFiniteSet(Elsewhere(z, q, G))
    BY <1>1, <1>2
  <2> QED
    BY <1>1, <2>1, SpotsSplit
<1>5. Cardinality(R) \in Nat
  BY <1>2, FS_CardinalityType
<1>6. HitCount(s[q], q, G) \in Nat /\ HitCount(z[q], q, G) \in Nat
  BY HitsFinite
<1> QED
  BY <1>3, <1>4, <1>5, <1>6

-----------------------------------------------------------------------------
(* Who holds a fence.                                                      *)

ResolvedWait == [fence : Fences, update_count : Nat]

UsesOf(p, f) == {x \in Queues \X Command : UsesFence(p[x[1]][x[2].id], f)}
WaitsOf(f)   == {x \in Queues \X ResolvedWait : x[2].fence = f}
EntriesOf(f) == {x \in Queues \X Entry : x[2].type # "release" /\ x[2].fence = f}

One(b) == IF b THEN 1 ELSE 0

\* How many more hold f after the step.
CommandsBy(f, n) ==
  /\ IsFiniteSet(HeldByCommands(f)')
  /\ Cardinality(HeldByCommands(f)') = Cardinality(HeldByCommands(f)) + n

WaitsBy(f, n) ==
  /\ IsFiniteSet(HeldByWaits(f)')
  /\ Cardinality(HeldByWaits(f)') = Cardinality(HeldByWaits(f)) + n

WorkersBy(f, n) ==
  /\ IsFiniteSet(HeldByWorkers(f)')
  /\ Cardinality(HeldByWorkers(f)') = Cardinality(HeldByWorkers(f)) + n

HoldersFinite ==
  \A f \in Fences : /\ IsFiniteSet(HeldByCommands(f))
                    /\ IsFiniteSet(HeldByWaits(f))
                    /\ IsFiniteSet(HeldByWorkers(f))

\* The three kinds of holders, as places.
LEMMA CommandSpots ==
  ASSUME NEW s \in [Queues -> Seq(Command)], NEW p, NEW f
  PROVE  Spots(s, UsesOf(p, f))
           = UNION {{<<q, i>> : i \in {j \in DOMAIN s[q] : UsesFence(p[q][s[q][j].id], f)}} : q \in Queues}
<1>1. ASSUME NEW q \in Queues
      PROVE  {j \in DOMAIN s[q] : <<q, s[q][j]>> \in UsesOf(p, f)}
               = {j \in DOMAIN s[q] : UsesFence(p[q][s[q][j].id], f)}
  <2>1. ASSUME NEW j \in DOMAIN s[q] PROVE s[q][j] \in Command
    <3>1. s[q] \in Seq(Command)
      BY <1>1
    <3> QED
      BY <3>1, LenProperties
  <2> QED
    BY <1>1, <2>1 DEF UsesOf
<1> DEFINE A(q) == {<<q, i>> : i \in {j \in DOMAIN s[q] : <<q, s[q][j]>> \in UsesOf(p, f)}}
           B(q) == {<<q, i>> : i \in {j \in DOMAIN s[q] : UsesFence(p[q][s[q][j].id], f)}}
<1>2. \A q \in Queues : A(q) = B(q)
  BY <1>1
<1>3. UNION {A(q) : q \in Queues} = UNION {B(q) : q \in Queues}
  <2> HIDE DEF A, B
  <2> QED
    BY <1>2
<1> QED
  BY <1>3 DEF Spots

LEMMA WaitSpots ==
  ASSUME NEW s \in [Queues -> Seq(ResolvedWait)], NEW f
  PROVE  Spots(s, WaitsOf(f))
           = UNION {{<<q, i>> : i \in {j \in DOMAIN s[q] : s[q][j].fence = f}} : q \in Queues}
<1>1. ASSUME NEW q \in Queues
      PROVE  {j \in DOMAIN s[q] : <<q, s[q][j]>> \in WaitsOf(f)}
               = {j \in DOMAIN s[q] : s[q][j].fence = f}
  <2>1. ASSUME NEW j \in DOMAIN s[q] PROVE s[q][j] \in ResolvedWait
    <3>1. s[q] \in Seq(ResolvedWait)
      BY <1>1
    <3> QED
      BY <3>1, LenProperties
  <2> QED
    BY <1>1, <2>1 DEF WaitsOf
<1> DEFINE A(q) == {<<q, i>> : i \in {j \in DOMAIN s[q] : <<q, s[q][j]>> \in WaitsOf(f)}}
           B(q) == {<<q, i>> : i \in {j \in DOMAIN s[q] : s[q][j].fence = f}}
<1>2. \A q \in Queues : A(q) = B(q)
  BY <1>1
<1>3. UNION {A(q) : q \in Queues} = UNION {B(q) : q \in Queues}
  <2> HIDE DEF A, B
  <2> QED
    BY <1>2
<1> QED
  BY <1>3 DEF Spots

LEMMA WorkerSpots ==
  ASSUME NEW s \in [Queues -> Seq(Entry)], NEW f
  PROVE  Spots(s, EntriesOf(f))
           = UNION {{<<q, i>> : i \in {j \in DOMAIN s[q] :
                                         s[q][j].type # "release" /\ s[q][j].fence = f}} : q \in Queues}
<1>1. ASSUME NEW q \in Queues
      PROVE  {j \in DOMAIN s[q] : <<q, s[q][j]>> \in EntriesOf(f)}
               = {j \in DOMAIN s[q] : s[q][j].type # "release" /\ s[q][j].fence = f}
  <2>1. ASSUME NEW j \in DOMAIN s[q] PROVE s[q][j] \in Entry
    <3>1. s[q] \in Seq(Entry)
      BY <1>1
    <3> QED
      BY <3>1, LenProperties
  <2> QED
    BY <1>1, <2>1 DEF EntriesOf
<1> DEFINE A(q) == {<<q, i>> : i \in {j \in DOMAIN s[q] : <<q, s[q][j]>> \in EntriesOf(f)}}
           B(q) == {<<q, i>> : i \in {j \in DOMAIN s[q] : s[q][j].type # "release" /\ s[q][j].fence = f}}
<1>2. \A q \in Queues : A(q) = B(q)
  BY <1>1
<1>3. UNION {A(q) : q \in Queues} = UNION {B(q) : q \in Queues}
  <2> HIDE DEF A, B
  <2> QED
    BY <1>2
<1> QED
  BY <1>3 DEF Spots

\* Before a step and after it.
LEMMA HeldSpots ==
  ASSUME Inv, Next, NEW f
  PROVE  /\ HeldByCommands(f) = Spots(submissions, UsesOf(program, f))
         /\ HeldByCommands(f)' = Spots(submissions', UsesOf(program, f))
         /\ HeldByWaits(f) = Spots(wait_fences, WaitsOf(f))
         /\ HeldByWaits(f)' = Spots(wait_fences', WaitsOf(f))
         /\ HeldByWorkers(f) = Spots(worker, EntriesOf(f))
         /\ HeldByWorkers(f)' = Spots(worker', EntriesOf(f))
         /\ submissions \in [Queues -> Seq(Command)] /\ submissions' \in [Queues -> Seq(Command)]
         /\ wait_fences \in [Queues -> Seq(ResolvedWait)]
         /\ wait_fences' \in [Queues -> Seq(ResolvedWait)]
         /\ worker \in [Queues -> Seq(Entry)] /\ worker' \in [Queues -> Seq(Entry)]
<1>1. /\ submissions \in [Queues -> Seq(Command)] /\ submissions' \in [Queues -> Seq(Command)]
      /\ wait_fences \in [Queues -> Seq(ResolvedWait)]
      /\ wait_fences' \in [Queues -> Seq(ResolvedWait)]
      /\ worker \in [Queues -> Seq(Entry)] /\ worker' \in [Queues -> Seq(Entry)]
  BY InvIsKept DEF Inv, Types, ResolvedWait
<1>2. program' = program
  BY CommandStep
<1>3. /\ HeldByCommands(f) = Spots(submissions, UsesOf(program, f))
      /\ HeldByCommands(f)' = Spots(submissions', UsesOf(program', f))
  <2>1. HeldByCommands(f) = Spots(submissions, UsesOf(program, f))
    <3> DEFINE s == submissions
               p == program
               X == UNION {{<<q, i>> : i \in {j \in DOMAIN s[q] :
                                           UsesFence(p[q][s[q][j].id], f)}} : q \in Queues}
    <3>1. HeldByCommands(f) = X
      BY DEF HeldByCommands
    <3>2. s \in [Queues -> Seq(Command)]
      BY <1>1
    <3>3. X = Spots(s, UsesOf(p, f))
      <4> HIDE DEF s, p
      <4> QED
        BY <3>2, CommandSpots
    <3> QED
      BY <3>1, <3>3
  <2> DEFINE s == submissions'
             p == program'
             X == UNION {{<<q, i>> : i \in {j \in DOMAIN s[q] :
                                         UsesFence(p[q][s[q][j].id], f)}} : q \in Queues}
  <2>2. HeldByCommands(f)' = X
    BY DEF HeldByCommands
  <2>3. X = Spots(s, UsesOf(p, f))
    <3>1. s \in [Queues -> Seq(Command)]
      BY <1>1
    <3> HIDE DEF s, p
    <3> QED
      BY <3>1, CommandSpots
  <2> QED
    BY <2>1, <2>2, <2>3
<1>4. /\ HeldByWaits(f) = Spots(wait_fences, WaitsOf(f))
      /\ HeldByWaits(f)' = Spots(wait_fences', WaitsOf(f))
  BY <1>1, WaitSpots DEF HeldByWaits
<1>5. /\ HeldByWorkers(f) = Spots(worker, EntriesOf(f))
      /\ HeldByWorkers(f)' = Spots(worker', EntriesOf(f))
  BY <1>1, WorkerSpots DEF HeldByWorkers
<1> QED
  BY <1>1, <1>2, <1>3, <1>4, <1>5

-----------------------------------------------------------------------------
(* What a step does to the holders of a fence.                             *)

\* An element more at the end.
LEMMA HitsAppend ==
  ASSUME NEW S, NEW a \in Seq(S), NEW e \in S, NEW q, NEW G
  PROVE  /\ Append(a, e) \in Seq(S)
         /\ HitCount(Append(a, e), q, G) = HitCount(a, q, G) + One(<<q, e>> \in G)
<1>1. Append(a, e) = a \o <<e>> /\ <<e>> \in Seq(S) /\ Append(a, e) \in Seq(S)
  BY AppendConcat, AppendFacts
<1>2. HitCount(a \o <<e>>, q, G) = HitCount(a, q, G) + HitCount(<<e>>, q, G)
  <2> DEFINE b == <<e>>
  <2>1. b \in Seq(S)
    BY <1>1
  <2> HIDE DEF b
  <2>2. HitCount(a \o b, q, G) = HitCount(a, q, G) + HitCount(b, q, G)
    BY <2>1, HitsConcat
  <2> QED
    BY <2>2 DEF b
<1> QED
  BY <1>1, <1>2, HitsOne DEF One

\* The first element less.
LEMMA HitsTail ==
  ASSUME NEW S, NEW a \in Seq(S), a # <<>>, NEW q, NEW G
  PROVE  /\ Tail(a) \in Seq(S)
         /\ HitCount(a, q, G) = HitCount(Tail(a), q, G) + One(<<q, Head(a)>> \in G)
<1> DEFINE e == Head(a)
           t == Tail(a)
<1>1. e \in S /\ t \in Seq(S)
  BY TailFacts
<1>2. a = <<e>> \o t
  BY HeadTailProperties, ConcatProperties, LenProperties
<1> HIDE DEF e, t
<1> DEFINE b == <<e>>
<1>3. b \in Seq(S)
  BY <1>1
<1>4. HitCount(b, q, G) = One(<<q, e>> \in G)
  BY HitsOne DEF One
<1>5. a = b \o t
  BY <1>2
<1> HIDE DEF b
<1>6. HitCount(b \o t, q, G) = HitCount(b, q, G) + HitCount(t, q, G)
  BY <1>1, <1>3, HitsConcat
<1>7. HitCount(t, q, G) \in Nat
  BY <1>1, HitsFinite
<1>8. One(<<q, e>> \in G) \in Nat
  BY DEF One
<1>9. HitCount(a, q, G) = HitCount(t, q, G) + One(<<q, e>> \in G)
  BY <1>4, <1>5, <1>6, <1>7, <1>8
<1> QED
  BY <1>1, <1>9 DEF e, t

LEMMA CommandsSame ==
  ASSUME HoldersFinite, UNCHANGED <<program, submissions>>, NEW f \in Fences
  PROVE  CommandsBy(f, 0)
<1>1. HeldByCommands(f)' = HeldByCommands(f)
  BY DEF HeldByCommands
<1>2. IsFiniteSet(HeldByCommands(f)) /\ Cardinality(HeldByCommands(f)) \in Nat
  BY FS_CardinalityType DEF HoldersFinite
<1> QED
  BY <1>1, <1>2 DEF CommandsBy

LEMMA WaitsSame ==
  ASSUME HoldersFinite, UNCHANGED wait_fences, NEW f \in Fences
  PROVE  WaitsBy(f, 0)
<1>1. HeldByWaits(f)' = HeldByWaits(f)
  BY DEF HeldByWaits
<1>2. IsFiniteSet(HeldByWaits(f)) /\ Cardinality(HeldByWaits(f)) \in Nat
  BY FS_CardinalityType DEF HoldersFinite
<1> QED
  BY <1>1, <1>2 DEF WaitsBy

LEMMA WorkersSame ==
  ASSUME HoldersFinite, UNCHANGED worker, NEW f \in Fences
  PROVE  WorkersBy(f, 0)
<1>1. HeldByWorkers(f)' = HeldByWorkers(f)
  BY DEF HeldByWorkers
<1>2. IsFiniteSet(HeldByWorkers(f)) /\ Cardinality(HeldByWorkers(f)) \in Nat
  BY FS_CardinalityType DEF HoldersFinite
<1> QED
  BY <1>1, <1>2 DEF WorkersBy

\* The commands of one queue change.
LEMMA CommandsMove ==
  ASSUME Inv, Next, HoldersFinite, NEW f \in Fences, NEW q \in Queues,
         \A r \in Queues \ {q} : submissions'[r] = submissions[r]
  PROVE  LET before == HitCount(submissions[q], q, UsesOf(program, f))
             after  == HitCount(submissions'[q], q, UsesOf(program, f))
         IN  /\ before \in Nat /\ after \in Nat
             /\ \A n \in Int : after = before + n => CommandsBy(f, n)
<1> DEFINE s == submissions
           z == submissions'
           G == UsesOf(program, f)
<1>1. /\ HeldByCommands(f) = Spots(s, G) /\ HeldByCommands(f)' = Spots(z, G)
      /\ s \in [Queues -> Seq(Command)] /\ z \in [Queues -> Seq(Command)]
      /\ IsFiniteSet(Spots(s, G))
  BY HeldSpots DEF HoldersFinite
<1>2. \A r \in Queues \ {q} : z[r] = s[r]
  OBVIOUS
<1>3. /\ IsFiniteSet(Spots(z, G))
      /\ Cardinality(Spots(s, G)) \in Nat /\ Cardinality(Spots(z, G)) \in Nat
      /\ HitCount(s[q], q, G) \in Nat /\ HitCount(z[q], q, G) \in Nat
      /\ Cardinality(Spots(z, G)) + HitCount(s[q], q, G)
           = Cardinality(Spots(s, G)) + HitCount(z[q], q, G)
  <2> HIDE DEF s, z, G
  <2>1. s[q] \in Seq(Command) /\ z[q] \in Seq(Command)
    BY <1>1
  <2> QED
    BY <1>1, <1>2, <2>1, SpotsChange
<1> HIDE DEF s, z, G
<1>4. ASSUME NEW n \in Int, HitCount(z[q], q, G) = HitCount(s[q], q, G) + n
      PROVE  Cardinality(Spots(z, G)) = Cardinality(Spots(s, G)) + n
  BY <1>3, <1>4
<1> QED
  BY <1>1, <1>3, <1>4 DEF s, z, G, CommandsBy

\* The application queues a command.
LEMMA QueuedCommands ==
  ASSUME Inv, Next, HoldersFinite, NEW q \in Queues, NEW ticket \in Nat, Queued(q, ticket),
         NEW f \in Fences
  PROVE  CommandsBy(f, One(UsesFence(program[q][next[q]], f)))
<1> DEFINE c == [id |-> next[q], ticket |-> ticket]
           G == UsesOf(program, f)
           n == One(UsesFence(program[q][next[q]], f))
<1>1. submissions \in [Queues -> Seq(Command)] /\ submissions[q] \in Seq(Command)
  BY HeldSpots
<1>2. c \in Command /\ submissions' = [submissions EXCEPT ![q] = Append(submissions[q], c)]
  BY DEF Inv, Types, Command, Queued
<1>3. One(<<q, c>> \in G) = n /\ n \in Int
  BY <1>2 DEF UsesOf, One
<1> HIDE DEF c, G, n
<1>4. /\ submissions'[q] = Append(submissions[q], c)
      /\ \A r \in Queues \ {q} : submissions'[r] = submissions[r]
  BY <1>1, <1>2
<1>5. HitCount(submissions'[q], q, G) = HitCount(submissions[q], q, G) + n
  BY <1>1, <1>2, <1>3, <1>4, HitsAppend
<1> QED
  BY <1>3, <1>4, <1>5, CommandsMove DEF G, n

\* The submission thread finishes one.
LEMMA FinishedCommands ==
  ASSUME Inv, Next, HoldersFinite, NEW q \in Queues, Finished(q), NEW f \in Fences
  PROVE  CommandsBy(f, - One(UsesFence(Current(q), f)))
<1> DEFINE c == Head(submissions[q])
           G == UsesOf(program, f)
           n == One(UsesFence(Current(q), f))
<1>1. submissions \in [Queues -> Seq(Command)] /\ submissions[q] \in Seq(Command)
  BY HeldSpots
<1>2. /\ submissions[q] # <<>> /\ submissions' = [submissions EXCEPT ![q] = Tail(submissions[q])]
      /\ c \in Command
  BY <1>1, TailFacts DEF Finished
<1>3. One(<<q, c>> \in G) = n /\ n \in Nat
  BY <1>2 DEF UsesOf, One, Current
<1> HIDE DEF G, n
<1>4. /\ submissions'[q] = Tail(submissions[q])
      /\ \A r \in Queues \ {q} : submissions'[r] = submissions[r]
  BY <1>1, <1>2
<1>5. HitCount(submissions[q], q, G) = HitCount(submissions'[q], q, G) + n
  BY <1>1, <1>2, <1>3, <1>4, HitsTail
<1> DEFINE m == - n
<1>6. m \in Int /\ HitCount(submissions'[q], q, G) = HitCount(submissions[q], q, G) + m
  <2>1. HitCount(submissions'[q], q, G) \in Nat
    BY <1>4, CommandsMove DEF G
  <2> QED
    BY <1>3, <1>5, <2>1
<1> HIDE DEF m
<1>7. CommandsBy(f, m)
  BY <1>4, <1>6, CommandsMove DEF G
<1> QED
  BY <1>7 DEF m, n

-----------------------------------------------------------------------------
(* The resolved waits and the entries of the workers.                      *)

\* The resolved waits of one queue change.
LEMMA WaitsMove ==
  ASSUME Inv, Next, HoldersFinite, NEW f \in Fences, NEW q \in Queues,
         \A r \in Queues \ {q} : wait_fences'[r] = wait_fences[r]
  PROVE  LET before == HitCount(wait_fences[q], q, WaitsOf(f))
             after  == HitCount(wait_fences'[q], q, WaitsOf(f))
         IN  /\ before \in Nat /\ after \in Nat
             /\ \A n \in Int : after = before + n => WaitsBy(f, n)
<1> DEFINE s == wait_fences
           z == wait_fences'
           G == WaitsOf(f)
<1>1. /\ HeldByWaits(f) = Spots(s, G) /\ HeldByWaits(f)' = Spots(z, G)
      /\ s \in [Queues -> Seq(ResolvedWait)] /\ z \in [Queues -> Seq(ResolvedWait)]
      /\ IsFiniteSet(Spots(s, G))
  BY HeldSpots DEF HoldersFinite
<1>2. \A r \in Queues \ {q} : z[r] = s[r]
  OBVIOUS
<1>3. /\ IsFiniteSet(Spots(z, G))
      /\ Cardinality(Spots(s, G)) \in Nat /\ Cardinality(Spots(z, G)) \in Nat
      /\ HitCount(s[q], q, G) \in Nat /\ HitCount(z[q], q, G) \in Nat
      /\ Cardinality(Spots(z, G)) + HitCount(s[q], q, G)
           = Cardinality(Spots(s, G)) + HitCount(z[q], q, G)
  <2> HIDE DEF s, z, G
  <2>1. s[q] \in Seq(ResolvedWait) /\ z[q] \in Seq(ResolvedWait)
    BY <1>1
  <2> QED
    BY <1>1, <1>2, <2>1, SpotsChange
<1> HIDE DEF s, z, G
<1>4. ASSUME NEW n \in Int, HitCount(z[q], q, G) = HitCount(s[q], q, G) + n
      PROVE  Cardinality(Spots(z, G)) = Cardinality(Spots(s, G)) + n
  BY <1>3, <1>4
<1> QED
  BY <1>1, <1>3, <1>4 DEF s, z, G, WaitsBy

\* A Wait is resolved, to be submitted later.
LEMMA DeferredWaits ==
  ASSUME Inv, Next, HoldersFinite, NEW q \in Queues, NEW g \in Fences, NEW count \in Nat,
         wait_fences' = [wait_fences EXCEPT ![q] =
                           Append(@, [fence |-> g, update_count |-> count])],
         NEW f \in Fences
  PROVE  WaitsBy(f, One(g = f))
<1> DEFINE c == [fence |-> g, update_count |-> count]
           G == WaitsOf(f)
           n == One(g = f)
<1>1. wait_fences \in [Queues -> Seq(ResolvedWait)] /\ wait_fences[q] \in Seq(ResolvedWait)
  BY HeldSpots
<1>2. c \in ResolvedWait /\ wait_fences' = [wait_fences EXCEPT ![q] = Append(wait_fences[q], c)]
  BY DEF ResolvedWait
<1>3. One(<<q, c>> \in G) = n /\ n \in Int
  BY <1>2 DEF WaitsOf, One
<1> HIDE DEF c, G, n
<1>4. /\ wait_fences'[q] = Append(wait_fences[q], c)
      /\ \A r \in Queues \ {q} : wait_fences'[r] = wait_fences[r]
  BY <1>1, <1>2
<1>5. HitCount(wait_fences'[q], q, G) = HitCount(wait_fences[q], q, G) + n
  BY <1>1, <1>2, <1>3, <1>4, HitsAppend
<1> QED
  BY <1>3, <1>4, <1>5, WaitsMove DEF G, n

\* All of them are submitted.
LEMMA SubmittedWaits ==
  ASSUME Inv, Next, HoldersFinite, NEW q \in Queues,
         wait_fences' = [wait_fences EXCEPT ![q] = <<>>], NEW f \in Fences
  PROVE  WaitsBy(f, - HitCount(wait_fences[q], q, WaitsOf(f)))
<1> DEFINE G == WaitsOf(f)
           n == HitCount(wait_fences[q], q, G)
           m == - n
<1>1. wait_fences \in [Queues -> Seq(ResolvedWait)]
  BY HeldSpots
<1>2. wait_fences'[q] = <<>> /\ \A r \in Queues \ {q} : wait_fences'[r] = wait_fences[r]
  BY <1>1
<1>3. HitCount(wait_fences'[q], q, G) = 0
  BY <1>2, HitsEmpty
<1>4. n \in Nat
  BY <1>2, WaitsMove
<1>5. m \in Int /\ HitCount(wait_fences'[q], q, G) = HitCount(wait_fences[q], q, G) + m
  BY <1>3, <1>4
<1> HIDE DEF m
<1>6. WaitsBy(f, m)
  BY <1>2, <1>5, WaitsMove
<1> QED
  BY <1>6 DEF m

\* The worker's entries of one queue change.
LEMMA WorkersMove ==
  ASSUME Inv, Next, HoldersFinite, NEW f \in Fences, NEW q \in Queues,
         \A r \in Queues \ {q} : worker'[r] = worker[r]
  PROVE  LET before == HitCount(worker[q], q, EntriesOf(f))
             after  == HitCount(worker'[q], q, EntriesOf(f))
         IN  /\ before \in Nat /\ after \in Nat
             /\ \A n \in Int : after = before + n => WorkersBy(f, n)
<1> DEFINE s == worker
           z == worker'
           G == EntriesOf(f)
<1>1. /\ HeldByWorkers(f) = Spots(s, G) /\ HeldByWorkers(f)' = Spots(z, G)
      /\ s \in [Queues -> Seq(Entry)] /\ z \in [Queues -> Seq(Entry)]
      /\ IsFiniteSet(Spots(s, G))
  BY HeldSpots DEF HoldersFinite
<1>2. \A r \in Queues \ {q} : z[r] = s[r]
  OBVIOUS
<1>3. /\ IsFiniteSet(Spots(z, G))
      /\ Cardinality(Spots(s, G)) \in Nat /\ Cardinality(Spots(z, G)) \in Nat
      /\ HitCount(s[q], q, G) \in Nat /\ HitCount(z[q], q, G) \in Nat
      /\ Cardinality(Spots(z, G)) + HitCount(s[q], q, G)
           = Cardinality(Spots(s, G)) + HitCount(z[q], q, G)
  <2> HIDE DEF s, z, G
  <2>1. s[q] \in Seq(Entry) /\ z[q] \in Seq(Entry)
    BY <1>1
  <2> QED
    BY <1>1, <1>2, <2>1, SpotsChange
<1> HIDE DEF s, z, G
<1>4. ASSUME NEW n \in Int, HitCount(z[q], q, G) = HitCount(s[q], q, G) + n
      PROVE  Cardinality(Spots(z, G)) = Cardinality(Spots(s, G)) + n
  BY <1>3, <1>4
<1> QED
  BY <1>1, <1>3, <1>4 DEF s, z, G, WorkersBy

\* An entry that holds a fence is added.
LEMMA EnqueuedEntries ==
  ASSUME Inv, Next, HoldersFinite, NEW q \in Queues, NEW e \in Entry, e.type # "release",
         worker' = enqueue(worker, q, e), NEW f \in Fences
  PROVE  WorkersBy(f, One(e.fence = f))
<1> DEFINE G == EntriesOf(f)
           n == One(e.fence = f)
<1>1. worker \in [Queues -> Seq(Entry)] /\ worker[q] \in Seq(Entry)
  BY HeldSpots
<1>2. worker' = [worker EXCEPT ![q] = Append(worker[q], e)]
  BY DEF enqueue
<1>3. One(<<q, e>> \in G) = n /\ n \in Int
  BY DEF EntriesOf, One
<1> HIDE DEF G, n
<1>4. worker'[q] = Append(worker[q], e) /\ \A r \in Queues \ {q} : worker'[r] = worker[r]
  BY <1>1, <1>2
<1>5. HitCount(worker'[q], q, G) = HitCount(worker[q], q, G) + n
  BY <1>1, <1>3, <1>4, HitsAppend
<1> QED
  BY <1>3, <1>4, <1>5, WorkersMove DEF G, n

\* One is retired.
LEMMA RetiredEntries ==
  ASSUME Inv, Next, HoldersFinite, NEW q \in Queues, NEW type, Retire(q, type), NEW f \in Fences
  PROVE  WorkersBy(f, - One(type # "release" /\ Head(worker[q]).fence = f))
<1> DEFINE e == Head(worker[q])
           G == EntriesOf(f)
           n == One(type # "release" /\ e.fence = f)
           m == - n
<1>1. worker \in [Queues -> Seq(Entry)] /\ worker[q] \in Seq(Entry)
  BY HeldSpots
<1>2. /\ worker[q] # <<>> /\ worker' = [worker EXCEPT ![q] = Tail(worker[q])]
      /\ e \in Entry /\ e.type = type
  BY <1>1, TailFacts DEF Retire
<1>3. One(<<q, e>> \in G) = n /\ n \in Nat
  BY <1>2 DEF EntriesOf, One
<1> HIDE DEF e, G, n
<1>4. worker'[q] = Tail(worker[q]) /\ \A r \in Queues \ {q} : worker'[r] = worker[r]
  BY <1>1, <1>2
<1>5. HitCount(worker[q], q, G) = HitCount(worker'[q], q, G) + n
  BY <1>1, <1>2, <1>3, <1>4, HitsTail DEF e
<1>6. m \in Int /\ HitCount(worker'[q], q, G) = HitCount(worker[q], q, G) + m
  <2>1. HitCount(worker'[q], q, G) \in Nat
    BY <1>4, WorkersMove DEF G
  <2> QED
    BY <1>3, <1>5, <2>1
<1> HIDE DEF m
<1>7. WorkersBy(f, m)
  BY <1>4, <1>6, WorkersMove DEF G
<1> QED
  BY <1>7 DEF m, n, e

\* The references of the waits that are submitted go along to the fence worker.
LEMMA SubmittedEntries ==
  ASSUME Inv, Next, HoldersFinite, NEW q \in Queues, NEW entries \in Seq(Entry),
         \A i \in DOMAIN entries : entries[i].type = "release",
         finalize_waits(q, entries), NEW f \in Fences
  PROVE  WorkersBy(f, HitCount(wait_fences[q], q, WaitsOf(f)))
<1> DEFINE o == OrderEntries(q)
           w == worker[q]
           G == EntriesOf(f)
           n == HitCount(wait_fences[q], q, WaitsOf(f))
<1>1. /\ worker \in [Queues -> Seq(Entry)] /\ w \in Seq(Entry)
      /\ wait_fences[q] \in Seq(ResolvedWait)
  BY HeldSpots
<1>2. Types
  BY DEF Inv
<1>3. o \in Seq(Entry)
  BY <1>2, OrderEntriesType
<1>4. HitCount(entries, q, G) = 0
  <2>1. Hits(entries, q, G) = {}
    BY DEF Hits, EntriesOf
  <2> QED
    BY <2>1, FS_EmptySet DEF HitCount
<1>5. HitCount(o, q, G) = n
  <2>1. DOMAIN o = DOMAIN wait_fences[q]
    BY DEF OrderEntries
  <2>2. ASSUME NEW i \in DOMAIN o
        PROVE  <<q, o[i]>> \in G <=> <<q, wait_fences[q][i]>> \in WaitsOf(f)
    <3>1. /\ wait_fences[q][i].fence \in Fences /\ wait_fences[q][i].update_count \in Nat
          /\ o[i] = OrderEntry(wait_fences[q][i].fence, wait_fences[q][i].update_count)
      BY <1>2, OrderEntriesFields
    <3>2. o[i] \in Entry /\ o[i].type = "order" /\ o[i].fence = wait_fences[q][i].fence
      BY <3>1, OrderEntryType DEF OrderEntry
    <3>3. wait_fences[q][i] \in ResolvedWait
      BY <1>1, <2>1, LenProperties
    <3> HIDE DEF o
    <3> QED
      BY <3>2, <3>3 DEF EntriesOf, WaitsOf
  <2> HIDE DEF o, G
  <2>3. Hits(o, q, G) = Hits(wait_fences[q], q, WaitsOf(f))
    BY <2>1, <2>2 DEF Hits
  <2> QED
    BY <2>3 DEF HitCount, n
<1>6. /\ worker'[q] = w \o o \o entries
      /\ \A r \in Queues \ {q} : worker'[r] = worker[r]
  BY <1>1 DEF finalize_waits
<1> HIDE DEF o, w, G
<1>7. HitCount(w \o o \o entries, q, G) = HitCount(w, q, G) + n
  <2> DEFINE z == w \o o
  <2>1. z \in Seq(Entry) /\ HitCount(z, q, G) = HitCount(w, q, G) + HitCount(o, q, G)
    BY <1>1, <1>3, HitsConcat, ConcatProperties
  <2> HIDE DEF z
  <2>2. HitCount(z \o entries, q, G) = HitCount(z, q, G) + HitCount(entries, q, G)
    BY <2>1, HitsConcat
  <2>3. HitCount(w, q, G) \in Nat /\ HitCount(o, q, G) \in Nat
    BY <1>1, <1>3, HitsFinite
  <2>4. HitCount(z \o entries, q, G) = HitCount(w, q, G) + n
    BY <1>4, <1>5, <2>1, <2>2, <2>3
  <2> QED
    BY <2>4 DEF z
<1>8. n \in Int
  BY <1>1, HitsFinite
<1> HIDE DEF n
<1>9. HitCount(worker'[q], q, G) = HitCount(worker[q], q, G) + n
  BY <1>6, <1>7 DEF w
<1> QED
  BY <1>6, <1>8, <1>9, WorkersMove DEF n, G

-----------------------------------------------------------------------------
(* Every step leaves the references exact.                                 *)

References ==
  /\ refs \in [Fences -> Int]
  /\ released \in [Fences -> BOOLEAN]
  /\ HoldersFinite
  /\ ReferencesAreExact

\* What the step does to the reference count is what it does to the holders: a
\* for commands, b for resolved waits, c for entries, d for the application.
Balanced(f, a, b, c, d) ==
  /\ CommandsBy(f, a) /\ WaitsBy(f, b) /\ WorkersBy(f, c)
  /\ One(~released'[f]) = One(~released[f]) + d
  /\ refs'[f] = refs[f] + (a + b + c + d)

ExactNext(f) ==
  /\ IsFiniteSet(HeldByCommands(f)') /\ IsFiniteSet(HeldByWaits(f)')
  /\ IsFiniteSet(HeldByWorkers(f)')
  /\ refs'[f] = Holders(f)'

LEMMA BalancedIsExact ==
  ASSUME References, NEW f \in Fences,
         NEW a \in Int, NEW b \in Int, NEW c \in Int, NEW d \in Int, Balanced(f, a, b, c, d)
  PROVE  ExactNext(f)
<1> DEFINE x == Cardinality(HeldByCommands(f))
           y == Cardinality(HeldByWaits(f))
           z == Cardinality(HeldByWorkers(f))
           p == One(~released[f])
           u == Cardinality(HeldByCommands(f)')
           v == Cardinality(HeldByWaits(f)')
           w == Cardinality(HeldByWorkers(f)')
           r == One(~released'[f])
<1>1. /\ IsFiniteSet(HeldByCommands(f)) /\ IsFiniteSet(HeldByWaits(f))
      /\ IsFiniteSet(HeldByWorkers(f))
  BY DEF References, HoldersFinite
<1>2. x \in Int /\ y \in Int /\ z \in Int /\ p \in Int
  BY <1>1, FS_CardinalityType DEF One
<1>3. refs[f] = x + y + z + p
  BY DEF References, ReferencesAreExact, Holders, One
<1>4. Holders(f)' = u + v + w + r
  BY DEF Holders, One
<1>5. /\ u = x + a /\ v = y + b /\ w = z + c /\ r = p + d
      /\ refs'[f] = refs[f] + (a + b + c + d)
      /\ IsFiniteSet(HeldByCommands(f)') /\ IsFiniteSet(HeldByWaits(f)')
      /\ IsFiniteSet(HeldByWorkers(f)')
  BY DEF Balanced, CommandsBy, WaitsBy, WorkersBy
<1> HIDE DEF x, y, z, p, u, v, w, r
<1> QED
  BY <1>2, <1>3, <1>4, <1>5 DEF ExactNext

LEMMA IncRefFacts ==
  ASSUME refs \in [Fences -> Int], NEW g \in Fences, NEW f \in Fences, refs' = inc_ref(refs, g)
  PROVE  refs'[f] = refs[f] + One(g = f) /\ refs' \in [Fences -> Int]
BY DEF inc_ref, One

LEMMA DecRefFacts ==
  ASSUME refs \in [Fences -> Int], NEW g \in Fences, NEW f \in Fences, refs' = dec_ref(refs, g)
  PROVE  refs'[f] = refs[f] - One(g = f) /\ refs' \in [Fences -> Int]
BY DEF dec_ref, One

\* The application.
LEMMA ApplicationBalances ==
  ASSUME Inv, Next, References, NEW q \in Queues, Application(q), NEW f \in Fences
  PROVE  ExactNext(f)
<1>1. /\ Types /\ CommandsInOrder /\ HoldersFinite
      /\ refs \in [Fences -> Int] /\ refs[f] \in Int
  BY DEF Inv, References
<1>2. program' = program
  BY CommandStep
<1>3. UNCHANGED <<wait_fences, worker>>
  BY DEF Application, ApiExecute, ApiSignal, ApiWait, ApiCpuSignal, ApiRelease
<1>4. WaitsBy(f, 0) /\ WorkersBy(f, 0)
  BY <1>1, <1>3, WaitsSame, WorkersSame
<1>5. 0 \in Int /\ -1 \in Int /\ One(TRUE) = 1 /\ One(FALSE) = 0
  BY DEF One
<1>6. CASE ApiExecute(q)
  <2>1. Queued(q, 0) /\ NextCall(q).type = "execute" /\ NextCall(q) = program[q][next[q]]
    BY <1>1, <1>6, CallingFacts DEF ApiExecute, add_submission, Queued, Calls
  <2>2. CommandsBy(f, One(UsesFence(program[q][next[q]], f)))
    BY <1>1, <2>1, QueuedCommands
  <2>3. One(UsesFence(program[q][next[q]], f)) = 0
    BY <2>1 DEF UsesFence, One
  <2>4. CommandsBy(f, 0)
    BY <2>2, <2>3
  <2>5. UNCHANGED <<refs, released>>
    BY <1>6 DEF ApiExecute, fence_vars
  <2>6. Balanced(f, 0, 0, 0, 0)
    BY <1>1, <1>4, <2>4, <2>5 DEF Balanced, One
  <2> QED
    BY <1>5, <2>6, BalancedIsExact
<1>7. CASE ApiSignal(q) \/ ApiWait(q)
  <2> DEFINE g == NextCall(q).fence
             a == One(g = f)
  <2>2. /\ g \in Fences /\ NextCall(q).type \in {"signal", "wait"}
        /\ NextCall(q) = program[q][next[q]]
    BY <1>1, <1>7, CallingFacts DEF ApiSignal, ApiWait, Calls
  <2>3. One(UsesFence(program[q][next[q]], f)) = a
    BY <2>2 DEF UsesFence, One
  <2>4. \E t \in Nat : Queued(q, t)
    <3>1. CASE ApiSignal(q)
      BY <1>1, <3>1, CallingFacts DEF ApiSignal, add_submission, Queued
    <3>2. CASE ApiWait(q)
      <4> DEFINE t == fences'[g].wait_ticket_counter
      <4>1. t \in Nat
        BY <2>2, FencesStayInOrder, FenceFields
      <4>2. Queued(q, t)
        BY <1>1, <3>2, CallingFacts DEF ApiWait, add_submission, Queued
      <4> QED
        BY <4>1, <4>2
    <3> QED
      BY <1>7, <3>1, <3>2
  <2>5. CommandsBy(f, a)
    BY <1>1, <2>3, <2>4, QueuedCommands
  <2>6. refs' = inc_ref(refs, g) /\ released' = released
    BY <1>7 DEF ApiSignal, ApiWait
  <2>7. a \in Int
    BY DEF One
  <2>8. refs'[f] = refs[f] + a
    BY <1>1, <2>2, <2>6, IncRefFacts
  <2> HIDE DEF a, g
  <2>9. Balanced(f, a, 0, 0, 0)
    BY <1>1, <1>4, <2>5, <2>6, <2>7, <2>8 DEF Balanced, One
  <2> QED
    BY <1>5, <2>7, <2>9, BalancedIsExact
<1>8. CASE ApiCpuSignal(q)
  <2>1. UNCHANGED <<submissions, refs, released>>
    BY <1>8 DEF ApiCpuSignal
  <2>2. CommandsBy(f, 0)
    BY <1>1, <1>2, <2>1, CommandsSame
  <2>3. Balanced(f, 0, 0, 0, 0)
    BY <1>1, <1>4, <2>1, <2>2 DEF Balanced, One
  <2> QED
    BY <1>5, <2>3, BalancedIsExact
<1>9. CASE ApiRelease(q)
  <2> DEFINE g == NextCall(q).fence
             d == - One(g = f)
  <2>1. g \in Fences /\ ~released[g]
    BY <1>1, <1>9, CallingFacts DEF ApiRelease
  <2>2. /\ UNCHANGED submissions
        /\ refs' = dec_ref(refs, g) /\ released' = [released EXCEPT ![g] = TRUE]
    BY <1>9 DEF ApiRelease
  <2>3. CommandsBy(f, 0)
    BY <1>1, <1>2, <2>2, CommandsSame
  <2>4. refs'[f] = refs[f] - One(g = f)
    BY <1>1, <2>1, <2>2, DecRefFacts
  <2>5. d \in Int /\ refs'[f] = refs[f] + (0 + 0 + 0 + d)
    BY <1>1, <2>4 DEF One
  <2>6. One(~released'[f]) = One(~released[f]) + d
    BY <2>1, <2>2 DEF One, References
  <2> HIDE DEF d, g
  <2>7. Balanced(f, 0, 0, 0, d)
    BY <1>4, <2>3, <2>5, <2>6 DEF Balanced
  <2> QED
    BY <1>5, <2>5, <2>7, BalancedIsExact
<1> QED
  BY <1>6, <1>7, <1>8, <1>9 DEF Application

\* What the submission thread has finished with, and what it held.
LEMMA FinishHolds ==
  ASSUME Inv, Next, References, NEW q \in Queues, NEW f \in Fences, Finish(q),
         program' = program, next' = next,
         Has(q, "wait") \/ Has(q, "signal")
  PROVE  CommandsBy(f, - One(Current(q).fence = f)) /\ Current(q).fence \in Fences
<1>1. Types /\ CommandsInOrder /\ HoldersFinite
  BY DEF Inv, References
<1>2. Current(q).fence \in Fences
  BY <1>1, CurrentFacts
<1>3. Finished(q)
  BY DEF Finish, Finished, Has
<1>4. UsesFence(Current(q), f) <=> Current(q).fence = f
  BY DEF UsesFence, Current, Has
<1>5. One(UsesFence(Current(q), f)) = One(Current(q).fence = f)
  BY <1>4 DEF One
<1>6. CommandsBy(f, - One(UsesFence(Current(q), f)))
  BY <1>1, <1>3, FinishedCommands
<1> QED
  BY <1>2, <1>5, <1>6

\* The submission thread, at a Wait.
LEMMA WaitBalances ==
  ASSUME Inv, Next, References, NEW q \in Queues, NEW f \in Fences,
         \/ WaitAlreadySatisfied(q) \/ WaitSleeps(q) \/ WaitOnOwnVkQueue(q)
         \/ WaitDeferred(q) \/ WaitOnCpu(q) \/ CpuWaitReturns(q)
  PROVE  ExactNext(f)
<1> DEFINE g == Current(q).fence
           a == One(g = f)
           m == - a
<1>1. /\ Types /\ CommandsInOrder /\ HoldersFinite
      /\ refs \in [Fences -> Int] /\ refs[f] \in Int /\ ThreadsAtWork
  BY DEF Inv, References
<1>2. program' = program
  BY CommandStep
<1>3. a \in Int /\ m \in Int /\ 0 \in Int /\ m + a = 0 /\ m = - a
  BY DEF One
<1>4. Has(q, "wait") /\ next' = next /\ released' = released
  BY <1>1 DEF WaitAlreadySatisfied, WaitSleeps, WaitOnOwnVkQueue, WaitDeferred, WaitOnCpu,
              CpuWaitReturns, OnOtherVkQueue, Materialises, InWait, ThreadsAtWork, app_vars, fence_vars
<1>5. One(~released'[f]) = One(~released[f]) + 0 /\ g \in Fences
  BY <1>1, <1>4, CurrentFacts DEF One
<1>6. Finish(q) => CommandsBy(f, m)
  BY <1>2, <1>4, FinishHolds
<1>7. CASE WaitAlreadySatisfied(q) \/ CpuWaitReturns(q)
  <2>1. Finish(q) /\ UNCHANGED <<wait_fences, worker>> /\ refs' = dec_ref(refs, g)
    BY <1>7 DEF WaitAlreadySatisfied, CpuWaitReturns
  <2>2. WaitsBy(f, 0) /\ WorkersBy(f, 0)
    BY <1>1, <2>1, WaitsSame, WorkersSame
  <2>3. refs'[f] = refs[f] - a
    BY <1>1, <1>5, <2>1, DecRefFacts
  <2> HIDE DEF a, g, m
  <2>4. refs'[f] = refs[f] + (m + 0 + 0 + 0)
    BY <1>1, <1>3, <2>3
  <2>5. Balanced(f, m, 0, 0, 0)
    BY <1>5, <1>6, <2>1, <2>2, <2>4 DEF Balanced
  <2> QED
    BY <1>3, <2>5, BalancedIsExact
<1>8. CASE WaitSleeps(q)
  <2>1. UNCHANGED <<submissions, wait_fences, worker, refs>>
    BY <1>8 DEF WaitSleeps, fence_vars
  <2>2. CommandsBy(f, 0) /\ WaitsBy(f, 0) /\ WorkersBy(f, 0)
    BY <1>1, <1>2, <2>1, CommandsSame, WaitsSame, WorkersSame
  <2>3. Balanced(f, 0, 0, 0, 0)
    BY <1>1, <1>5, <2>1, <2>2 DEF Balanced
  <2> QED
    BY <1>3, <2>3, BalancedIsExact
<1>9. CASE WaitOnOwnVkQueue(q)
  <2>1. Materialises(q) /\ Finish(q) /\ UNCHANGED <<wait_fences, refs>>
    BY <1>9 DEF WaitOnOwnVkQueue
  <2>2. PICK u \in SatisfyingOnQueue(fences[g], Current(q).value, VkQueueOf[q]) :
          worker' = enqueue(worker, q, OrderEntry(g, u.update_count))
    BY <1>9 DEF WaitOnOwnVkQueue
  <2> DEFINE n == u.update_count
             e == OrderEntry(g, n)
  <2>3. n \in Nat
    BY <2>1, OwnUpdateFacts DEF PendingUpdate
  <2>4. e \in Entry /\ e.type = "order" /\ e.fence = g /\ worker' = enqueue(worker, q, e)
    <3> HIDE DEF g, n
    <3> QED
      BY <1>5, <2>2, <2>3, OrderEntryType DEF OrderEntry, n
  <2>5. WorkersBy(f, a)
    <3> HIDE DEF e
    <3>1. WorkersBy(f, One(e.fence = f))
      BY <1>1, <2>4, EnqueuedEntries
    <3> QED
      BY <2>4, <3>1
  <2>6. WaitsBy(f, 0)
    BY <1>1, <2>1, WaitsSame
  <2> HIDE DEF a, g, m
  <2>7. refs'[f] = refs[f] + (m + 0 + a + 0)
    BY <1>1, <1>3, <2>1
  <2>8. Balanced(f, m, 0, a, 0)
    BY <1>5, <1>6, <2>1, <2>5, <2>6, <2>7 DEF Balanced
  <2> QED
    BY <1>3, <2>8, BalancedIsExact
<1>10. CASE WaitDeferred(q)
  <2> DEFINE n == ChosenUpdate(q).update_count
  <2>1. /\ OnOtherVkQueue(q) /\ Finish(q) /\ UNCHANGED <<worker, refs>>
        /\ wait_fences' = [wait_fences EXCEPT ![q] = Append(@, [fence |-> g, update_count |-> n])]
    BY <1>10 DEF WaitDeferred
  <2>2. n \in Nat
    BY <2>1, ChosenUpdateFacts DEF PendingUpdate
  <2>3. WaitsBy(f, a)
    <3> HIDE DEF n, g
    <3> QED
      BY <1>1, <1>5, <2>1, <2>2, DeferredWaits
  <2>4. WorkersBy(f, 0)
    BY <1>1, <2>1, WorkersSame
  <2> HIDE DEF a, g, m, n
  <2>5. refs'[f] = refs[f] + (m + a + 0 + 0)
    BY <1>1, <1>3, <2>1
  <2>6. Balanced(f, m, a, 0, 0)
    BY <1>5, <1>6, <2>1, <2>3, <2>4, <2>5 DEF Balanced
  <2> QED
    BY <1>3, <2>6, BalancedIsExact
<1>11. CASE WaitOnCpu(q)
  <2> DEFINE n == ChosenUpdate(q).update_count
             e == OrderEntry(g, n)
  <2>1. /\ OnOtherVkQueue(q) /\ UNCHANGED <<submissions, wait_fences>>
        /\ worker' = enqueue(worker, q, e) /\ refs' = inc_ref(refs, g)
    BY <1>11 DEF WaitOnCpu
  <2>2. n \in Nat
    BY <2>1, ChosenUpdateFacts DEF PendingUpdate
  <2>3. e \in Entry /\ e.type = "order" /\ e.fence = g
    <3> HIDE DEF g, n
    <3> QED
      BY <1>5, <2>2, OrderEntryType DEF OrderEntry
  <2>4. WorkersBy(f, a)
    <3> HIDE DEF e
    <3>1. WorkersBy(f, One(e.fence = f))
      BY <1>1, <2>1, <2>3, EnqueuedEntries
    <3> QED
      BY <2>3, <3>1
  <2>5. CommandsBy(f, 0) /\ WaitsBy(f, 0)
    BY <1>1, <1>2, <2>1, CommandsSame, WaitsSame
  <2>6. refs'[f] = refs[f] + a
    BY <1>1, <1>5, <2>1, IncRefFacts
  <2> HIDE DEF a, g, m, n
  <2>7. refs'[f] = refs[f] + (0 + 0 + a + 0)
    BY <1>1, <1>3, <2>6
  <2>8. Balanced(f, 0, 0, a, 0)
    BY <1>5, <2>4, <2>5, <2>7 DEF Balanced
  <2> QED
    BY <1>3, <2>8, BalancedIsExact
<1> QED
  BY <1>7, <1>8, <1>9, <1>10, <1>11

\* Waits that are submitted stay references of the queue.
LEMMA FinalizeBalances ==
  ASSUME Inv, Next, References, NEW q \in Queues, NEW f \in Fences, NEW entries \in Seq(Entry),
         \A i \in DOMAIN entries : entries[i].type = "release",
         finalize_waits(q, entries), CommandsBy(f, 0), UNCHANGED <<refs, released>>
  PROVE  ExactNext(f)
<1> DEFINE n == HitCount(wait_fences[q], q, WaitsOf(f))
           m == - n
<1>1. HoldersFinite /\ refs[f] \in Int
  BY DEF References
<1>2. n \in Nat
  BY HeldSpots, HitsFinite
<1>3. m \in Int /\ n \in Int /\ m + n = 0 /\ 0 \in Int
  BY <1>2
<1>4. WaitsBy(f, m)
  BY <1>1, SubmittedWaits DEF finalize_waits
<1>5. WorkersBy(f, n)
  BY <1>1, SubmittedEntries
<1>6. One(~released'[f]) = One(~released[f]) + 0
  BY DEF One
<1> HIDE DEF m, n
<1>7. refs'[f] = refs[f] + (0 + m + n + 0)
  BY <1>1, <1>3
<1>8. Balanced(f, 0, m, n, 0)
  BY <1>4, <1>5, <1>6, <1>7 DEF Balanced
<1> QED
  BY <1>3, <1>8, BalancedIsExact

\* The submission thread, at a Signal or an execute.
LEMMA SubmitBalances ==
  ASSUME Inv, Next, References, NEW q \in Queues, NEW f \in Fences,
         FlushWaiters(q) \/ SignalFence(q) \/ Execute(q)
  PROVE  ExactNext(f)
<1>1. /\ Types /\ CommandsInOrder /\ HoldersFinite
      /\ refs \in [Fences -> Int] /\ refs[f] \in Int /\ ThreadsAtWork
  BY DEF Inv, References
<1>2. program' = program /\ next' = next
  <2>1. program' = program
    BY CommandStep
  <2> QED
    BY <2>1 DEF FlushWaiters, SignalFence, Execute, app_vars
<1>3. CASE FlushWaiters(q)
  <2>1. finalize_waits(q, <<>>) /\ UNCHANGED <<submissions, refs, released>>
    BY <1>3 DEF FlushWaiters, fence_vars
  <2>2. <<>> \in Seq(Entry) /\ \A i \in DOMAIN <<>> : <<>>[i].type = "release"
    OBVIOUS
  <2>3. CommandsBy(f, 0)
    BY <1>1, <1>2, <2>1, CommandsSame
  <2> QED
    BY <2>1, <2>2, <2>3, FinalizeBalances
<1>4. CASE SignalFence(q)
  <2> DEFINE g == Current(q).fence
             a == One(g = f)
             m == - a
             n == fences'[g].update_count
             e == SignalEntry(g, n, VkQueueOf[q], last_value[q])
  <2>1. /\ Finish(q) /\ UNCHANGED <<wait_fences, refs, released>>
        /\ worker' = enqueue(worker, q, e) /\ Has(q, "signal")
    BY <1>4, SignalFenceFacts DEF SignalFence
  <2>2. CommandsBy(f, m) /\ g \in Fences
    BY <1>2, <2>1, FinishHolds
  <2>3. n \in Nat /\ VkQueueOf[q] \in VkQueues /\ last_value[q] \in Nat
    BY <1>1, <2>2, FencesStayInOrder, FenceFields, QueuesAssumption DEF Types
  <2>4. e \in Entry /\ e.type = "signal" /\ e.fence = g
    <3> HIDE DEF g, n
    <3> QED
      BY <2>2, <2>3, SignalEntryType DEF SignalEntry
  <2>5. WorkersBy(f, a)
    <3> HIDE DEF e
    <3>1. WorkersBy(f, One(e.fence = f))
      BY <1>1, <2>1, <2>4, EnqueuedEntries
    <3> QED
      BY <2>4, <3>1
  <2>6. WaitsBy(f, 0)
    BY <1>1, <2>1, WaitsSame
  <2>7. One(~released'[f]) = One(~released[f]) + 0
    BY <2>1 DEF One
  <2>8. a \in Int /\ m \in Int /\ 0 \in Int /\ m + a = 0
    BY DEF One
  <2> HIDE DEF a, m
  <2>9. refs'[f] = refs[f] + (m + 0 + a + 0)
    BY <1>1, <2>1, <2>8
  <2>10. Balanced(f, m, 0, a, 0)
    BY <2>2, <2>5, <2>6, <2>7, <2>9 DEF Balanced
  <2> QED
    BY <2>8, <2>10, BalancedIsExact
<1>5. CASE Execute(q)
  <2> DEFINE id == Head(submissions[q]).id
             v == last_value'[q]
             e == ReleaseEntry(id, VkQueueOf[q], v)
  <2>1. /\ finalize_waits(q, <<e>>) /\ Has(q, "execute")
        /\ Finish(q) /\ UNCHANGED <<refs, released>>
    BY <1>5 DEF Execute, fence_vars
  <2>2. Finished(q)
    BY <1>2, <2>1 DEF Finish, Finished, Has
  <2>3. One(UsesFence(Current(q), f)) = 0
    BY <2>1 DEF Has, Current, UsesFence, One
  <2>4. CommandsBy(f, 0)
    <3> DEFINE b == One(UsesFence(Current(q), f))
               n == - b
    <3>1. n = 0
      <4>1. b \in Int /\ b = 0
        BY <2>3 DEF One
      <4> HIDE DEF b
      <4>2. n \in Int /\ n + b = 0
        BY <4>1
      <4> HIDE DEF n
      <4> QED
        BY <4>1, <4>2
    <3>2. CommandsBy(f, n)
      BY <1>1, <2>2, FinishedCommands
    <3> QED
      BY <3>1, <3>2
  <2>5. id \in Nat /\ v \in Nat /\ VkQueueOf[q] \in VkQueues
    BY <1>1, <2>1, CommandFacts, TimelinesStayExact, QueuesAssumption DEF Has
  <2>6. e \in Entry /\ e.type = "release"
    <3> HIDE DEF id, v
    <3> QED
      BY <2>5, ReleaseEntryType
  <2> HIDE DEF e
  <2> DEFINE entries == <<e>>
  <2>7. entries \in Seq(Entry) /\ \A i \in DOMAIN entries : entries[i].type = "release"
    BY <2>6
  <2>8. finalize_waits(q, entries)
    BY <2>1
  <2> HIDE DEF entries
  <2> QED
    BY <2>1, <2>4, <2>7, <2>8, FinalizeBalances
<1> QED
  BY <1>3, <1>4, <1>5

\* The fence worker.
LEMMA WorkerBalances ==
  ASSUME Inv, Next, References, NEW q \in Queues, NEW f \in Fences, FenceWorker(q)
  PROVE  ExactNext(f)
<1>1. /\ Types /\ HoldersFinite /\ refs \in [Fences -> Int] /\ refs[f] \in Int
  BY DEF Inv, References
<1>2. UNCHANGED <<program, submissions, wait_fences, released>>
  BY DEF FenceWorker, RetireSignal, RetireOrder, RetireRelease, app_vars, thread_vars, fence_vars
<1>3. CommandsBy(f, 0) /\ WaitsBy(f, 0)
  BY <1>1, <1>2, CommandsSame, WaitsSame
<1>4. One(~released'[f]) = One(~released[f]) + 0 /\ 0 \in Int
  BY <1>2 DEF One
<1>5. ASSUME NEW type \in {"signal", "order"}, Retire(q, type),
             refs' = dec_ref(refs, Head(worker[q]).fence)
      PROVE  ExactNext(f)
  <2> DEFINE g == Head(worker[q]).fence
             a == One(g = f)
             m == - a
  <2>1. g \in Fences
    BY <1>1, <1>5, RetireFacts, EntryFields
  <2>2. WorkersBy(f, - One(type # "release" /\ g = f))
    BY <1>1, <1>5, RetiredEntries
  <2>3. One(type # "release" /\ g = f) = a /\ a \in Int /\ m \in Int
    BY <1>5 DEF One
  <2>4. WorkersBy(f, m)
    BY <2>2, <2>3
  <2>5. refs'[f] = refs[f] - a
    BY <1>1, <1>5, <2>1, DecRefFacts
  <2>6. refs'[f] = refs[f] + (0 + 0 + m + 0)
    BY <1>1, <2>3, <2>5
  <2> HIDE DEF m
  <2>7. Balanced(f, 0, 0, m, 0)
    BY <1>3, <1>4, <2>4, <2>6 DEF Balanced
  <2> QED
    BY <1>4, <2>3, <2>7, BalancedIsExact
<1>6. CASE RetireRelease(q)
  <2>1. Retire(q, "release") /\ refs' = refs
    BY <1>6 DEF RetireRelease, fence_vars
  <2>2. WorkersBy(f, - One("release" # "release" /\ Head(worker[q]).fence = f))
    BY <1>1, <2>1, RetiredEntries
  <2> DEFINE b == One("release" # "release" /\ Head(worker[q]).fence = f)
             m == - b
  <2>3. b = 0
    BY DEF One
  <2>4. WorkersBy(f, m)
    BY <2>2
  <2> HIDE DEF b
  <2>5. m = 0
    <3>1. b \in Int
      BY <2>3
    <3>2. m \in Int /\ m + b = 0
      BY <3>1
    <3> HIDE DEF m
    <3> QED
      BY <2>3, <3>2
  <2>6. WorkersBy(f, 0)
    BY <2>4, <2>5
  <2>7. Balanced(f, 0, 0, 0, 0)
    BY <1>1, <1>3, <1>4, <2>1, <2>6 DEF Balanced
  <2> QED
    BY <1>4, <2>7, BalancedIsExact
<1>7. CASE RetireSignal(q)
  BY <1>5, <1>7 DEF RetireSignal
<1>8. CASE RetireOrder(q)
  BY <1>5, <1>8 DEF RetireOrder
<1> QED
  BY <1>6, <1>7, <1>8 DEF FenceWorker

\* The counts have their types after the step.
LEMMA CountTypes ==
  ASSUME Inv, Next, References
  PROVE  refs' \in [Fences -> Int] /\ released' \in [Fences -> BOOLEAN]
<1>1. refs \in [Fences -> Int] /\ released \in [Fences -> BOOLEAN]
  BY DEF References
<1>2. ASSUME NEW g
      PROVE  inc_ref(refs, g) \in [Fences -> Int] /\ dec_ref(refs, g) \in [Fences -> Int]
  <2>1. CASE g \in Fences
    BY <1>1, <2>1 DEF inc_ref, dec_ref
  <2>2. CASE g \notin Fences
    <3>1. inc_ref(refs, g) = refs /\ dec_ref(refs, g) = refs
      BY <1>1, <2>2 DEF inc_ref, dec_ref
    <3> QED
      BY <1>1, <3>1
  <2> QED
    BY <2>1, <2>2
<1>3. released' = released \/ \E g : released' = [released EXCEPT ![g] = TRUE]
  BY DEF Next, Application, ApiExecute, ApiSignal, ApiWait, ApiCpuSignal, ApiRelease,
         SubmissionThread, WaitAlreadySatisfied, WaitSleeps, WaitOnOwnVkQueue, WaitDeferred,
         WaitOnCpu, CpuWaitReturns, FlushWaiters, SignalFence, Execute,
         FenceWorker, RetireSignal, RetireOrder, RetireRelease, GpuExecutes, fence_vars
<1>4. refs' = refs \/ \E g : refs' = inc_ref(refs, g) \/ refs' = dec_ref(refs, g)
  BY DEF Next, Application, ApiExecute, ApiSignal, ApiWait, ApiCpuSignal, ApiRelease,
         SubmissionThread, WaitAlreadySatisfied, WaitSleeps, WaitOnOwnVkQueue, WaitDeferred,
         WaitOnCpu, CpuWaitReturns, FlushWaiters, SignalFence, Execute,
         FenceWorker, RetireSignal, RetireOrder, RetireRelease, GpuExecutes, fence_vars
<1>5. released' \in [Fences -> BOOLEAN]
  BY <1>1, <1>3
<1>6. refs' \in [Fences -> Int]
  BY <1>1, <1>2, <1>4
<1> QED
  BY <1>5, <1>6

LEMMA ReferencesStayExact ==
  ASSUME Inv, Next, References
  PROVE  References'
<1>1. ASSUME NEW f \in Fences PROVE ExactNext(f)
  <2>1. ASSUME NEW q \in Queues, SubmissionThread(q) PROVE ExactNext(f)
    BY <2>1, WaitBalances, SubmitBalances DEF SubmissionThread
  <2>2. ASSUME NEW t \in VkQueues, GpuExecutes(t) PROVE ExactNext(f)
    <3>1. UNCHANGED <<program, submissions, wait_fences, worker, refs, released>>
      BY <2>2 DEF GpuExecutes, app_vars, thread_vars, fence_vars
    <3>2. HoldersFinite /\ refs[f] \in Int
      BY DEF References
    <3>3. CommandsBy(f, 0) /\ WaitsBy(f, 0) /\ WorkersBy(f, 0)
      BY <3>1, <3>2, CommandsSame, WaitsSame, WorkersSame
    <3>4. Balanced(f, 0, 0, 0, 0)
      BY <3>1, <3>2, <3>3 DEF Balanced, One
    <3>5. 0 \in Int
      OBVIOUS
    <3> QED
      BY <3>4, <3>5, BalancedIsExact
  <2> QED
    BY <2>1, <2>2, ApplicationBalances, WorkerBalances DEF Next
<1>2. refs' \in [Fences -> Int] /\ released' \in [Fences -> BOOLEAN]
  BY CountTypes
<1>3. HoldersFinite' /\ ReferencesAreExact'
  BY <1>1 DEF ExactNext, HoldersFinite, ReferencesAreExact
<1> QED
  BY <1>2, <1>3 DEF References

-----------------------------------------------------------------------------
(* Allocators are released after their work.                               *)

ReleaseOf(e, w, t, v) ==
  e.type = "release" /\ e.id = w[2] /\ e.vk_semaphore = t /\ e.vk_semaphore_value = v

\* The allocators of the execute w are let go when t has reached v.
HeldUntil(w, t, v) == \E j \in DOMAIN worker[w[1]] : ReleaseOf(worker[w[1]][j], w, t, v)

HeldUntilNext(w, t, v) == \E j \in DOMAIN worker'[w[1]] : ReleaseOf(worker'[w[1]][j], w, t, v)

\* Those of every execute that is in flight are let go with it.
AllocatorsHeld ==
  \A t \in VkQueues : \A i \in DOMAIN vk_queue[t] : \A w \in vk_queue[t][i].work :
    HeldUntil(w, t, vk_queue[t][i].value)

\* An entry that waits for a value that has not been reached stays.
LEMMA ReleaseStays ==
  ASSUME Inv, OrdersKnown, Next, NEW w \in Works, NEW t \in VkQueues, NEW v \in Nat,
         timeline[t] < v, HeldUntil(w, t, v)
  PROVE  HeldUntilNext(w, t, v)
<1>1. Types /\ w[1] \in Queues /\ timeline[t] \in Nat
  BY DEF Inv, Types, Works
<1> DEFINE p == w[1]
<1>2. PICK j \in DOMAIN worker[p] : ReleaseOf(worker[p][j], w, t, v)
  BY DEF HeldUntil
<1> HIDE DEF p
<1>3. CASE worker' = worker
  BY <1>2, <1>3 DEF HeldUntilNext, p
<1>4. ASSUME NEW q \in Queues, NEW type, Retire(q, type)
      PROVE  HeldUntilNext(w, t, v)
  <2>1. CASE p # q
    <3>1. worker'[p] = worker[p]
      BY <1>1, <1>4, <2>1, RetireFacts DEF WorkerOf, p
    <3> QED
      BY <1>2, <3>1 DEF HeldUntilNext, p
  <2>2. CASE p = q
    <3>1. j # 1
      <4> SUFFICES ASSUME j = 1 PROVE FALSE
        OBVIOUS
      <4>1. Head(worker[q]) = worker[q][1] /\ EntryReady(Head(worker[q]))
        BY <1>1, <1>4, RetireFacts
      <4>2. timeline[t] >= v
        BY <1>2, <2>2, <4>1 DEF ReleaseOf, EntryReady, Reached
      <4> QED
        BY <1>1, <4>2
    <3>2. j - 1 \in DOMAIN worker'[p] /\ worker'[p][j - 1] = worker[p][j]
      BY <1>1, <1>2, <1>4, <2>2, <3>1, RetireFacts
    <3> QED
      BY <1>2, <3>2 DEF HeldUntilNext, p
  <2> QED
    BY <2>1, <2>2
<1>5. ASSUME NEW q \in Queues, NEW added, Extends(q, added)
      PROVE  HeldUntilNext(w, t, v)
  <2>1. j \in DOMAIN worker'[p] /\ worker'[p][j] = worker[p][j]
    <3>1. CASE p # q
      <4>1. worker'[p] = worker[p]
        BY <1>1, <1>5, <3>1 DEF Extends, WorkerOf, p
      <4> QED
        BY <4>1
    <3>2. CASE p = q
      BY <1>1, <1>5, <3>2, ExtendsFacts
    <3> QED
      BY <3>1, <3>2
  <2> QED
    BY <1>2, <2>1 DEF HeldUntilNext, p
<1> QED
  BY <1>3, <1>4, <1>5, WorkerMoves DEF AddsOthers, AddsSignal

\* What is on a VkQueue after a step was there, or is no execute, or is new.
LEMMA SubmissionsOldOrNew ==
  ASSUME Inv, Next, NEW t \in VkQueues, NEW i \in DOMAIN vk_queue'[t]
  PROVE  \/ \E j \in DOMAIN vk_queue[t] : vk_queue'[t][i] = vk_queue[t][j]
         \/ vk_queue'[t][i].work = {}
         \/ \E q \in Queues :
              /\ Execute(q) /\ t = VkQueueOf[q] /\ vk_queue'[t][i].value = last_value'[q]
              /\ vk_queue'[t][i].work = {<<q, Head(submissions[q]).id>>}
<1>1. Types /\ CommandsInOrder /\ TimelinesExact
  BY DEF Inv
<1>2. CASE vk_queue' = vk_queue
  BY <1>2
<1>3. ASSUME NEW q \in Queues, NEW waits \in Waits, NEW work \in SUBSET Works,
             submit(q, waits, work)
      PROVE  \/ \E j \in DOMAIN vk_queue[t] : vk_queue'[t][i] = vk_queue[t][j]
             \/ /\ t = VkQueueOf[q] /\ vk_queue'[t][i].work = work
                /\ vk_queue'[t][i].value = last_value'[q]
  <2> DEFINE x == VkQueueOf[q]
             L == Len(vk_queue[x])
  <2>1. /\ L \in Nat /\ DOMAIN vk_queue[x] = 1..L /\ DOMAIN vk_queue'[x] = 1..(L + 1)
        /\ \A k \in 1..L : vk_queue'[x][k] = vk_queue[x][k]
        /\ \A y \in VkQueues : y # x => vk_queue'[y] = vk_queue[y]
        /\ vk_queue'[x][L + 1].work = work /\ vk_queue'[x][L + 1].value = last_value'[q]
    <3> DEFINE v == timeline_count[x] + 1
               c == [waits |-> waits, value |-> v, work |-> work, after |-> follows[q]]
    <3>1. /\ L \in Nat /\ DOMAIN vk_queue[x] = 1..L /\ DOMAIN vk_queue'[x] = 1..(L + 1)
          /\ \A k \in 1..L : vk_queue'[x][k] = vk_queue[x][k]
          /\ \A y \in VkQueues : y # x => vk_queue'[y] = vk_queue[y]
          /\ last_value'[q] = v /\ vk_queue'[x][L + 1] = c
      BY <1>1, <1>3, SubmitFacts
    <3>2. c.work = work /\ c.value = v
      OBVIOUS
    <3> HIDE DEF c, v, L, x
    <3> QED
      BY <3>1, <3>2
  <2> HIDE DEF L, x
  <2>2. CASE t # x
    BY <2>1, <2>2
  <2>3. CASE t = x /\ i \in 1..L
    BY <2>1, <2>3
  <2>4. CASE t = x /\ i = L + 1
    BY <2>1, <2>4 DEF x
  <2> QED
    BY <2>1, <2>2, <2>3, <2>4
<1>4. ASSUME NEW q \in Queues
      PROVE  eliminate_completed(wait_semaphores[q]) \in Waits
  <2>1. wait_semaphores[q] \in Waits
    BY <1>1, <1>4 DEF Types
  <2> QED
    BY <1>1, <2>1, EliminateFacts
<1>5. ASSUME NEW q \in Queues, FlushWaiters(q), vk_queue' # vk_queue
      PROVE  (\E j \in DOMAIN vk_queue[t] : vk_queue'[t][i] = vk_queue[t][j])
                \/ vk_queue'[t][i].work = {}
  <2>1. submit(q, eliminate_completed(wait_semaphores[q]), {})
    BY <1>5 DEF FlushWaiters
  <2>2. {} \in SUBSET Works
    OBVIOUS
  <2> QED
    BY <1>3, <1>4, <2>1, <2>2
<1>6. ASSUME NEW q \in Queues, Execute(q)
      PROVE  \/ \E j \in DOMAIN vk_queue[t] : vk_queue'[t][i] = vk_queue[t][j]
             \/ /\ t = VkQueueOf[q] /\ vk_queue'[t][i].value = last_value'[q]
                /\ vk_queue'[t][i].work = {<<q, Head(submissions[q]).id>>}
  <2> DEFINE work == {<<q, Head(submissions[q]).id>>}
  <2>1. submit(q, eliminate_completed(wait_semaphores[q]), work) /\ Has(q, "execute")
    BY <1>6 DEF Execute
  <2>2. <<q, Head(submissions[q]).id>> \in Works
    BY <1>1, <2>1, CommandFacts DEF Has
  <2>3. work \in SUBSET Works
    BY <2>2
  <2> HIDE DEF work
  <2>4. \/ \E j \in DOMAIN vk_queue[t] : vk_queue'[t][i] = vk_queue[t][j]
        \/ /\ t = VkQueueOf[q] /\ vk_queue'[t][i].work = work
           /\ vk_queue'[t][i].value = last_value'[q]
    BY <1>3, <1>4, <2>1, <2>3
  <2> QED
    BY <2>4 DEF work
<1>7. ASSUME NEW x \in VkQueues, GpuExecutes(x)
      PROVE  \E j \in DOMAIN vk_queue[t] : vk_queue'[t][i] = vk_queue[t][j]
  <2> DEFINE L == Len(vk_queue[x])
  <2>1. /\ L \in Nat \ {0} /\ DOMAIN vk_queue[x] = 1..L
        /\ \A y \in VkQueues : y # x => vk_queue'[y] = vk_queue[y]
        /\ DOMAIN vk_queue'[x] = 1..(L - 1)
        /\ \A k \in 1..(L - 1) : vk_queue'[x][k] = vk_queue[x][k + 1]
    BY <1>1, <1>7, ExecutesFacts
  <2> HIDE DEF L
  <2>2. CASE t # x
    BY <2>1, <2>2
  <2>3. CASE t = x
    <3>1. i \in 1..(L - 1) /\ i + 1 \in 1..L
      BY <2>1, <2>3
    <3> QED
      BY <2>1, <2>3, <3>1
  <2> QED
    BY <2>2, <2>3
<1>8. ASSUME NEW q \in Queues, SubmissionThread(q), vk_queue' # vk_queue
      PROVE  FlushWaiters(q) \/ Execute(q)
  BY <1>8 DEF SubmissionThread, WaitAlreadySatisfied, WaitSleeps, WaitOnOwnVkQueue, WaitDeferred,
              WaitOnCpu, CpuWaitReturns, SignalFence, gpu_vars
<1>9. ASSUME NEW q \in Queues, Application(q) PROVE vk_queue' = vk_queue
  BY <1>9 DEF Application, ApiExecute, ApiSignal, ApiWait, ApiCpuSignal, ApiRelease, gpu_vars
<1>10. ASSUME NEW q \in Queues, FenceWorker(q) PROVE vk_queue' = vk_queue
  BY <1>10 DEF FenceWorker, RetireSignal, RetireOrder, RetireRelease, gpu_vars
<1> QED
  BY <1>2, <1>5, <1>6, <1>7, <1>8, <1>9, <1>10 DEF Next

\* An execute leaves an entry that lets go of its allocators.
LEMMA ExecuteHolds ==
  ASSUME Inv, Next, NEW q \in Queues, Execute(q)
  PROVE  HeldUntilNext(<<q, Head(submissions[q]).id>>, VkQueueOf[q], last_value'[q])
<1> DEFINE id == Head(submissions[q]).id
           t == VkQueueOf[q]
           v == last_value'[q]
           e == ReleaseEntry(id, t, v)
           w == <<q, id>>
<1>1. Types /\ CommandsInOrder
  BY DEF Inv
<1>2. finalize_waits(q, <<e>>) /\ Has(q, "execute")
  BY DEF Execute
<1>3. id \in Nat /\ t \in VkQueues /\ v \in Nat
  BY <1>1, <1>2, CommandFacts, TimelinesStayExact, QueuesAssumption DEF Has
<1>4. w[1] = q /\ w[2] = id
  OBVIOUS
<1> HIDE DEF id, t, v
<1>5. e \in Entry /\ e.type = "release" /\ ReleaseOf(e, w, t, v)
  BY <1>3, <1>4, ReleaseEntryType DEF ReleaseOf, ReleaseEntry
<1> HIDE DEF e, w
<1> DEFINE b == <<e>>
           o == OrderEntries(q)
           a == o \o b
<1>6. b \in Seq(Entry) /\ NoSignal(b) /\ 1 \in DOMAIN b /\ b[1] = e /\ finalize_waits(q, b)
  BY <1>2, <1>5 DEF NoSignal
<1>7. o \in Seq(Entry)
  BY <1>1, OrderEntriesType
<1> HIDE DEF b
<1>8. Extends(q, a)
  BY <1>1, <1>6, FinalizeExtends
<1> HIDE DEF o
<1>9. \E k \in DOMAIN a : a[k] = b[1]
  <2>1. \A j \in DOMAIN b : \E k \in DOMAIN (o \o b) : (o \o b)[k] = b[j]
    BY <1>6, <1>7, ConcatFacts
  <2>2. \A j \in DOMAIN b : \E k \in DOMAIN a : a[k] = b[j]
    BY <2>1
  <2> HIDE DEF a
  <2> QED
    BY <1>6, <2>2
<1> HIDE DEF a
<1> PICK k \in DOMAIN a : a[k] = b[1]
  BY <1>9
<1>10. PICK j \in DOMAIN worker'[q] : worker'[q][j] = a[k]
  BY <1>1, <1>8, ExtendsFacts
<1>11. ReleaseOf(worker'[q][j], w, t, v)
  BY <1>5, <1>6, <1>9, <1>10
<1>12. HeldUntilNext(w, t, v)
  BY <1>4, <1>10, <1>11 DEF HeldUntilNext
<1> QED
  BY <1>12 DEF w, id, t, v

LEMMA AllocatorsStayHeld ==
  ASSUME Inv, OrdersKnown, AllocatorsHeld, Next
  PROVE  AllocatorsHeld'
<1> SUFFICES ASSUME NEW t \in VkQueues, NEW i \in DOMAIN vk_queue'[t],
                    NEW w \in vk_queue'[t][i].work
             PROVE  HeldUntilNext(w, t, vk_queue'[t][i].value)
  BY DEF AllocatorsHeld, HeldUntil, HeldUntilNext
<1>1. Types /\ TimelinesExact
  BY DEF Inv
<1>2. ASSUME NEW j \in DOMAIN vk_queue[t], vk_queue'[t][i] = vk_queue[t][j]
      PROVE  HeldUntilNext(w, t, vk_queue'[t][i].value)
  <2> DEFINE v == vk_queue[t][j].value
  <2>1. vk_queue[t] \in Seq(GpuSubmission) /\ vk_queue[t][j] \in GpuSubmission
        /\ timeline[t] \in Nat /\ j \in Nat \ {0}
    BY <1>1, LenProperties DEF Types
  <2>2. w \in Works
    BY <1>2, <2>1 DEF GpuSubmission
  <2>3. v = timeline[t] + j
    BY <1>1 DEF TimelinesExact
  <2>4. v \in Nat /\ timeline[t] < v
    BY <2>1, <2>3
  <2>5. HeldUntil(w, t, v)
    BY <1>2 DEF AllocatorsHeld
  <2> HIDE DEF v
  <2>6. HeldUntilNext(w, t, v)
    BY <2>2, <2>4, <2>5, ReleaseStays
  <2> QED
    BY <1>2, <2>6 DEF v
<1>3. ASSUME NEW q \in Queues, Execute(q), t = VkQueueOf[q],
             vk_queue'[t][i].value = last_value'[q],
             vk_queue'[t][i].work = {<<q, Head(submissions[q]).id>>}
      PROVE  HeldUntilNext(w, t, vk_queue'[t][i].value)
  <2>1. w = <<q, Head(submissions[q]).id>>
    BY <1>3
  <2> QED
    BY <1>3, <2>1, ExecuteHolds
<1> QED
  BY <1>2, <1>3, SubmissionsOldOrNew

-----------------------------------------------------------------------------
(* The counts are exact.                                                   *)

LEMMA InitCounts ==
  ASSUME Init
  PROVE  References /\ AllocatorsHeld
<1>1. /\ \A q \in Queues : /\ submissions[q] = <<>> /\ wait_fences[q] = <<>>
                           /\ worker[q] = <<>>
      /\ \A t \in VkQueues : vk_queue[t] = <<>>
      /\ refs = [f \in Fences |-> 1] /\ released = [f \in Fences |-> FALSE]
  BY DEF Init
<1>2. DOMAIN <<>> = {}
  OBVIOUS
<1>3. ASSUME NEW f \in Fences
      PROVE  HeldByCommands(f) = {} /\ HeldByWaits(f) = {} /\ HeldByWorkers(f) = {}
  BY <1>1, <1>2 DEF HeldByCommands, HeldByWaits, HeldByWorkers
<1>4. IsFiniteSet({}) /\ Cardinality({}) = 0
  BY FS_EmptySet
<1>5. ASSUME NEW f \in Fences PROVE refs[f] = Holders(f)
  <2>1. /\ Cardinality(HeldByCommands(f)) = 0 /\ Cardinality(HeldByWaits(f)) = 0
        /\ Cardinality(HeldByWorkers(f)) = 0
    BY <1>3, <1>4
  <2>2. refs[f] = 1 /\ ~released[f]
    BY <1>1
  <2>3. Holders(f) = 0 + 0 + 0 + 1
    BY <2>1, <2>2 DEF Holders
  <2> QED
    BY <2>2, <2>3
<1>6. HoldersFinite /\ ReferencesAreExact
  BY <1>3, <1>4, <1>5 DEF HoldersFinite, ReferencesAreExact
<1>7. refs \in [Fences -> Int] /\ released \in [Fences -> BOOLEAN]
  BY <1>1
<1>8. AllocatorsHeld
  BY <1>1, <1>2 DEF AllocatorsHeld
<1> QED
  BY <1>6, <1>7, <1>8 DEF References

LEMMA StutterCounts ==
  ASSUME References, AllocatorsHeld, UNCHANGED vars
  PROVE  References' /\ AllocatorsHeld'
<1>1. UNCHANGED <<program, submissions, wait_fences, worker, vk_queue, refs, released>>
  BY DEF vars, app_vars, thread_vars, gpu_vars, fence_vars
<1>2. ASSUME NEW f \in Fences
      PROVE  /\ HeldByCommands(f)' = HeldByCommands(f) /\ HeldByWaits(f)' = HeldByWaits(f)
             /\ HeldByWorkers(f)' = HeldByWorkers(f)
  BY <1>1 DEF HeldByCommands, HeldByWaits, HeldByWorkers
<1>3. References'
  BY <1>1, <1>2 DEF References, HoldersFinite, ReferencesAreExact, Holders
<1>4. AllocatorsHeld'
  BY <1>1 DEF AllocatorsHeld, HeldUntil
<1> QED
  BY <1>3, <1>4

LEMMA CountsHold == Spec => [](References /\ AllocatorsHeld)
<1>1. Inv /\ OrdersKnown /\ References /\ AllocatorsHeld /\ [Next]_vars
        => (References /\ AllocatorsHeld)'
  BY ReferencesStayExact, AllocatorsStayHeld, StutterCounts
<1>2. IInv => Inv
  BY DEF IInv
<1>3. KnotInv => OrdersKnown
  BY DEF KnotInv
<1> QED
  BY OrderHolds, KnotHolds, InitCounts, <1>1, <1>2, <1>3, PTL DEF Spec

\* refcount_internal of every fence is the number of its holders, and a command
\* allocator stays in use while lists recorded from it are on a VkQueue: whatever
\* the program, however many queues share a fence and in whatever order the
\* application, the submission threads, the fence workers and the GPU move.
THEOREM CountsAlwaysExact == Spec => []CountsAreExact
<1>1. References => ReferencesAreExact
  BY DEF References
<1>2. AllocatorsHeld => AllocatorsOutliveTheirWork
  BY DEF AllocatorsHeld, HeldUntil, ReleaseOf, AllocatorsOutliveTheirWork
<1> QED
  BY CountsHold, <1>1, <1>2, PTL DEF CountsAreExact

\* A number of holders is no negative number.
LEMMA HoldersAreNatural ==
  ASSUME References
  PROVE  refs \in [Fences -> Nat]
<1>1. ASSUME NEW f \in Fences PROVE refs[f] \in Nat
  <2> DEFINE x == Cardinality(HeldByCommands(f))
             y == Cardinality(HeldByWaits(f))
             z == Cardinality(HeldByWorkers(f))
             r == IF released[f] THEN 0 ELSE 1
  <2>1. /\ IsFiniteSet(HeldByCommands(f)) /\ IsFiniteSet(HeldByWaits(f))
        /\ IsFiniteSet(HeldByWorkers(f))
    BY DEF References, HoldersFinite
  <2>2. x \in Nat /\ y \in Nat /\ z \in Nat /\ r \in Nat
    BY <2>1, FS_CardinalityType
  <2>3. refs[f] = x + y + z + r
    BY DEF References, ReferencesAreExact, Holders
  <2> HIDE DEF x, y, z, r
  <2> QED
    BY <2>2, <2>3
<1> QED
  BY <1>1 DEF References

\* Every variable has its type, the reference counts included: none goes below
\* zero, and the history speaks of executes of the program only.
THEOREM TypeCorrect == Spec => []TypeOK
<1>1. ASSUME Inv, References
      PROVE  TypeOK
  <2>1. Types /\ CommandsInOrder
    BY <1>1 DEF Inv
  <2>2. submissions \in [Queues -> Seq([id : Indices, ticket : Nat])]
    <3> DEFINE C == [id : Indices, ticket : Nat]
    <3>1. ASSUME NEW q \in Queues PROVE submissions[q] \in Seq(C)
      <4> DEFINE s == submissions[q]
      <4>1. s \in Seq(Command)
        BY <2>1, CommandFacts
      <4>2. \A i \in DOMAIN s : /\ s[i] \in Command /\ s[i].id \in Indices
                                /\ s[i].ticket \in Nat
        BY <2>1, CommandFacts
      <4>3. \A i \in DOMAIN s : s[i] \in C
        <5> HIDE DEF s
        <5> QED
          BY <4>2 DEF Command
      <4>4. Len(s) \in Nat /\ s \in [1..Len(s) -> Command] /\ DOMAIN s = 1..Len(s)
        BY <4>1, LenProperties
      <4> HIDE DEF C, s
      <4>5. s \in [1..Len(s) -> C]
        BY <4>3, <4>4
      <4>6. s \in Seq(C)
        BY <4>4, <4>5, SeqDef
      <4> QED
        BY <4>6 DEF s
    <3> HIDE DEF C
    <3>2. submissions \in [Queues -> Seq(C)]
      BY <2>1, <3>1 DEF Types
    <3> QED
      BY <3>2 DEF C
  <2>3. ASSUME NEW q \in Queues
        PROVE  wait_semaphores[q] \in [DOMAIN wait_semaphores[q] -> Nat]
                 /\ DOMAIN wait_semaphores[q] \subseteq VkQueues
    BY <2>1 DEF Types, Waits
  <2>4. ASSUME NEW t \in VkQueues, NEW i \in DOMAIN vk_queue[t]
        PROVE  vk_queue[t][i].work \subseteq Works /\ vk_queue[t][i].after \subseteq Works
    <3>1. vk_queue[t] \in Seq(GpuSubmission)
      BY <2>1 DEF Types
    <3>2. vk_queue[t][i] \in GpuSubmission
      BY <3>1, LenProperties
    <3> QED
      BY <3>2 DEF GpuSubmission
  <2>5. ASSUME NEW q \in Queues, NEW i \in DOMAIN worker[q]
        PROVE  worker[q][i].type \in {"signal", "order", "release"}
    <3>1. worker[q] \in Seq(Entry)
      BY <2>1 DEF Types
    <3>2. worker[q][i] \in Entry
      BY <3>1, LenProperties
    <3> QED
      BY <3>2 DEF Entry
  <2>6. refs \in [Fences -> Nat] /\ released \in [Fences -> BOOLEAN]
    BY <1>1, HoldersAreNatural DEF References
  <2> QED
    BY <2>1, <2>2, <2>3, <2>4, <2>5, <2>6 DEF Types, TypeOK
<1>2. IInv => Inv
  BY DEF IInv
<1> QED
  BY OrderHolds, CountsHold, <1>1, <1>2, PTL
=============================================================================
