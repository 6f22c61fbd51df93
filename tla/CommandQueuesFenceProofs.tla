---------------------- MODULE CommandQueuesFenceProofs ----------------------
(***************************************************************************)
(* Every fence of the command queues is a Fence.                           *)
(*                                                                         *)
(* A fence f is mapped to the state of Fence by its own record, the        *)
(* updates that are still in some worker's queue (FenceUnpublished), and   *)
(* one Wait for each call (FenceWait): queued while its command is in the  *)
(* queue, then what the thread makes of it.  The sections below say what   *)
(* each step does to these two, that no update is published twice          *)
(* (SignalsUnique) and that the counters are bounded by the calls          *)
(* (Bounded), and then match every action with one of Fence or a stutter.  *)
(***************************************************************************)
EXTENDS CommandQueuesProofs

-----------------------------------------------------------------------------
(* The operators of FenceOps are the same through F.                       *)

LEMMA SameUpdates ==
  ASSUME NEW f, NEW x, NEW n
  PROVE  /\ F(f)!Value = Value
         /\ F(f)!update_pending_value(x) = update_pending_value(x)
         /\ F(f)!DueUpdates(x, n) = DueUpdates(x, n)
         /\ F(f)!VirtualValues(n) = VirtualValues(n)
         /\ F(f)!LastUpdate(n) = LastUpdate(n)
<1>1. F(f)!Value = Value
  BY DEF F!Value, Value
<1>2. \A S : F(f)!Greatest(S) = Greatest(S)
  BY DEF F!Greatest, Greatest
<1>3. \A S : F(f)!VirtualValues(S) = VirtualValues(S)
  BY DEF F!VirtualValues, VirtualValues
<1>4. F(f)!update_pending_value(x) = update_pending_value(x)
  BY <1>2, <1>3 DEF F!update_pending_value, update_pending_value
<1>5. F(f)!DueUpdates(x, n) = DueUpdates(x, n)
  BY DEF F!DueUpdates, DueUpdates
<1>6. F(f)!LastUpdate(n) = LastUpdate(n)
  BY DEF F!LastUpdate, LastUpdate
<1> QED
  BY <1>1, <1>3, <1>4, <1>5, <1>6

LEMMA SameVisible ==
  ASSUME NEW f, NEW x, NEW V
  PROVE  /\ F(f)!signal_external_events(x, V) = signal_external_events(x, V)
         /\ F(f)!update_wait_tickets(x, V) = update_wait_tickets(x, V)
BY DEF F!signal_external_events, signal_external_events, F!update_wait_tickets,
       update_wait_tickets

LEMMA SameSignal ==
  ASSUME NEW f, NEW x, NEW v
  PROVE  F(f)!signal_cpu_timeline_semaphore(x, v) = signal_cpu_timeline_semaphore(x, v)
BY SameUpdates, SameVisible DEF F!signal_cpu_timeline_semaphore, signal_cpu_timeline_semaphore

LEMMA SamePublish ==
  ASSUME NEW f, NEW x, NEW n
  PROVE  F(f)!fence_signal(x, n) = fence_signal(x, n)
<1>1. \A due : F(f)!publish_due(x, due, n) = publish_due(x, due, n)
  BY SameUpdates DEF F!publish_due, publish_due
<1> QED
  BY <1>1, SameUpdates, SameVisible DEF F!fence_signal, fence_signal

LEMMA SameWaits ==
  ASSUME NEW f, NEW x, NEW n
  PROVE  /\ F(f)!register_pending_gpu_wait(x, n) = register_pending_gpu_wait(x, n)
         /\ F(f)!HasTicket(x, n) <=> HasTicket(x, n)
         /\ F(f)!consume_ticket(x, n) = consume_ticket(x, n)
BY DEF F!register_pending_gpu_wait, register_pending_gpu_wait, F!HasTicket, HasTicket,
       F!consume_ticket, consume_ticket

LEMMA SameAdd ==
  ASSUME NEW f, NEW x, NEW v, NEW t, NEW n
  PROVE  F(f)!add_pending_signal(x, v, t, n) = add_pending_signal(x, v, t, n)
BY DEF F!add_pending_signal, add_pending_signal

-----------------------------------------------------------------------------
(* The Wait of one call, as the fence sees it.                             *)

Idle == [pc |-> "idle", value |-> 0, ticket |-> 0]

\* Where call k is among the commands s of a queue whose thread is at th, when it is
\* a Wait on f that has not left the fence.
At(p, s, th, f, k) ==
  {i \in DOMAIN s : /\ s[i].id = k
                    /\ p[k].type = "wait"
                    /\ p[k].fence = f
                    /\ i = 1 => th # "cpu_wait"}

Place(th, i) == IF i = 1 /\ th \in {"asleep", "awake"} THEN th ELSE "queued"

Standing(p, s, th, i, k) == [pc |-> Place(th, i), value |-> p[k].value, ticket |-> s[i].ticket]

WaitOf(p, s, th, f, k) ==
  IF At(p, s, th, f, k) = {} THEN Idle
  ELSE Standing(p, s, th, CHOOSE i \in At(p, s, th, f, k) : TRUE, k)

WaitNow(f, q, k)  == WaitOf(program[q], submissions[q], thread[q], f, k)
WaitNext(f, q, k) == WaitOf(program[q], submissions'[q], thread'[q], f, k)

LEMMA FenceWaits ==
  ASSUME NEW f, program' = program
  PROVE  /\ FenceWait(f) = [c \in Works |-> WaitNow(f, c[1], c[2])]
         /\ FenceWait(f)' = [c \in Works |-> WaitNext(f, c[1], c[2])]
<1>1. FenceWait(f) = [c \in Works |-> WaitNow(f, c[1], c[2])]
  BY DEF FenceWait, WaitNow, WaitOf, At, Standing, Place, Idle, Waiters
<1>2. FenceWait(f)' = [c \in Works |-> WaitNext(f, c[1], c[2])]
  BY DEF FenceWait, WaitNext, WaitOf, At, Standing, Place, Idle, Waiters
<1> QED
  BY <1>1, <1>2

Ascending(s) == \A i, j \in DOMAIN s : i < j => s[i].id < s[j].id

\* A call is queued once.
LEMMA WaitIs ==
  ASSUME NEW p, NEW s \in Seq(Command), Ascending(s), NEW th, NEW f, NEW k,
         NEW i \in At(p, s, th, f, k)
  PROVE  WaitOf(p, s, th, f, k) = Standing(p, s, th, i, k)
<1>1. PICK j : j = CHOOSE x \in At(p, s, th, f, k) : TRUE
  OBVIOUS
<1>2. j \in At(p, s, th, f, k)
  BY <1>1
<1>3. WaitOf(p, s, th, f, k) = Standing(p, s, th, j, k)
  BY <1>1 DEF WaitOf
<1>4. i \in DOMAIN s /\ j \in DOMAIN s /\ s[i].id = k /\ s[j].id = k
  BY <1>2 DEF At
<1>5. /\ DOMAIN s = 1..Len(s) /\ Len(s) \in Nat /\ s[i] \in Command
  BY <1>4, LenProperties
<1>6. k \in Nat /\ i \in Nat /\ j \in Nat
  BY <1>4, <1>5 DEF Command
<1>7. ~ (i < j) /\ ~ (j < i)
  BY <1>4, <1>6 DEF Ascending
<1>8. i = j
  BY <1>6, <1>7
<1> QED
  BY <1>3, <1>8

\* What the Wait of a call is, is kept when it stays queued as it was.
LEMMA WaitKept ==
  ASSUME NEW p, NEW s \in Seq(Command), NEW z \in Seq(Command), Ascending(s), Ascending(z),
         NEW th, NEW uh, NEW f, NEW k,
         At(p, z, uh, f, k) # {} => At(p, s, th, f, k) # {},
         \A i \in At(p, s, th, f, k) : \E j \in At(p, z, uh, f, k) :
           z[j].ticket = s[i].ticket /\ Place(uh, j) = Place(th, i)
  PROVE  WaitOf(p, z, uh, f, k) = WaitOf(p, s, th, f, k)
<1>1. CASE At(p, s, th, f, k) = {}
  BY <1>1 DEF WaitOf
<1>2. CASE At(p, s, th, f, k) # {}
  <2>1. PICK i : i \in At(p, s, th, f, k)
    BY <1>2
  <2>2. PICK j \in At(p, z, uh, f, k) : z[j].ticket = s[i].ticket /\ Place(uh, j) = Place(th, i)
    BY <2>1
  <2>3. WaitOf(p, s, th, f, k) = Standing(p, s, th, i, k)
    BY <2>1, WaitIs
  <2>4. WaitOf(p, z, uh, f, k) = Standing(p, z, uh, j, k)
    BY <2>2, WaitIs
  <2> QED
    BY <2>2, <2>3, <2>4 DEF Standing
<1> QED
  BY <1>1, <1>2

\* A command is added.
Fresh(call, ticket) == [pc |-> "queued", value |-> call.value, ticket |-> ticket]

LEMMA WaitAppends ==
  ASSUME NEW p, NEW s \in Seq(Command), NEW c \in Command, Ascending(s),
         \A i \in DOMAIN s : s[i].id < c.id,
         NEW th, s = <<>> => th \notin {"asleep", "awake", "cpu_wait"}, NEW f, NEW k
  PROVE  /\ Ascending(Append(s, c))
         /\ WaitOf(p, s, th, f, c.id) = Idle
         /\ k # c.id => WaitOf(p, Append(s, c), th, f, k) = WaitOf(p, s, th, f, k)
         /\ ~ (p[c.id].type = "wait" /\ p[c.id].fence = f) =>
              WaitOf(p, Append(s, c), th, f, c.id) = Idle
         /\ p[c.id].type = "wait" /\ p[c.id].fence = f =>
              WaitOf(p, Append(s, c), th, f, c.id) = Fresh(p[c.id], c.ticket)
<1> DEFINE z == Append(s, c)
           L == Len(s)
<1>1. /\ z \in Seq(Command) /\ L \in Nat /\ DOMAIN s = 1..L /\ DOMAIN z = 1..(L + 1)
      /\ \A i \in 1..L : z[i] = s[i]
      /\ z[L + 1] = c
  BY AppendFacts
<1>2. s = <<>> <=> L = 0
  BY EmptySeq
<1> HIDE DEF z, L
<1>3. c.id \in Nat /\ \A i \in DOMAIN s : s[i].id \in Nat
  <2>1. \A i \in DOMAIN s : s[i] \in Command
    BY LenProperties
  <2> QED
    BY <2>1 DEF Command
<1>4. Ascending(z)
  <2>1. ASSUME NEW i \in DOMAIN z, NEW j \in DOMAIN z, i < j
        PROVE  z[i].id < z[j].id
    <3>1. i \in DOMAIN s /\ z[i] = s[i]
      BY <1>1, <2>1
    <3>2. CASE j = L + 1
      BY <1>1, <3>1, <3>2
    <3>3. CASE j # L + 1
      <4>1. j \in DOMAIN s /\ z[j] = s[j]
        BY <1>1, <3>3
      <4> QED
        BY <2>1, <3>1, <4>1 DEF Ascending
    <3> QED
      BY <3>2, <3>3
  <2> QED
    BY <2>1 DEF Ascending
<1>5. WaitOf(p, s, th, f, c.id) = Idle
  <2>1. At(p, s, th, f, c.id) = {}
    BY <1>3 DEF At
  <2> QED
    BY <2>1 DEF WaitOf
<1>6. ASSUME k # c.id PROVE WaitOf(p, z, th, f, k) = WaitOf(p, s, th, f, k)
  <2>1. At(p, z, th, f, k) = At(p, s, th, f, k)
    <3>1. ASSUME NEW i
          PROVE  i \in At(p, z, th, f, k) <=> i \in At(p, s, th, f, k)
      <4>1. CASE i \in 1..L
        BY <1>1, <4>1 DEF At
      <4>2. CASE i = L + 1
        BY <1>1, <1>6, <4>2 DEF At
      <4>3. CASE i \notin 1..(L + 1)
        BY <1>1, <4>3 DEF At
      <4> QED
        BY <1>1, <4>1, <4>2, <4>3
    <3> QED
      BY <3>1
  <2>2. \A i \in At(p, s, th, f, k) : z[i] = s[i]
    BY <1>1 DEF At
  <2> QED
    BY <1>1, <1>4, <2>1, <2>2, WaitKept
<1>7. ASSUME ~ (p[c.id].type = "wait" /\ p[c.id].fence = f)
      PROVE  WaitOf(p, z, th, f, c.id) = Idle
  <2>1. At(p, z, th, f, c.id) = {}
    BY <1>7 DEF At
  <2> QED
    BY <2>1 DEF WaitOf
<1>8. ASSUME p[c.id].type = "wait", p[c.id].fence = f
      PROVE  WaitOf(p, z, th, f, c.id) = Fresh(p[c.id], c.ticket)
  <2> DEFINE n == L + 1
  <2>1. n \in DOMAIN z /\ z[n] = c /\ (n = 1 => s = <<>>)
    BY <1>1, <1>2
  <2> HIDE DEF n
  <2>2. n \in At(p, z, th, f, c.id) /\ Place(th, n) = "queued"
    BY <1>8, <2>1 DEF At, Place
  <2>3. WaitOf(p, z, th, f, c.id) = Standing(p, z, th, n, c.id)
    BY <1>1, <1>4, <2>2, WaitIs
  <2> QED
    BY <2>1, <2>2, <2>3 DEF Standing, Fresh
<1> QED
  BY <1>4, <1>5, <1>6, <1>7, <1>8 DEF z

\* Only the command at the head depends on the thread.
LEMMA WaitBehind ==
  ASSUME NEW p, NEW s \in Seq(Command), Ascending(s), NEW th, NEW uh, NEW f, NEW k,
         s # <<>> => k # Head(s).id
  PROVE  /\ WaitOf(p, s, uh, f, k) = WaitOf(p, s, th, f, k)
         /\ WaitOf(p, s, th, f, k).pc \in {"idle", "queued"}
<1>1. ASSUME NEW i \in DOMAIN s, s[i].id = k PROVE i # 1
  BY <1>1, TailFacts
<1>2. At(p, s, uh, f, k) = At(p, s, th, f, k)
  BY <1>1 DEF At
<1>3. \A i \in At(p, s, th, f, k) : Place(uh, i) = "queued" /\ Place(th, i) = "queued"
  BY <1>1 DEF At, Place
<1>4. WaitOf(p, s, uh, f, k) = WaitOf(p, s, th, f, k)
  BY <1>2, <1>3, WaitKept
<1>5. CASE At(p, s, th, f, k) = {}
  BY <1>4, <1>5 DEF WaitOf, Idle
<1>6. CASE At(p, s, th, f, k) # {}
  <2>1. PICK i : i \in At(p, s, th, f, k)
    BY <1>6
  <2>2. WaitOf(p, s, th, f, k) = Standing(p, s, th, i, k)
    BY <2>1, WaitIs
  <2> QED
    BY <1>3, <1>4, <2>1, <2>2 DEF Standing
<1> QED
  BY <1>5, <1>6

\* The command at the head.
IsWait(p, th, f, k) == p[k].type = "wait" /\ p[k].fence = f /\ th # "cpu_wait"

Heading(p, s, th) ==
  [pc |-> IF th \in {"asleep", "awake"} THEN th ELSE "queued",
   value |-> p[Head(s).id].value, ticket |-> Head(s).ticket]

LEMMA WaitAtHead ==
  ASSUME NEW p, NEW s \in Seq(Command), s # <<>>, Ascending(s), NEW th, NEW f, NEW k,
         k = Head(s).id
  PROVE  /\ IsWait(p, th, f, k) => WaitOf(p, s, th, f, k) = Heading(p, s, th)
         /\ ~ IsWait(p, th, f, k) => WaitOf(p, s, th, f, k) = Idle
<1>1. Head(s) = s[1] /\ 1 \in DOMAIN s
  BY TailFacts
<1>2. ASSUME IsWait(p, th, f, k)
      PROVE  WaitOf(p, s, th, f, k) = Heading(p, s, th)
  <2> DEFINE n == 1
  <2>1. n \in At(p, s, th, f, k)
    BY <1>1, <1>2 DEF At, IsWait
  <2>2. Place(th, n) = IF th \in {"asleep", "awake"} THEN th ELSE "queued"
    BY DEF Place
  <2>3. Head(s) = s[n]
    BY <1>1
  <2> HIDE DEF n
  <2>4. WaitOf(p, s, th, f, k) = Standing(p, s, th, n, k)
    BY <2>1, WaitIs
  <2> QED
    BY <2>2, <2>3, <2>4 DEF Standing, Heading
<1>3. ASSUME ~ IsWait(p, th, f, k)
      PROVE  WaitOf(p, s, th, f, k) = Idle
  <2>1. At(p, s, th, f, k) = {}
    <3>1. CASE ~ (p[k].type = "wait" /\ p[k].fence = f)
      BY <3>1 DEF At
    <3>2. CASE th = "cpu_wait"
      <4>1. ASSUME NEW i \in DOMAIN s, s[i].id = k PROVE i = 1
        <5>1. DOMAIN s = 1..Len(s) /\ Len(s) \in Nat /\ s[i] \in Command
          BY LenProperties
        <5>2. i \in Nat /\ 1 <= i /\ s[i].id \in Nat
          BY <5>1 DEF Command
        <5>3. ~ (1 < i)
          BY <1>1, <4>1, <5>2 DEF Ascending
        <5> QED
          BY <5>2, <5>3
      <4> QED
        BY <3>2, <4>1 DEF At
    <3> QED
      BY <1>3, <3>1, <3>2 DEF IsWait
  <2> QED
    BY <2>1 DEF WaitOf
<1> QED
  BY <1>2, <1>3

\* The command at the head is finished.
LEMMA WaitFinishes ==
  ASSUME NEW p, NEW s \in Seq(Command), s # <<>>, Ascending(s), NEW th, NEW f, NEW k
  PROVE  /\ Ascending(Tail(s))
         /\ k = Head(s).id => WaitOf(p, Tail(s), "ready", f, k) = Idle
         /\ k # Head(s).id =>
              WaitOf(p, Tail(s), "ready", f, k) = WaitOf(p, s, th, f, k)
<1> DEFINE z == Tail(s)
           L == Len(s)
<1>1. /\ z \in Seq(Command) /\ L \in Nat \ {0} /\ DOMAIN s = 1..L /\ DOMAIN z = 1..(L - 1)
      /\ \A i \in 1..(L - 1) : z[i] = s[i + 1]
      /\ Head(s) = s[1] /\ 1 \in DOMAIN s
  BY TailFacts
<1> HIDE DEF z, L
<1>2. \A i \in DOMAIN s : s[i].id \in Nat
  <2>1. \A i \in DOMAIN s : s[i] \in Command
    BY LenProperties
  <2> QED
    BY <2>1 DEF Command
<1>3. Ascending(z)
  <2>1. ASSUME NEW i \in DOMAIN z, NEW j \in DOMAIN z, i < j
        PROVE  z[i].id < z[j].id
    <3>1. /\ i + 1 \in DOMAIN s /\ j + 1 \in DOMAIN s /\ i + 1 < j + 1
          /\ z[i] = s[i + 1] /\ z[j] = s[j + 1]
      BY <1>1, <2>1
    <3> QED
      BY <3>1 DEF Ascending
  <2> QED
    BY <2>1 DEF Ascending
<1>4. ASSUME k = Head(s).id PROVE WaitOf(p, z, "ready", f, k) = Idle
  <2>1. ASSUME NEW i \in DOMAIN z PROVE z[i].id # k
    <3>1. i + 1 \in DOMAIN s /\ 1 < i + 1 /\ z[i] = s[i + 1]
      BY <1>1, <2>1
    <3>2. s[1].id < s[i + 1].id /\ s[1].id \in Nat /\ s[i + 1].id \in Nat
      BY <1>1, <1>2, <3>1 DEF Ascending
    <3> QED
      BY <1>1, <1>4, <3>1, <3>2
  <2>2. At(p, z, "ready", f, k) = {}
    BY <2>1 DEF At
  <2> QED
    BY <2>2 DEF WaitOf
<1>5. ASSUME k # Head(s).id
      PROVE  WaitOf(p, z, "ready", f, k) = WaitOf(p, s, th, f, k)
  <2>1. ASSUME NEW i \in At(p, s, th, f, k)
        PROVE  \E j \in At(p, z, "ready", f, k) :
                 z[j].ticket = s[i].ticket /\ Place("ready", j) = Place(th, i)
    <3>1. i \in DOMAIN s /\ s[i].id = k /\ p[k].type = "wait" /\ p[k].fence = f /\ i # 1
      BY <1>1, <1>5 DEF At
    <3> DEFINE j == i - 1
    <3>2. j \in DOMAIN z /\ z[j] = s[j + 1] /\ j + 1 = i
      BY <1>1, <3>1
    <3> HIDE DEF j
    <3>3. j \in At(p, z, "ready", f, k)
      BY <3>1, <3>2 DEF At
    <3>4. Place("ready", j) = Place(th, i)
      BY <3>1 DEF Place
    <3> QED
      BY <3>2, <3>3, <3>4
  <2>2. ASSUME At(p, z, "ready", f, k) # {}
        PROVE  At(p, s, th, f, k) # {}
    <3>1. PICK j : j \in At(p, z, "ready", f, k)
      BY <2>2
    <3>2. j + 1 \in DOMAIN s /\ z[j] = s[j + 1] /\ j + 1 # 1
      BY <1>1, <3>1 DEF At
    <3>3. j + 1 \in At(p, s, th, f, k)
      BY <3>1, <3>2 DEF At
    <3> QED
      BY <3>3
  <2> DEFINE uh == "ready"
  <2>3. /\ At(p, z, uh, f, k) # {} => At(p, s, th, f, k) # {}
        /\ \A i \in At(p, s, th, f, k) : \E j \in At(p, z, uh, f, k) :
             z[j].ticket = s[i].ticket /\ Place(uh, j) = Place(th, i)
    BY <2>1, <2>2
  <2> HIDE DEF uh
  <2>4. WaitOf(p, z, uh, f, k) = WaitOf(p, s, th, f, k)
    BY <1>1, <1>3, <2>3, WaitKept
  <2> QED
    BY <2>4 DEF uh
<1> QED
  BY <1>3, <1>4, <1>5 DEF z

\* Those who sleep on g are woken.
Woke(w) == IF w.pc = "asleep" THEN [w EXCEPT !.pc = "awake"] ELSE w

WakesFrom(p, s, th, uh, g) ==
  /\ th = "asleep" => s # <<>> /\ p[Head(s).id].type = "wait"
  /\ uh = IF th = "asleep" /\ p[Head(s).id].fence = g THEN "awake" ELSE th

LEMMA WaitWoken ==
  ASSUME NEW p, NEW s \in Seq(Command), Ascending(s), NEW th, NEW uh, NEW f, NEW g, NEW k,
         WakesFrom(p, s, th, uh, g)
  PROVE  /\ f = g => WaitOf(p, s, uh, f, k) = Woke(WaitOf(p, s, th, f, k))
         /\ f # g => WaitOf(p, s, uh, f, k) = WaitOf(p, s, th, f, k)
<1> USE DEF WakesFrom, Woke
<1> DEFINE w == WaitOf(p, s, th, f, k)
           u == WaitOf(p, s, uh, f, k)
<1>1. CASE s # <<>> => k # Head(s).id
  <2>1. u = w /\ w.pc \in {"idle", "queued"}
    BY <1>1, WaitBehind
  <2> HIDE DEF u, w
  <2> QED
    BY <2>1 DEF u, w
<1>2. CASE s # <<>> /\ k = Head(s).id
  <2>0. /\ IsWait(p, th, f, k) => w = Heading(p, s, th)
        /\ ~ IsWait(p, th, f, k) => w = Idle
        /\ IsWait(p, uh, f, k) => u = Heading(p, s, uh)
        /\ ~ IsWait(p, uh, f, k) => u = Idle
    BY <1>2, WaitAtHead
  <2> HIDE DEF u, w
  <2>1. CASE uh = th
    <3>0. u = w
      BY <2>1 DEF u, w
    <3>1. ASSUME w.pc = "asleep" PROVE f # g
      <4>1. CASE IsWait(p, th, f, k)
        <5>1. w.pc = IF th \in {"asleep", "awake"} THEN th ELSE "queued"
          BY <2>0, <4>1 DEF Heading
        <5>2. th = "asleep"
          BY <3>1, <5>1
        <5> QED
          BY <1>2, <2>1, <4>1, <5>2 DEF IsWait
      <4>2. CASE ~ IsWait(p, th, f, k)
        BY <2>0, <3>1, <4>2 DEF Idle
      <4> QED
        BY <4>1, <4>2
    <3> QED
      BY <3>0, <3>1 DEF u, w
  <2>2. CASE uh # th
    <3>1. th = "asleep" /\ uh = "awake" /\ p[k].type = "wait" /\ p[k].fence = g
      BY <1>2, <2>2
    <3>2. CASE f = g
      <4>1. w = Heading(p, s, th) /\ u = Heading(p, s, uh)
        BY <2>0, <3>1, <3>2 DEF IsWait
      <4>2. w.pc = "asleep" /\ u = [w EXCEPT !.pc = "awake"]
        BY <3>1, <4>1 DEF Heading
      <4> QED
        BY <3>2, <4>2 DEF u, w
    <3>3. CASE f # g
      <4>1. w = Idle /\ u = Idle
        BY <2>0, <3>1, <3>3 DEF IsWait
      <4> QED
        BY <3>3, <4>1 DEF u, w
    <3> QED
      BY <3>2, <3>3
  <2> QED
    BY <2>1, <2>2
<1> QED
  BY <1>1, <1>2

-----------------------------------------------------------------------------
(* The updates of a fence that are still to be published.                  *)

\* A signal is published once.
SignalsUnique ==
  \A q, r \in Queues : \A i \in DOMAIN worker[q], j \in DOMAIN worker[r] :
    /\ worker[q][i].type = "signal" /\ worker[r][j].type = "signal"
    /\ worker[q][i].fence = worker[r][j].fence
    /\ worker[q][i].update_count = worker[r][j].update_count
    => q = r /\ i = j

ToPublish(f, n)     == \E q \in Queues : \E i \in DOMAIN worker[q] : SignalOf(worker[q][i], f, n)
ToPublishNext(f, n) == \E q \in Queues : \E i \in DOMAIN worker'[q] : SignalOf(worker'[q][i], f, n)

LEMMA UnpublishedElement ==
  ASSUME NEW f, NEW n
  PROVE  /\ n \in FenceUnpublished(f) <=> ToPublish(f, n)
         /\ n \in FenceUnpublished(f)' <=> ToPublishNext(f, n)
<1>1. n \in FenceUnpublished(f) <=> ToPublish(f, n)
  <2>1. n \in FenceUnpublished(f) <=>
          \E q \in Queues : n \in { worker[q][i].update_count :
              i \in { j \in DOMAIN worker[q] :
                        worker[q][j].type = "signal" /\ worker[q][j].fence = f } }
    BY DEF FenceUnpublished
  <2> QED
    BY <2>1 DEF ToPublish, SignalOf
<1>2. n \in FenceUnpublished(f)' <=> ToPublishNext(f, n)
  <2>1. n \in FenceUnpublished(f)' <=>
          \E q \in Queues : n \in { worker'[q][i].update_count :
              i \in { j \in DOMAIN worker'[q] :
                        worker'[q][j].type = "signal" /\ worker'[q][j].fence = f } }
    BY DEF FenceUnpublished
  <2> QED
    BY <2>1 DEF ToPublishNext, SignalOf
<1> QED
  BY <1>1, <1>2

LEMMA UnpublishedSame ==
  ASSUME NEW f, \A n : ToPublish(f, n) <=> ToPublishNext(f, n)
  PROVE  FenceUnpublished(f)' = FenceUnpublished(f)
<1>1. \A n : n \in FenceUnpublished(f)' <=> n \in FenceUnpublished(f)
  BY UnpublishedElement
<1> DEFINE A == FenceUnpublished(f)'
           B == FenceUnpublished(f)
<1> HIDE DEF A, B
<1>2. A = B
  BY <1>1 DEF A, B
<1> QED
  BY <1>2 DEF A, B

\* Entries are added at the end.
LEMMA ExtendsPublishes ==
  ASSUME Types, NEW q \in Queues, NEW added, Extends(q, added), NEW f, NEW n
  PROVE  ToPublishNext(f, n) <=>
           ToPublish(f, n) \/ \E k \in DOMAIN added : SignalOf(added[k], f, n)
<1>1. \A r \in Queues : r # q => worker'[r] = worker[r]
  BY DEF Extends, WorkerOf
<1>2. ASSUME ToPublish(f, n) PROVE ToPublishNext(f, n)
  BY <1>1, <1>2, ExtendsFacts DEF ToPublish, ToPublishNext
<1>3. ASSUME NEW k \in DOMAIN added, SignalOf(added[k], f, n) PROVE ToPublishNext(f, n)
  BY <1>3, ExtendsFacts DEF ToPublishNext
<1>4. ASSUME ToPublishNext(f, n)
      PROVE  ToPublish(f, n) \/ \E k \in DOMAIN added : SignalOf(added[k], f, n)
  <2>1. PICK r \in Queues : \E i \in DOMAIN worker'[r] : SignalOf(worker'[r][i], f, n)
    BY <1>4 DEF ToPublishNext
  <2>2. PICK i \in DOMAIN worker'[r] : SignalOf(worker'[r][i], f, n)
    BY <2>1
  <2>3. CASE r # q
    BY <1>1, <2>2, <2>3 DEF ToPublish
  <2>4. CASE r = q /\ i \in DOMAIN worker[q]
    <3>1. worker'[q][i] = worker[q][i]
      BY <2>4, ExtendsFacts
    <3> QED
      BY <2>2, <2>4, <3>1 DEF ToPublish
  <2>5. CASE r = q /\ i \notin DOMAIN worker[q]
    <3>1. \E k \in DOMAIN added : worker'[q][i] = added[k]
      BY <2>2, <2>5, ExtendsFacts
    <3> QED
      BY <2>2, <2>5, <3>1
  <2> QED
    BY <2>3, <2>4, <2>5
<1> QED
  BY <1>2, <1>3, <1>4

LEMMA OthersPublishNothing ==
  ASSUME Types, NEW q \in Queues, NEW added, Extends(q, added), NoSignal(added), NEW f
  PROVE  FenceUnpublished(f)' = FenceUnpublished(f)
<1>1. ASSUME NEW n PROVE ToPublish(f, n) <=> ToPublishNext(f, n)
  BY ExtendsPublishes DEF NoSignal, SignalOf
<1> QED
  BY <1>1, UnpublishedSame

LEMMA SignalIsPublishedLater ==
  ASSUME Types, NEW q \in Queues, NEW e, Extends(q, <<e>>), e.type = "signal", NEW f
  PROVE  /\ f = e.fence => FenceUnpublished(f)' = FenceUnpublished(f) \cup {e.update_count}
         /\ f # e.fence => FenceUnpublished(f)' = FenceUnpublished(f)
<1>1. \E k \in DOMAIN <<e>> : TRUE
  OBVIOUS
<1>2. \A k \in DOMAIN <<e>> : <<e>>[k] = e
  OBVIOUS
<1> DEFINE a == <<e>>
<1>3. Extends(q, a) /\ (\E k \in DOMAIN a : TRUE) /\ \A k \in DOMAIN a : a[k] = e
  BY <1>1, <1>2
<1> HIDE DEF a
<1>4. ASSUME NEW n
      PROVE  ToPublishNext(f, n) <=> ToPublish(f, n) \/ SignalOf(e, f, n)
  BY <1>3, ExtendsPublishes
<1>5. CASE f # e.fence
  <2>1. \A n : ToPublish(f, n) <=> ToPublishNext(f, n)
    BY <1>4, <1>5 DEF SignalOf
  <2> QED
    BY <1>5, <2>1, UnpublishedSame
<1>6. CASE f = e.fence
  <2>1. \A n : n \in FenceUnpublished(f)' <=> n \in FenceUnpublished(f) \/ n = e.update_count
    BY <1>4, <1>6, UnpublishedElement DEF SignalOf
  <2> DEFINE A == FenceUnpublished(f)'
             B == FenceUnpublished(f)
  <2>2. A = B \cup {e.update_count}
    <3> HIDE DEF A, B
    <3> QED
      BY <2>1 DEF A, B
  <2> QED
    BY <1>6, <2>2
<1> QED
  BY <1>5, <1>6

\* The head of a worker's entries goes.
LEMMA RetirePublishes ==
  ASSUME Types, NEW q \in Queues, NEW type, Retire(q, type), NEW f, NEW n
  PROVE  /\ ToPublishNext(f, n) => ToPublish(f, n)
         /\ ToPublish(f, n) => ToPublishNext(f, n) \/ SignalOf(Head(worker[q]), f, n)
         /\ SignalsUnique /\ SignalOf(Head(worker[q]), f, n) => ~ ToPublishNext(f, n)
<1>1. \A r \in Queues : r # q => worker'[r] = worker[r]
  BY RetireFacts DEF WorkerOf
<1>2. ASSUME ToPublishNext(f, n)
      PROVE  \E r \in Queues : \E i \in DOMAIN worker[r] :
               SignalOf(worker[r][i], f, n) /\ (r = q => i # 1)
  <2>1. PICK r \in Queues : \E i \in DOMAIN worker'[r] : SignalOf(worker'[r][i], f, n)
    BY <1>2 DEF ToPublishNext
  <2>2. PICK i \in DOMAIN worker'[r] : SignalOf(worker'[r][i], f, n)
    BY <2>1
  <2>3. CASE r # q
    BY <1>1, <2>2, <2>3
  <2>4. CASE r = q
    <3>1. i \in Nat \ {0} /\ i + 1 \in DOMAIN worker[q] /\ worker'[q][i] = worker[q][i + 1]
      BY <2>2, <2>4, RetireFacts
    <3>2. i + 1 # 1
      BY <3>1
    <3> QED
      BY <2>2, <2>4, <3>1, <3>2
  <2> QED
    BY <2>3, <2>4
<1>3. ASSUME ToPublish(f, n), ~ SignalOf(Head(worker[q]), f, n)
      PROVE  ToPublishNext(f, n)
  <2>1. PICK r \in Queues : \E i \in DOMAIN worker[r] : SignalOf(worker[r][i], f, n)
    BY <1>3 DEF ToPublish
  <2>2. PICK i \in DOMAIN worker[r] : SignalOf(worker[r][i], f, n)
    BY <2>1
  <2>3. CASE r # q
    BY <1>1, <2>2, <2>3 DEF ToPublishNext
  <2>4. CASE r = q
    <3>1. i # 1
      BY <1>3, <2>2, <2>4, RetireFacts
    <3>2. i - 1 \in DOMAIN worker'[q] /\ worker'[q][i - 1] = worker[q][i]
      BY <2>2, <2>4, <3>1, RetireFacts
    <3> QED
      BY <2>2, <2>4, <3>2 DEF ToPublishNext
  <2> QED
    BY <2>3, <2>4
<1>4. ASSUME SignalsUnique, SignalOf(Head(worker[q]), f, n), ToPublishNext(f, n)
      PROVE  FALSE
  <2>1. PICK r \in Queues : \E i \in DOMAIN worker[r] :
               SignalOf(worker[r][i], f, n) /\ (r = q => i # 1)
    BY <1>2, <1>4
  <2>2. PICK i \in DOMAIN worker[r] : SignalOf(worker[r][i], f, n) /\ (r = q => i # 1)
    BY <2>1
  <2>3. 1 \in DOMAIN worker[q] /\ SignalOf(worker[q][1], f, n)
    BY <1>4, RetireFacts
  <2> QED
    BY <1>4, <2>2, <2>3 DEF SignalsUnique, SignalOf
<1> QED
  BY <1>2, <1>3, <1>4 DEF ToPublish

LEMMA RetireUnpublished ==
  ASSUME Types, SignalsUnique, NEW q \in Queues, NEW type, Retire(q, type), NEW f
  PROVE  LET e == Head(worker[q])
         IN  /\ type = "signal" /\ f = e.fence =>
                  /\ FenceUnpublished(f)' = FenceUnpublished(f) \ {e.update_count}
                  /\ e.update_count \in FenceUnpublished(f)
             /\ type # "signal" \/ f # e.fence => FenceUnpublished(f)' = FenceUnpublished(f)
<1> DEFINE e == Head(worker[q])
<1>1. e.type = type /\ 1 \in DOMAIN worker[q] /\ e = worker[q][1]
  BY RetireFacts
<1> HIDE DEF e
<1>2. \A n : /\ ToPublishNext(f, n) => ToPublish(f, n)
             /\ ToPublish(f, n) => ToPublishNext(f, n) \/ SignalOf(e, f, n)
             /\ SignalOf(e, f, n) => ~ ToPublishNext(f, n)
  BY RetirePublishes DEF e
<1>3. CASE type # "signal" \/ f # e.fence
  <2>1. \A n : ToPublish(f, n) <=> ToPublishNext(f, n)
    BY <1>1, <1>2, <1>3 DEF SignalOf
  <2>2. FenceUnpublished(f)' = FenceUnpublished(f)
    BY <2>1, UnpublishedSame
  <2> QED
    BY <1>3, <2>2 DEF e
<1>4. CASE type = "signal" /\ f = e.fence
  <2>1. \A n : n \in FenceUnpublished(f)' <=> n \in FenceUnpublished(f) /\ n # e.update_count
    BY <1>1, <1>2, <1>4, UnpublishedElement DEF SignalOf
  <2> DEFINE A == FenceUnpublished(f)'
             B == FenceUnpublished(f)
  <2>2. A = B \ {e.update_count}
    <3> HIDE DEF A, B
    <3> QED
      BY <2>1 DEF A, B
  <2>3. ToPublish(f, e.update_count)
    BY <1>1, <1>4 DEF ToPublish, SignalOf
  <2> QED
    BY <1>4, <2>2, <2>3, UnpublishedElement DEF e
<1> QED
  BY <1>3, <1>4 DEF e

LEMMA SignalsStayUnique ==
  ASSUME Inv, OrdersKnown, SignalsUnique, Next
  PROVE  SignalsUnique'
<1> DEFINE Same(d, e) == /\ d.type = "signal" /\ e.type = "signal"
                         /\ d.fence = e.fence /\ d.update_count = e.update_count
<1> SUFFICES ASSUME NEW q \in Queues, NEW r \in Queues,
                    NEW i \in DOMAIN worker'[q], NEW j \in DOMAIN worker'[r],
                    Same(worker'[q][i], worker'[r][j])
             PROVE  q = r /\ i = j
  BY DEF SignalsUnique
<1>1. Types /\ EntriesMatch
  BY DEF Inv
<1>2. ASSUME NEW k \in DOMAIN worker[q], NEW l \in DOMAIN worker[r],
             Same(worker[q][k], worker[r][l])
      PROVE  q = r /\ k = l
  BY <1>2 DEF SignalsUnique
<1>3. CASE worker' = worker
  BY <1>2, <1>3
<1>4. ASSUME NEW x \in Queues, NEW type, Retire(x, type)
      PROVE  q = r /\ i = j
  <2>1. ASSUME NEW y \in Queues, NEW k \in DOMAIN worker'[y]
        PROVE  /\ y # x => k \in DOMAIN worker[y] /\ worker'[y][k] = worker[y][k]
               /\ y = x => k \in Nat /\ k + 1 \in DOMAIN worker[y] /\ worker'[y][k] = worker[y][k + 1]
    <3>1. CASE y # x
      <4>1. worker'[y] = worker[y]
        BY <1>1, <1>4, <3>1, RetireFacts DEF WorkerOf
      <4> QED
        BY <2>1, <3>1, <4>1
    <3>2. CASE y = x
      BY <1>1, <1>4, <2>1, <3>2, RetireFacts
    <3> QED
      BY <3>1, <3>2
  <2>2. PICK k \in DOMAIN worker[q] : worker'[q][i] = worker[q][k]
                                        /\ (q = x => i \in Nat /\ k = i + 1) /\ (q # x => k = i)
    BY <2>1
  <2>3. PICK l \in DOMAIN worker[r] : worker'[r][j] = worker[r][l]
                                        /\ (r = x => j \in Nat /\ l = j + 1) /\ (r # x => l = j)
    BY <2>1
  <2>4. q = r /\ k = l
    BY <1>2, <2>2, <2>3
  <2> QED
    BY <2>2, <2>3, <2>4
<1>5. ASSUME NEW x \in Queues, NEW added, Extends(x, added),
             NEW y \in Queues, NEW k \in DOMAIN worker'[y]
      PROVE  \/ k \in DOMAIN worker[y] /\ worker'[y][k] = worker[y][k]
             \/ /\ y = x /\ k \notin DOMAIN worker[x]
                /\ \E m \in DOMAIN added : worker'[y][k] = added[m]
  <2>1. CASE y # x
    <3>1. worker'[y] = worker[y]
      BY <1>5, <2>1 DEF Extends, WorkerOf
    <3> QED
      BY <1>5, <3>1
  <2>2. CASE y = x
    BY <1>1, <1>5, <2>2, ExtendsFacts
  <2> QED
    BY <2>1, <2>2
<1>6. ASSUME NEW x \in Queues, NEW added, Extends(x, added), NoSignal(added)
      PROVE  q = r /\ i = j
  <2>1. \/ i \in DOMAIN worker[q] /\ worker'[q][i] = worker[q][i]
        \/ \E m \in DOMAIN added : worker'[q][i] = added[m]
    BY <1>5, <1>6
  <2>2. \/ j \in DOMAIN worker[r] /\ worker'[r][j] = worker[r][j]
        \/ \E m \in DOMAIN added : worker'[r][j] = added[m]
    BY <1>5, <1>6
  <2> QED
    BY <1>2, <1>6, <2>1, <2>2 DEF NoSignal
<1>7. ASSUME NEW x \in Queues, AddsSignal(x)
      PROVE  q = r /\ i = j
  <2> DEFINE f == Current(x).fence
             n == fences[f].update_count
             e == SignalEntry(f, n + 1, VkQueueOf[x], last_value[x])
             a == <<e>>
             L == Len(worker[x])
  <2>1. Extends(x, a) /\ f \in Fences
    BY <1>7 DEF AddsSignal
  <2>2. n \in Nat
    BY <1>1, <2>1, FenceFields DEF Types
  <2>3. e.fence = f /\ e.update_count = n + 1
    BY DEF SignalEntry
  <2>4. \A m \in DOMAIN a : a[m] = e
    OBVIOUS
  <2>5. L \in Nat /\ DOMAIN worker[x] = 1..L /\ DOMAIN worker'[x] = 1..(L + 1)
    <3>1. worker[x] \in Seq(Entry) /\ a \in Seq(Entry) /\ worker'[x] = worker[x] \o a
      BY <1>1, <2>1 DEF Types, Extends
    <3>2. Len(a) = 1
      OBVIOUS
    <3> HIDE DEF a
    <3>3. worker[x] \o a \in Seq(Entry) /\ Len(worker[x] \o a) = L + Len(a)
      BY <3>1, ConcatProperties
    <3>4. /\ L \in Nat /\ DOMAIN worker[x] = 1..L
          /\ DOMAIN worker'[x] = 1..Len(worker'[x])
      BY <3>1, <3>3, LenProperties
    <3> QED
      BY <3>1, <3>2, <3>3, <3>4
  <2> HIDE DEF e, n, f, a, L
  <2>6. ASSUME NEW y \in Queues, NEW k \in DOMAIN worker[y],
               worker[y][k].type = "signal", worker[y][k].fence = f
        PROVE  worker[y][k].update_count # n + 1
    <3>1. worker[y][k].update_count \in 1..n
      BY <1>1, <2>6 DEF EntriesMatch, n
    <3> QED
      BY <2>2, <3>1
  <2>7. \/ i \in DOMAIN worker[q] /\ worker'[q][i] = worker[q][i]
        \/ q = x /\ i \notin DOMAIN worker[x] /\ worker'[q][i] = e
    BY <1>5, <2>1, <2>4
  <2>8. \/ j \in DOMAIN worker[r] /\ worker'[r][j] = worker[r][j]
        \/ r = x /\ j \notin DOMAIN worker[x] /\ worker'[r][j] = e
    BY <1>5, <2>1, <2>4
  <2>9. CASE /\ i \in DOMAIN worker[q] /\ worker'[q][i] = worker[q][i]
             /\ j \in DOMAIN worker[r] /\ worker'[r][j] = worker[r][j]
    BY <1>2, <2>9
  <2>10. CASE /\ q = x /\ i \notin DOMAIN worker[x] /\ r = x /\ j \notin DOMAIN worker[x]
    BY <2>5, <2>10
  <2>11. CASE /\ i \in DOMAIN worker[q] /\ worker'[q][i] = worker[q][i]
              /\ worker'[r][j] = e
    BY <2>3, <2>6, <2>11
  <2>12. CASE /\ j \in DOMAIN worker[r] /\ worker'[r][j] = worker[r][j]
              /\ worker'[q][i] = e
    BY <2>3, <2>6, <2>12
  <2> QED
    BY <2>7, <2>8, <2>9, <2>10, <2>11, <2>12
<1> QED
  BY <1>3, <1>4, <1>6, <1>7, WorkerMoves DEF AddsOthers

-----------------------------------------------------------------------------
(* The bounds: a program has so many calls.                                *)

\* The calls that were made, those of them whose command is finished, and those
\* whose command is finished or has at least submitted its waits.
Made == {w \in Works : w[2] < next[w[1]]}

Handled == {w \in Made : \A i \in DOMAIN submissions[w[1]] : submissions[w[1]][i].id # w[2]}

Spent ==
  {w \in Made : \A i \in DOMAIN submissions[w[1]] :
                  submissions[w[1]][i].id = w[2] => i = 1 /\ thread[w[1]] = "flushed"}

\* A Wait takes one ticket, a Signal one update, and a command submits at most once.
Bounded ==
  /\ \A f \in Fences : /\ fences[f].wait_ticket_counter <= Cardinality(Made)
                       /\ fences[f].update_count <= Cardinality(Handled)
  /\ \A t \in VkQueues : timeline_count[t] <= Cardinality(Spent)

LEMMA CountGrows ==
  ASSUME IsFiniteSet(Works), NEW A \in SUBSET Works, NEW B \in SUBSET Works, A \subseteq B,
         NEW n \in Nat, n <= Cardinality(A), NEW m \in Nat,
         m <= n \/ (m <= n + 1 /\ \E x \in B : x \notin A)
  PROVE  m <= Cardinality(B) /\ Cardinality(B) \in Nat
<1>1. IsFiniteSet(A) /\ IsFiniteSet(B)
  BY FS_Subset
<1>2. /\ Cardinality(A) \in Nat /\ Cardinality(B) \in Nat
      /\ Cardinality(A) <= Cardinality(B)
  BY <1>1, FS_CardinalityType, FS_Subset
<1>3. CASE m <= n
  BY <1>2, <1>3
<1>4. CASE m <= n + 1 /\ \E x \in B : x \notin A
  <2>1. PICK x \in B : x \notin A
    BY <1>4
  <2> DEFINE C == A \cup {x}
  <2>2. IsFiniteSet(C) /\ Cardinality(C) = Cardinality(A) + 1
    BY <1>1, <2>1, FS_AddElement
  <2>3. C \subseteq B
    BY <2>1
  <2> HIDE DEF C
  <2>4. Cardinality(C) <= Cardinality(B)
    BY <1>1, <2>3, FS_Subset
  <2> QED
    BY <1>2, <1>4, <2>2, <2>4
<1> QED
  BY <1>3, <1>4

\* The call a thread is at.
LEMMA HeadIsNotDone ==
  ASSUME Inv, NEW q \in Queues, submissions[q] # <<>>
  PROVE  LET w == <<q, Head(submissions[q]).id>>
         IN  /\ w \in Works /\ w \in Made /\ w \notin Handled
             /\ thread[q] # "flushed" => w \notin Spent
<1> DEFINE w == <<q, Head(submissions[q]).id>>
<1>1. Types /\ CommandsInOrder
  BY DEF Inv
<1>2. /\ 1 \in DOMAIN submissions[q] /\ Head(submissions[q]) = submissions[q][1]
      /\ w \in Works
  BY <1>1, CommandFacts
<1>3. submissions[q][1].id < next[q]
  BY <1>1, <1>2 DEF CommandsInOrder
<1>4. w[1] = q /\ w[2] = submissions[q][1].id
  BY <1>2
<1> HIDE DEF w
<1>5. w \in Made
  BY <1>2, <1>3, <1>4 DEF Made
<1>6. w \notin Handled
  BY <1>2, <1>4 DEF Handled
<1>7. thread[q] # "flushed" => w \notin Spent
  BY <1>2, <1>4 DEF Spent
<1> QED
  BY <1>2, <1>5, <1>6, <1>7 DEF w

\* The call that is made next.
LEMMA NextIsNotMade ==
  ASSUME Inv, NEW q \in Queues, next[q] \in DOMAIN program[q]
  PROVE  <<q, next[q]>> \in Works /\ <<q, next[q]>> \notin Made
<1> DEFINE w == <<q, next[q]>>
<1>1. program \in Programs /\ next[q] \in Nat
  BY DEF Inv, Types
<1>2. next[q] \in Indices
  BY <1>1 DEF Indices
<1>3. w \in Works /\ w[1] = q /\ w[2] = next[q]
  BY <1>2 DEF Works
<1> HIDE DEF w
<1>4. w \notin Made
  BY <1>1, <1>3 DEF Made
<1> QED
  BY <1>3, <1>4 DEF w

\* A thread that has submitted the waits before a Signal makes the Signal.
LEMMA FlushedStays ==
  ASSUME Inv, Next, NEW r \in Queues, thread[r] = "flushed"
  PROVE  thread'[r] = "flushed" \/ SignalFence(r)
<1>1. thread \in [Queues -> {"ready", "asleep", "awake", "cpu_wait", "flushed"}] /\ Types
  BY DEF Inv, Types
<1>2. ASSUME NEW f, thread' = Woken(f) PROVE thread'[r] = "flushed"
  BY <1>2 DEF Woken
<1>3. ASSUME NEW q \in Queues, Application(q) PROVE thread'[r] = "flushed"
  <2>1. thread' = thread \/ \E f : thread' = Woken(f)
    BY <1>3 DEF Application, ApiExecute, ApiSignal, ApiWait, ApiCpuSignal, ApiRelease
  <2> QED
    BY <1>2, <2>1
<1>4. ASSUME NEW q \in Queues, FenceWorker(q) PROVE thread'[r] = "flushed"
  <2>1. thread' = thread \/ \E f : thread' = Woken(f)
    BY <1>4 DEF FenceWorker, RetireSignal, RetireOrder, RetireRelease, thread_vars
  <2> QED
    BY <1>2, <2>1
<1>5. ASSUME NEW t \in VkQueues, GpuExecutes(t) PROVE thread'[r] = "flushed"
  BY <1>5 DEF GpuExecutes, thread_vars
<1>6. ASSUME NEW q \in Queues, SubmissionThread(q)
      PROVE  thread'[r] = "flushed" \/ SignalFence(r)
  <2>1. CASE WaitAlreadySatisfied(q)
    BY <1>1, <2>1 DEF WaitAlreadySatisfied, InWait
  <2>2. CASE WaitSleeps(q)
    BY <1>1, <2>2 DEF WaitSleeps, InWait
  <2>3. CASE WaitOnOwnVkQueue(q)
    BY <1>1, <2>3 DEF WaitOnOwnVkQueue, Materialises, InWait
  <2>4. CASE WaitDeferred(q)
    BY <1>1, <2>4 DEF WaitDeferred, OnOtherVkQueue, Materialises, InWait
  <2>5. CASE WaitOnCpu(q)
    BY <1>1, <2>5 DEF WaitOnCpu, OnOtherVkQueue, Materialises, InWait
  <2>6. CASE CpuWaitReturns(q)
    BY <1>1, <2>6 DEF CpuWaitReturns
  <2>7. CASE FlushWaiters(q)
    BY <1>1, <2>7 DEF FlushWaiters
  <2>8. CASE SignalFence(q)
    <3>1. CASE r = q
      BY <2>8, <3>1
    <3>2. CASE r # q
      <4> DEFINE W == Woken(Current(q).fence)
      <4>1. thread' = [W EXCEPT ![q] = "ready"] /\ W[r] = "flushed"
        BY <2>8 DEF SignalFence, Woken
      <4>2. W \in [Queues -> {"ready", "asleep", "awake", "cpu_wait", "flushed"}]
        BY <1>1, WokenFacts
      <4> HIDE DEF W
      <4> QED
        BY <3>2, <4>1, <4>2
    <3> QED
      BY <3>1, <3>2
  <2>9. CASE Execute(q)
    BY <2>9 DEF Execute
  <2> QED
    BY <1>6, <2>1, <2>2, <2>3, <2>4, <2>5, <2>6, <2>7, <2>8, <2>9 DEF SubmissionThread
<1> QED
  BY <1>3, <1>4, <1>5, <1>6 DEF Next

-----------------------------------------------------------------------------
(* What a step does to the bounds.                                         *)

\* What a step makes of the commands of q.
LEMMA CallStep ==
  ASSUME Inv, Next, NEW q \in Queues
  PROVE  /\ next[q] \in Nat /\ next'[q] \in Nat /\ next[q] <= next'[q]
         /\ \A i \in DOMAIN submissions'[q] :
              \/ i \in DOMAIN submissions[q] /\ submissions'[q][i] = submissions[q][i]
              \/ submissions'[q][i].id = next[q]
              \/ /\ i \in Nat \ {0} /\ i + 1 \in DOMAIN submissions[q]
                 /\ submissions'[q][i] = submissions[q][i + 1]
<1> DEFINE Steps == \A i \in DOMAIN submissions'[q] :
              \/ i \in DOMAIN submissions[q] /\ submissions'[q][i] = submissions[q][i]
              \/ submissions'[q][i].id = next[q]
              \/ /\ i \in Nat \ {0} /\ i + 1 \in DOMAIN submissions[q]
                 /\ submissions'[q][i] = submissions[q][i + 1]
<1>1. Types /\ CommandsInOrder /\ next \in [Queues -> Nat \ {0}]
  BY DEF Inv, Types
<1>2. submissions'[q] = submissions[q] => Steps
  OBVIOUS
<1>3. CASE UNCHANGED <<next, submissions>>
  BY <1>1, <1>2, <1>3
<1>4. ASSUME NEW r \in Queues, NEW ticket \in Nat, Queued(r, ticket)
      PROVE  next[q] <= next'[q] /\ next'[q] \in Nat /\ Steps
  <2>1. /\ next'[r] = next[r] + 1
        /\ \A x \in Queues : x # r => submissions'[x] = submissions[x] /\ next'[x] = next[x]
    BY <1>1, <1>4, QueuedFacts
  <2>2. next[q] <= next'[q] /\ next'[q] \in Nat
    BY <1>1, <2>1
  <2>3. CASE q # r
    BY <1>2, <2>1, <2>2, <2>3
  <2>4. CASE q = r
    <3>1. DOMAIN submissions[q] = 1..Len(submissions[q]) /\ Len(submissions[q]) \in Nat
      BY <1>1, CommandFacts
    <3> DEFINE L == Len(submissions[q])
    <3>2. /\ DOMAIN submissions'[q] = 1..(L + 1)
          /\ \A i \in DOMAIN submissions[q] : submissions'[q][i] = submissions[q][i]
          /\ submissions'[q][L + 1] = [id |-> next[q], ticket |-> ticket]
      BY <1>1, <1>4, <2>4, QueuedFacts
    <3>3. submissions'[q][L + 1].id = next[q]
      BY <3>2
    <3> HIDE DEF L
    <3>4. L \in Nat /\ DOMAIN submissions[q] = 1..L
      BY <3>1 DEF L
    <3>5. \A i \in DOMAIN submissions'[q] : i = L + 1 \/ i \in DOMAIN submissions[q]
      BY <3>2, <3>4
    <3> QED
      BY <2>2, <3>2, <3>3, <3>5
  <2> QED
    BY <2>3, <2>4
<1>5. ASSUME NEW r \in Queues, Skipped(r)
      PROVE  next[q] <= next'[q] /\ next'[q] \in Nat /\ Steps
  <2>1. submissions' = submissions /\ next' = [next EXCEPT ![r] = next[r] + 1]
    BY <1>5 DEF Skipped
  <2> HIDE DEF Steps
  <2> QED
    BY <1>1, <1>2, <2>1
<1>6. ASSUME NEW r \in Queues, Finished(r)
      PROVE  next[q] <= next'[q] /\ next'[q] \in Nat /\ Steps
  <2>1. next' = next
    BY <1>6 DEF Finished
  <2>2. CASE q # r
    <3>1. submissions'[q] = submissions[q]
      BY <1>1, <1>6, <2>2, FinishedFacts
    <3> HIDE DEF Steps
    <3> QED
      BY <1>1, <1>2, <2>1, <3>1
  <2>3. CASE q = r
    <3> DEFINE L == Len(submissions[q])
    <3>1. /\ L \in Nat \ {0} /\ DOMAIN submissions[q] = 1..L
          /\ DOMAIN submissions'[q] = 1..(L - 1)
          /\ \A i \in DOMAIN submissions'[q] : submissions'[q][i] = submissions[q][i + 1]
      BY <1>1, <1>6, <2>3, FinishedFacts
    <3> HIDE DEF L
    <3>2. \A i \in DOMAIN submissions'[q] : i \in Nat \ {0} /\ i + 1 \in DOMAIN submissions[q]
      BY <3>1
    <3> QED
      BY <1>1, <2>1, <3>1, <3>2
  <2> QED
    BY <2>2, <2>3
<1> HIDE DEF Steps
<1>7. next[q] <= next'[q] /\ next'[q] \in Nat /\ Steps
  BY <1>1, <1>2, <1>3, <1>4, <1>5, <1>6, CommandStep
<1> QED
  BY <1>1, <1>7 DEF Steps

LEMMA IndicesAreNatural == Indices \subseteq Nat
<1> SUFFICES ASSUME NEW k \in Indices PROVE k \in Nat
  OBVIOUS
<1>1. PICK p \in Programs : \E q \in Queues : k \in DOMAIN p[q]
  BY DEF Indices
<1>2. PICK q \in Queues : k \in DOMAIN p[q]
  BY <1>1
<1>3. p[q] \in Seq(Call)
  BY QueuesAssumption
<1> QED
  BY <1>2, <1>3, LenProperties

\* The sets that bound the counters grow.
LEMMA BoundsGrow ==
  ASSUME Inv, Next
  PROVE  Made \subseteq Made' /\ Handled \subseteq Handled' /\ Spent \subseteq Spent'
<1>1. Types /\ CommandsInOrder /\ thread \in [Queues -> {"ready", "asleep", "awake", "cpu_wait", "flushed"}]
  BY DEF Inv, Types
<1>2. ASSUME NEW w \in Made
      PROVE  w[1] \in Queues /\ w[2] < next[w[1]] /\ w[2] \in Nat /\ w \in Made'
  <2>1. w \in Works /\ w[2] < next[w[1]] /\ w[1] \in Queues
    BY <1>2 DEF Made, Works
  <2>2. w[2] \in Nat
    <3>1. w[2] \in Indices
      BY <2>1 DEF Works
    <3> QED
      BY <3>1, IndicesAreNatural
  <2>3. next[w[1]] \in Nat /\ next'[w[1]] \in Nat /\ next[w[1]] <= next'[w[1]]
    BY <2>1, CallStep
  <2>4. w[2] < next'[w[1]]
    BY <2>1, <2>2, <2>3
  <2> QED
    BY <2>1, <2>2, <2>4 DEF Made, Works, Indices
<1>3. ASSUME NEW w \in Handled PROVE w \in Handled'
  <2>1. w \in Made /\ \A i \in DOMAIN submissions[w[1]] : submissions[w[1]][i].id # w[2]
    BY <1>3 DEF Handled
  <2>2. next[w[1]] \in Nat
    BY <1>2, <2>1, CallStep
  <2>3. w[1] \in Queues /\ w[2] < next[w[1]] /\ w[2] \in Nat /\ w \in Made'
    BY <1>2, <2>1
  <2>4. w[2] # next[w[1]]
    BY <2>2, <2>3
  <2>5. ASSUME NEW i \in DOMAIN submissions'[w[1]] PROVE submissions'[w[1]][i].id # w[2]
    BY <2>1, <2>3, <2>4, CallStep
  <2> QED
    BY <2>3, <2>5 DEF Handled
<1>4. ASSUME NEW w \in Spent PROVE w \in Spent'
  <2> DEFINE q == w[1]
             k == w[2]
  <2>1. w \in Made /\ \A i \in DOMAIN submissions[q] : submissions[q][i].id = k => i = 1 /\ thread[q] = "flushed"
    BY <1>4 DEF Spent
  <2>2. q \in Queues /\ k < next[q] /\ k \in Nat /\ w \in Made' /\ next[q] \in Nat
    BY <1>2, <2>1, CallStep
  <2>3. k # next[q]
    BY <2>2
  <2> HIDE DEF q, k
  <2>4. ASSUME NEW i \in DOMAIN submissions'[q], submissions'[q][i].id = k
        PROVE  i = 1 /\ thread'[q] = "flushed"
    <3>1. ASSUME i \in Nat \ {0}, i + 1 \in DOMAIN submissions[q],
                 submissions'[q][i] = submissions[q][i + 1]
          PROVE  FALSE
      <4>1. i + 1 = 1
        BY <2>1, <2>4, <3>1
      <4> QED
        BY <3>1, <4>1
    <3>2. i \in DOMAIN submissions[q] /\ submissions'[q][i] = submissions[q][i]
      BY <2>2, <2>3, <2>4, <3>1, CallStep
    <3>3. i = 1 /\ thread[q] = "flushed"
      BY <2>1, <2>4, <3>2
    <3>4. ASSUME SignalFence(q) PROVE FALSE
      <4>1. submissions[q] # <<>>
        BY <1>1, <2>2, <3>3 DEF Inv, ThreadsAtWork, Has
      <4>2. Finished(q)
        BY <3>4, <4>1 DEF SignalFence, Finish, Finished, app_vars
      <4>3. /\ Len(submissions[q]) \in Nat /\ DOMAIN submissions[q] = 1..Len(submissions[q])
            /\ DOMAIN submissions'[q] = 1..(Len(submissions[q]) - 1)
            /\ submissions'[q][i] = submissions[q][i + 1]
        BY <1>1, <2>2, <2>4, <4>2, FinishedFacts
      <4>4. i \in Nat \ {0} /\ i + 1 \in DOMAIN submissions[q]
        BY <2>4, <4>3
      <4> QED
        BY <3>1, <4>3, <4>4
    <3> QED
      BY <2>2, <3>3, <3>4, FlushedStays
  <2>5. \A i \in DOMAIN submissions'[w[1]] :
          submissions'[w[1]][i].id = w[2] => i = 1 /\ thread'[w[1]] = "flushed"
    BY <2>4 DEF q, k
  <2> QED
    BY <2>2, <2>5 DEF Spent
<1> QED
  BY <1>2, <1>3, <1>4

\* The thread of q submits its waits before a Signal, or an execute with them.
LEMMA CountStep ==
  ASSUME Inv, Next
  PROVE  \/ timeline_count' = timeline_count
         \/ \E q \in Queues :
              /\ FlushWaiters(q) \/ Execute(q)
              /\ timeline_count' = [timeline_count EXCEPT ![VkQueueOf[q]] =
                                      timeline_count[VkQueueOf[q]] + 1]
<1>1. ASSUME NEW q \in Queues, Application(q) PROVE timeline_count' = timeline_count
  BY <1>1 DEF Application, ApiExecute, ApiSignal, ApiWait, ApiCpuSignal, ApiRelease, gpu_vars
<1>2. ASSUME NEW q \in Queues, FenceWorker(q) PROVE timeline_count' = timeline_count
  BY <1>2 DEF FenceWorker, RetireSignal, RetireOrder, RetireRelease, gpu_vars
<1>3. ASSUME NEW t \in VkQueues, GpuExecutes(t) PROVE timeline_count' = timeline_count
  BY <1>3 DEF GpuExecutes
<1>4. ASSUME NEW q \in Queues, SubmissionThread(q)
      PROVE  \/ timeline_count' = timeline_count
             \/ /\ FlushWaiters(q) \/ Execute(q)
                /\ timeline_count' = [timeline_count EXCEPT ![VkQueueOf[q]] =
                                        timeline_count[VkQueueOf[q]] + 1]
  <2>1. CASE FlushWaiters(q)
    BY <2>1 DEF FlushWaiters, submit
  <2>2. CASE Execute(q)
    BY <2>2 DEF Execute, submit
  <2>3. CASE ~ FlushWaiters(q) /\ ~ Execute(q)
    BY <1>4, <2>3 DEF SubmissionThread, WaitAlreadySatisfied, WaitSleeps, WaitOnOwnVkQueue,
      WaitDeferred, WaitOnCpu, CpuWaitReturns, SignalFence, gpu_vars
  <2> QED
    BY <2>1, <2>2, <2>3
<1> QED
  BY <1>1, <1>2, <1>3, <1>4 DEF Next

\* What a command adds when its thread is done with it, or has submitted its waits.
LEMMA FinishHandles ==
  ASSUME Inv, Next, NEW q \in Queues, Finished(q)
  PROVE  LET w == <<q, Head(submissions[q]).id>> IN w \in Handled' /\ w \notin Handled
<1> DEFINE w == <<q, Head(submissions[q]).id>>
           L == Len(submissions[q])
<1>0. submissions[q] # <<>>
  BY DEF Finished
<1>1. Types /\ CommandsInOrder
  BY DEF Inv
<1>2. w \in Made /\ w \notin Handled
  BY <1>0, HeadIsNotDone
<1>3. /\ L \in Nat \ {0} /\ DOMAIN submissions[q] = 1..L
      /\ DOMAIN submissions'[q] = 1..(L - 1)
      /\ \A i \in DOMAIN submissions'[q] : submissions'[q][i] = submissions[q][i + 1]
  BY <1>1, FinishedFacts
<1>4. /\ Head(submissions[q]) = submissions[q][1]
      /\ \A i \in DOMAIN submissions[q] : submissions[q][i].id \in Nat
  BY <1>0, <1>1, CommandFacts
<1>5. w[1] = q /\ w[2] = submissions[q][1].id
  BY <1>4
<1> HIDE DEF w, L
<1>6. ASSUME NEW i \in DOMAIN submissions'[q] PROVE submissions'[q][i].id # submissions[q][1].id
  <2>1. 1 \in DOMAIN submissions[q] /\ i + 1 \in DOMAIN submissions[q] /\ 1 < i + 1
    BY <1>3
  <2>2. submissions[q][1].id < submissions[q][i + 1].id
    BY <1>1, <2>1 DEF CommandsInOrder
  <2> QED
    BY <1>3, <1>4, <2>1, <2>2
<1>7. w \in Handled'
  BY <1>2, <1>5, <1>6, BoundsGrow DEF Handled
<1> QED
  BY <1>2, <1>7 DEF w

LEMMA SubmitSpends ==
  ASSUME Inv, Next, NEW q \in Queues, FlushWaiters(q) \/ Execute(q)
  PROVE  \E w \in Spent' : w \notin Spent
<1>1. Types /\ CommandsInOrder
  BY DEF Inv
<1>2. submissions[q] # <<>> /\ thread[q] = "ready" /\ thread \in [Queues -> {"ready", "asleep", "awake", "cpu_wait", "flushed"}]
  BY <1>1 DEF FlushWaiters, Execute, Has, Types
<1> DEFINE w == <<q, Head(submissions[q]).id>>
<1>3. w \in Made /\ w \notin Spent /\ w[1] = q /\ w[2] = Head(submissions[q]).id
  BY <1>2, HeadIsNotDone
<1> HIDE DEF w
<1>4. CASE Execute(q)
  <2>1. Finished(q)
    BY <1>2, <1>4 DEF Execute, Finish, Finished, app_vars
  <2>2. w \in Handled'
    BY <2>1, FinishHandles DEF w
  <2>3. w \in Spent'
    BY <2>2 DEF Handled, Spent
  <2> QED
    BY <1>3, <2>3
<1>5. CASE FlushWaiters(q)
  <2>1. submissions' = submissions /\ thread'[q] = "flushed"
    BY <1>2, <1>5 DEF FlushWaiters
  <2>2. /\ Head(submissions[q]) = submissions[q][1] /\ DOMAIN submissions[q] \subseteq Nat \ {0}
        /\ 1 \in DOMAIN submissions[q]
        /\ \A i \in DOMAIN submissions[q] : submissions[q][i].id \in Nat
    <3>1. /\ Head(submissions[q]) = submissions[q][1] /\ 1 \in DOMAIN submissions[q]
          /\ \A i \in DOMAIN submissions[q] : submissions[q][i].id \in Nat
      BY <1>1, <1>2, CommandFacts
    <3>2. DOMAIN submissions[q] = 1..Len(submissions[q]) /\ Len(submissions[q]) \in Nat
      BY <1>1, CommandFacts
    <3> QED
      BY <3>1, <3>2
  <2>3. ASSUME NEW i \in DOMAIN submissions[q], submissions[q][i].id = submissions[q][1].id
        PROVE  i = 1
    <3>1. ~ (1 < i)
      BY <1>1, <2>2, <2>3 DEF CommandsInOrder
    <3> QED
      BY <2>2, <3>1
  <2>4. w \in Spent'
    BY <1>3, <2>1, <2>2, <2>3, BoundsGrow DEF Spent
  <2> QED
    BY <1>3, <2>4
<1> QED
  BY <1>4, <1>5

LEMMA BoundedStays ==
  ASSUME IsFiniteSet(Works), Inv, Bounded, Next
  PROVE  Bounded'
<1>1. Types /\ CommandsInOrder /\ FencesInOrder /\ timeline_count \in [VkQueues -> Nat]
  BY DEF Inv, Types
<1> DEFINE A == Made
           B == Made'
           C == Handled
           D == Handled'
           E == Spent
           G == Spent'
<1>2. A \in SUBSET Works /\ B \in SUBSET Works /\ A \subseteq B
  BY BoundsGrow DEF Made, Works, Indices
<1>3. C \in SUBSET Works /\ D \in SUBSET Works /\ C \subseteq D
  BY <1>2, BoundsGrow DEF Handled
<1>4. E \in SUBSET Works /\ G \in SUBSET Works /\ E \subseteq G
  BY <1>2, BoundsGrow DEF Spent
<1> HIDE DEF A, B, C, D, E, G
<1>5. ASSUME NEW f \in Fences
      PROVE  /\ fences'[f].wait_ticket_counter <= Cardinality(B)
             /\ fences'[f].update_count <= Cardinality(D)
  <2> DEFINE n == fences[f].wait_ticket_counter
             m == fences'[f].wait_ticket_counter
             k == fences[f].update_count
             l == fences'[f].update_count
  <2>1. n \in Nat /\ k \in Nat /\ n <= Cardinality(A) /\ k <= Cardinality(C)
    BY <1>1, FenceFields DEF FencesInOrder, InOrder, Bounded, A, C
  <2>2. m \in Nat /\ l \in Nat
    BY FencesStayInOrder, FenceFields
  <2>3. (m = n \/ (m = n + 1 /\ \E x \in B : x \notin A)) /\ (l = k \/ (l = k + 1 /\ \E x \in D : x \notin C))
    <3>1. CASE FencesSettle
      BY <3>1 DEF FencesSettle, Settles
    <3>2. ASSUME NEW q \in Queues, ApiWait(q)
          PROVE  (m = n \/ (m = n + 1 /\ \E x \in B : x \notin A)) /\ l = k
      <4>1. /\ l = k /\ (f # NextCall(q).fence => m = n) /\ (f = NextCall(q).fence => m = n + 1)
            /\ Queued(q, fences'[NextCall(q).fence].wait_ticket_counter)
        BY <3>2, ApiWaitFacts
      <4>2. next[q] \in DOMAIN program[q] /\ next' = [next EXCEPT ![q] = next[q] + 1]
            /\ next \in [Queues -> Nat \ {0}]
        BY <1>1, <4>1 DEF Queued, Types
      <4> DEFINE x == <<q, next[q]>>
      <4>3. x \in Works /\ x \notin Made /\ x[1] = q /\ x[2] = next[q]
        BY <4>2, NextIsNotMade
      <4> HIDE DEF x
      <4>4. x[2] < next'[x[1]]
        BY <4>2, <4>3
      <4>5. x \in Made'
        BY <4>3, <4>4 DEF Made, Works, Indices
      <4> QED
        BY <4>1, <4>3, <4>5 DEF A, B
    <3>3. ASSUME NEW q \in Queues, SignalFence(q)
          PROVE  (l = k \/ (l = k + 1 /\ \E x \in D : x \notin C)) /\ m = n
      <4>1. /\ m = n /\ (f # Current(q).fence => l = k) /\ (f = Current(q).fence => l = k + 1)
            /\ Has(q, "signal")
        BY <3>3, SignalFenceFacts
      <4>2. Finished(q)
        BY <3>3, <4>1 DEF SignalFence, Finish, Finished, Has, app_vars
      <4>3. \E x \in D : x \notin C
        BY <4>2, FinishHandles DEF C, D
      <4> QED
        BY <4>1, <4>3
    <3> HIDE DEF m, n, k, l
    <3> QED
      BY <3>1, <3>2, <3>3, FenceStep
  <2> HIDE DEF m, n, k, l
  <2>4. m <= n \/ (m <= n + 1 /\ \E x \in B : x \notin A)
    BY <2>1, <2>2, <2>3
  <2>5. l <= k \/ (l <= k + 1 /\ \E x \in D : x \notin C)
    BY <2>1, <2>2, <2>3
  <2>6. m <= Cardinality(B)
    BY <1>2, <2>1, <2>2, <2>4, CountGrows
  <2>7. l <= Cardinality(D)
    BY <1>3, <2>1, <2>2, <2>5, CountGrows
  <2> QED
    BY <2>6, <2>7 DEF m, l
<1>6. ASSUME NEW t \in VkQueues
      PROVE  timeline_count'[t] <= Cardinality(G)
  <2> DEFINE n == timeline_count[t]
             m == timeline_count'[t]
  <2>1. n \in Nat /\ n <= Cardinality(E)
    BY <1>1 DEF Bounded, E
  <2>2. m = n \/ (m = n + 1 /\ \E x \in G : x \notin E)
    <3>1. CASE timeline_count' = timeline_count
      BY <3>1
    <3>2. ASSUME NEW q \in Queues, FlushWaiters(q) \/ Execute(q),
                 timeline_count' = [timeline_count EXCEPT ![VkQueueOf[q]] =
                                      timeline_count[VkQueueOf[q]] + 1]
          PROVE  m = n \/ (m = n + 1 /\ \E x \in G : x \notin E)
      <4>1. \E x \in G : x \notin E
        BY <3>2, SubmitSpends DEF E, G
      <4>2. m = n \/ m = n + 1
        BY <1>1, <3>2
      <4> QED
        BY <4>1, <4>2
    <3> HIDE DEF m, n
    <3> QED
      BY <3>1, <3>2, CountStep DEF m, n
  <2> HIDE DEF m, n
  <2>3. m \in Nat
    BY <2>1, <2>2
  <2>4. m <= n \/ (m <= n + 1 /\ \E x \in G : x \notin E)
    BY <2>1, <2>2, <2>3
  <2>5. m <= Cardinality(G)
    BY <1>4, <2>1, <2>3, <2>4, CountGrows
  <2> QED
    BY <2>5 DEF m
<1> QED
  BY <1>5, <1>6 DEF Bounded, B, D, G

-----------------------------------------------------------------------------
(* What a step does to the Waits of the calls, as a fence sees them.       *)

AllStay(f)  == \A q \in Queues : \A k : WaitNext(f, q, k) = WaitNow(f, q, k)
AllWake(f)  == \A q \in Queues : \A k : WaitNext(f, q, k) = Woke(WaitNow(f, q, k))

\* The Wait of call n of q becomes w, and no other changes.
OneBecomes(f, q, n, w) ==
  \A r \in Queues : \A k :
    WaitNext(f, r, k) = IF r = q /\ k = n THEN w ELSE WaitNow(f, r, k)

LEMMA CommandsAscend ==
  ASSUME Inv, NEW q \in Queues
  PROVE  submissions[q] \in Seq(Command) /\ Ascending(submissions[q])
BY DEF Inv, Types, CommandsInOrder, Ascending

LEMMA NothingMovesWaits ==
  ASSUME program' = program, submissions' = submissions, thread' = thread, NEW f
  PROVE  AllStay(f)
BY DEF AllStay, WaitNext, WaitNow

LEMMA WokenWaits ==
  ASSUME Inv, NEW g, submissions' = submissions, thread' = Woken(g), NEW f
  PROVE  (f = g => AllWake(f)) /\ (f # g => AllStay(f))
<1>1. ASSUME NEW q \in Queues, NEW k
      PROVE  /\ f = g => WaitNext(f, q, k) = Woke(WaitNow(f, q, k))
             /\ f # g => WaitNext(f, q, k) = WaitNow(f, q, k)
  <2> DEFINE p == program[q]
             s == submissions[q]
             th == thread[q]
             uh == thread'[q]
  <2>1. s \in Seq(Command) /\ Ascending(s)
    BY CommandsAscend
  <2>2. th = "asleep" => s # <<>> /\ p[Head(s).id].type = "wait"
    BY DEF Inv, ThreadsAtWork, Has
  <2>3. uh = IF th = "asleep" /\ p[Head(s).id].fence = g THEN "awake" ELSE th
    BY DEF Woken, Current
  <2>4. /\ WaitNow(f, q, k) = WaitOf(p, s, th, f, k)
        /\ WaitNext(f, q, k) = WaitOf(p, s, uh, f, k)
    BY DEF WaitNow, WaitNext
  <2> HIDE DEF p, s, th, uh
  <2>5. WakesFrom(p, s, th, uh, g)
    BY <2>2, <2>3 DEF WakesFrom
  <2>6. /\ f = g => WaitOf(p, s, uh, f, k) = Woke(WaitOf(p, s, th, f, k))
        /\ f # g => WaitOf(p, s, uh, f, k) = WaitOf(p, s, th, f, k)
    BY <2>1, <2>5, WaitWoken
  <2> QED
    BY <2>4, <2>6
<1> QED
  BY <1>1 DEF AllWake, AllStay

\* The Wait of the command at the head.
LEMMA HeadWait ==
  ASSUME Inv, NEW q \in Queues, submissions[q] # <<>>, NEW f
  PROVE  LET n == Head(submissions[q]).id
         IN  /\ IsWait(program[q], thread[q], f, n) =>
                  WaitNow(f, q, n) = Heading(program[q], submissions[q], thread[q])
             /\ ~ IsWait(program[q], thread[q], f, n) => WaitNow(f, q, n) = Idle
<1> DEFINE p == program[q]
           s == submissions[q]
           th == thread[q]
           n == Head(s).id
<1>1. s \in Seq(Command) /\ Ascending(s) /\ s # <<>>
  BY CommandsAscend
<1>2. WaitNow(f, q, n) = WaitOf(p, s, th, f, n)
  BY DEF WaitNow
<1>3. n = Head(s).id
  OBVIOUS
<1> HIDE DEF p, s, th, n
<1>4. /\ IsWait(p, th, f, n) => WaitOf(p, s, th, f, n) = Heading(p, s, th)
      /\ ~ IsWait(p, th, f, n) => WaitOf(p, s, th, f, n) = Idle
  BY <1>1, <1>3, WaitAtHead
<1> QED
  BY <1>2, <1>4 DEF p, s, th, n

\* The thread of q moves, at the command it is at.
LEMMA ThreadMovesWaits ==
  ASSUME Inv, NEW q \in Queues, submissions[q] # <<>>, submissions' = submissions,
         NEW th, thread' = [thread EXCEPT ![q] = th], NEW f
  PROVE  LET n == Head(submissions[q]).id
         IN  /\ IsWait(program[q], th, f, n) =>
                  OneBecomes(f, q, n, Heading(program[q], submissions[q], th))
             /\ ~ IsWait(program[q], th, f, n) => OneBecomes(f, q, n, Idle)
<1> DEFINE p == program[q]
           s == submissions[q]
           old == thread[q]
           n == Head(s).id
<1>0. thread \in [Queues -> {"ready", "asleep", "awake", "cpu_wait", "flushed"}]
  BY DEF Inv, Types
<1>1. s \in Seq(Command) /\ Ascending(s) /\ s # <<>>
  BY CommandsAscend
<1>2. \A k : WaitNext(f, q, k) = WaitOf(p, s, th, f, k) /\ WaitNow(f, q, k) = WaitOf(p, s, old, f, k)
  BY <1>0 DEF WaitNext, WaitNow
<1>3. \A r \in Queues : r # q => \A k : WaitNext(f, r, k) = WaitNow(f, r, k)
  BY <1>0 DEF WaitNext, WaitNow
<1>4. n = Head(s).id
  OBVIOUS
<1> HIDE DEF p, s, old, n
<1>5. /\ IsWait(p, th, f, n) => WaitOf(p, s, th, f, n) = Heading(p, s, th)
      /\ ~ IsWait(p, th, f, n) => WaitOf(p, s, th, f, n) = Idle
  BY <1>1, <1>4, WaitAtHead
<1>6. \A k : k # n => WaitOf(p, s, th, f, k) = WaitOf(p, s, old, f, k)
  BY <1>1, <1>4, WaitBehind
<1>7. ASSUME NEW w, WaitOf(p, s, th, f, n) = w
      PROVE  OneBecomes(f, q, n, w)
  BY <1>2, <1>3, <1>6, <1>7 DEF OneBecomes
<1> QED
  BY <1>5, <1>7 DEF p, s, n

\* The thread of q is done with the command it is at.
LEMMA FinishWaits ==
  ASSUME Inv, NEW q \in Queues, submissions[q] # <<>>, Finish(q),
         thread'[q] = "ready", NEW f,
         \A r \in Queues : r # q => thread'[r] = thread[r]
  PROVE  OneBecomes(f, q, Head(submissions[q]).id, Idle)
<1> DEFINE p == program[q]
           s == submissions[q]
           old == thread[q]
           n == Head(s).id
<1>0. submissions \in [Queues -> Seq(Command)]
  BY DEF Inv, Types
<1>1. s \in Seq(Command) /\ Ascending(s) /\ s # <<>>
  BY CommandsAscend
<1>2. \A k : /\ WaitNext(f, q, k) = WaitOf(p, Tail(s), "ready", f, k)
             /\ WaitNow(f, q, k) = WaitOf(p, s, old, f, k)
  BY <1>0 DEF WaitNext, WaitNow, Finish
<1>3. \A r \in Queues : r # q => \A k : WaitNext(f, r, k) = WaitNow(f, r, k)
  BY <1>0 DEF WaitNext, WaitNow, Finish
<1>4. n = Head(s).id
  OBVIOUS
<1> HIDE DEF p, s, old, n
<1>5. \A k : /\ k = Head(s).id => WaitOf(p, Tail(s), "ready", f, k) = Idle
             /\ k # Head(s).id => WaitOf(p, Tail(s), "ready", f, k) = WaitOf(p, s, old, f, k)
  BY <1>1, WaitFinishes
<1>6. OneBecomes(f, q, n, Idle)
  BY <1>2, <1>3, <1>4, <1>5 DEF OneBecomes
<1> QED
  BY <1>6 DEF n, s

\* A Wait that does not change.
LEMMA OneStays ==
  ASSUME NEW f, NEW q \in Queues, NEW n, NEW w, OneBecomes(f, q, n, w), WaitNow(f, q, n) = w
  PROVE  AllStay(f)
BY DEF OneBecomes, AllStay

\* A call of q is queued.
LEMMA QueuedWaits ==
  ASSUME Inv, NEW q \in Queues, NEW ticket \in Nat, Queued(q, ticket), thread' = thread, NEW f
  PROVE  LET n == next[q]
             call == program[q][n]
         IN  /\ WaitNow(f, q, n) = Idle
             /\ ~ (call.type = "wait" /\ call.fence = f) => OneBecomes(f, q, n, Idle)
             /\ call.type = "wait" /\ call.fence = f => OneBecomes(f, q, n, Fresh(call, ticket))
<1> DEFINE p == program[q]
           s == submissions[q]
           th == thread[q]
           n == next[q]
<1>0. submissions \in [Queues -> Seq(Command)] /\ Types /\ CommandsInOrder /\ n \in Nat
  BY DEF Inv, Types
<1>1. s \in Seq(Command) /\ Ascending(s)
  BY CommandsAscend
<1>2. PICK c : c = [id |-> next[q], ticket |-> ticket]
  OBVIOUS
<1>3. c \in Command /\ c.id = n /\ c.ticket = ticket
  BY <1>0, <1>2 DEF Command
<1>4. submissions' = [submissions EXCEPT ![q] = Append(s, c)]
  BY <1>2 DEF Queued
<1>5. \A k : /\ WaitNext(f, q, k) = WaitOf(p, Append(s, c), th, f, k)
             /\ WaitNow(f, q, k) = WaitOf(p, s, th, f, k)
  BY <1>0, <1>4 DEF WaitNext, WaitNow
<1>6. \A r \in Queues : r # q => \A k : WaitNext(f, r, k) = WaitNow(f, r, k)
  BY <1>0, <1>4 DEF WaitNext, WaitNow
<1>7. \A i \in DOMAIN s : s[i].id < c.id
  BY <1>0, <1>3 DEF CommandsInOrder
<1>8. s = <<>> => th \notin {"asleep", "awake", "cpu_wait"}
  BY DEF Inv, ThreadsAtWork, Has
<1> HIDE DEF p, s, th, n
<1>9. /\ WaitOf(p, s, th, f, n) = Idle
      /\ \A k : k # n => WaitOf(p, Append(s, c), th, f, k) = WaitOf(p, s, th, f, k)
      /\ ~ (p[n].type = "wait" /\ p[n].fence = f) =>
           WaitOf(p, Append(s, c), th, f, n) = Idle
      /\ p[n].type = "wait" /\ p[n].fence = f =>
           WaitOf(p, Append(s, c), th, f, n) = Fresh(p[n], ticket)
  BY <1>1, <1>3, <1>7, <1>8, WaitAppends
<1>10. ASSUME NEW w, WaitOf(p, Append(s, c), th, f, n) = w
       PROVE  OneBecomes(f, q, n, w)
  BY <1>5, <1>6, <1>9, <1>10 DEF OneBecomes
<1> QED
  BY <1>5, <1>9, <1>10 DEF p, n

\* The thread of q is done with a Signal, and those who sleep on g are woken.
LEMMA SignalWaits ==
  ASSUME Inv, NEW q \in Queues, Has(q, "signal"), Finish(q), thread[q] = "flushed",
         NEW g, thread' = [Woken(g) EXCEPT ![q] = "ready"], NEW f
  PROVE  (f = g => AllWake(f)) /\ (f # g => AllStay(f))
<1> DEFINE s == submissions[q]
           n == Head(s).id
<1>0. submissions \in [Queues -> Seq(Command)] /\ Types
  BY DEF Inv, Types
<1>1. s # <<>> /\ program[q][n].type = "signal" /\ s \in Seq(Command) /\ Ascending(s)
  BY CommandsAscend DEF Has
<1>2. thread'[q] = "ready" /\ \A r \in Queues : r # q => thread'[r] = Woken(g)[r]
  BY <1>0, WokenFacts
<1>3. ASSUME NEW k
      PROVE  WaitNext(f, q, k) = WaitNow(f, q, k) /\ WaitNow(f, q, k).pc \in {"idle", "queued"}
  <2> DEFINE p == program[q]
             th == thread[q]
  <2>1. /\ WaitNext(f, q, k) = WaitOf(p, Tail(s), "ready", f, k)
        /\ WaitNow(f, q, k) = WaitOf(p, s, th, f, k)
    BY <1>0, <1>2 DEF WaitNext, WaitNow, Finish
  <2>2. n = Head(s).id
    OBVIOUS
  <2>3. p[n].type = "signal"
    BY <1>1
  <2> HIDE DEF s, n, p, th
  <2>4. CASE k # n
    <3>1. WaitOf(p, Tail(s), "ready", f, k) = WaitOf(p, s, th, f, k)
      BY <1>1, <2>2, <2>4, WaitFinishes
    <3>2. WaitOf(p, s, th, f, k).pc \in {"idle", "queued"}
      BY <1>1, <2>2, <2>4, WaitBehind
    <3> QED
      BY <2>1, <3>1, <3>2
  <2>5. CASE k = n
    <3>1. WaitOf(p, Tail(s), "ready", f, k) = Idle
      BY <1>1, <2>2, <2>5, WaitFinishes
    <3>2. ~ IsWait(p, th, f, k)
      BY <2>3, <2>5 DEF IsWait
    <3>3. WaitOf(p, s, th, f, k) = Idle
      BY <1>1, <2>2, <2>5, <3>2, WaitAtHead
    <3> QED
      BY <2>1, <3>1, <3>3 DEF Idle
  <2> QED
    BY <2>4, <2>5
<1>4. ASSUME NEW r \in Queues, r # q, NEW k
      PROVE  /\ f = g => WaitNext(f, r, k) = Woke(WaitNow(f, r, k))
             /\ f # g => WaitNext(f, r, k) = WaitNow(f, r, k)
  <2> DEFINE p == program[r]
             z == submissions[r]
             th == thread[r]
             uh == thread'[r]
  <2>1. z \in Seq(Command) /\ Ascending(z)
    BY CommandsAscend
  <2>2. th = "asleep" => z # <<>> /\ p[Head(z).id].type = "wait"
    BY DEF Inv, ThreadsAtWork, Has
  <2>3. uh = IF th = "asleep" /\ p[Head(z).id].fence = g THEN "awake" ELSE th
    BY <1>2, <1>4 DEF Woken, Current
  <2>4. /\ WaitNow(f, r, k) = WaitOf(p, z, th, f, k)
        /\ WaitNext(f, r, k) = WaitOf(p, z, uh, f, k)
    BY <1>0, <1>4 DEF WaitNow, WaitNext, Finish
  <2> HIDE DEF p, z, th, uh
  <2>5. WakesFrom(p, z, th, uh, g)
    BY <2>2, <2>3 DEF WakesFrom
  <2>6. /\ f = g => WaitOf(p, z, uh, f, k) = Woke(WaitOf(p, z, th, f, k))
        /\ f # g => WaitOf(p, z, uh, f, k) = WaitOf(p, z, th, f, k)
    BY <2>1, <2>5, WaitWoken
  <2> QED
    BY <2>4, <2>6
<1>5. \A k : WaitNow(f, q, k) = Woke(WaitNow(f, q, k))
  BY <1>3 DEF Woke
<1>6. \A r \in Queues : \A k : f = g => WaitNext(f, r, k) = Woke(WaitNow(f, r, k))
  BY <1>3, <1>4, <1>5
<1>7. \A r \in Queues : \A k : f # g => WaitNext(f, r, k) = WaitNow(f, r, k)
  BY <1>3, <1>4
<1> QED
  BY <1>6, <1>7 DEF AllWake, AllStay

-----------------------------------------------------------------------------
(* The actions of Fence.                                                   *)

LEMMA WaitsStayF ==
  ASSUME program' = program, NEW f, AllStay(f)
  PROVE  FenceWait(f)' = FenceWait(f)
<1>1. \A c \in Works : WaitNext(f, c[1], c[2]) = WaitNow(f, c[1], c[2])
  BY DEF AllStay, Works
<1> QED
  BY <1>1, FenceWaits

LEMMA StutterF ==
  ASSUME program' = program, NEW f, fences'[f] = fences[f], released'[f] = released[f],
         FenceUnpublished(f)' = FenceUnpublished(f), AllStay(f)
  PROVE  UNCHANGED F(f)!vars
BY WaitsStayF DEF F!vars

LEMMA BroadcastF ==
  ASSUME program' = program, NEW f, AllWake(f)
  PROVE  F(f)!broadcast
<1>1. \A c \in Works : WaitNext(f, c[1], c[2]) = Woke(WaitNow(f, c[1], c[2]))
  BY DEF AllWake, Works
<1>2. /\ FenceWait(f) = [c \in Works |-> WaitNow(f, c[1], c[2])]
      /\ FenceWait(f)' = [c \in Works |-> WaitNext(f, c[1], c[2])]
  BY FenceWaits
<1> DEFINE A == FenceWait(f)
           B == FenceWait(f)'
<1>3. B = [c \in Works |-> Woke(A[c])]
  BY <1>1, <1>2
<1> HIDE DEF A, B
<1>4. B = [c \in Works |-> IF A[c].pc = "asleep" THEN [A[c] EXCEPT !.pc = "awake"] ELSE A[c]]
  BY <1>3 DEF Woke
<1> QED
  BY <1>4 DEF A, B, F!broadcast, Waiters

LEMMA EventsF ==
  ASSUME Inv, NEW f \in Fences
  PROVE  F(f)!signal_events
<1>1. fences[f].events = {}
  BY FenceFields DEF Inv, Types
<1>2. <<>> = [t \in {} |-> IF t \in {e.handle : e \in fences[f].events \ fences'[f].events} THEN "latched" ELSE <<>>[t]]
  OBVIOUS
<1> QED
  BY <1>1, <1>2 DEF F!signal_events

LEMMA SignalF ==
  ASSUME Inv, program' = program, NEW f \in Fences, NEW v \in Value, ~ released[f],
         released'[f] = released[f],
         fences'[f] = signal_cpu_timeline_semaphore(fences[f], v),
         FenceUnpublished(f)' = FenceUnpublished(f), AllWake(f)
  PROVE  F(f)!Next
<1>1. F(f)!Signal(v)
  BY SameSignal, EventsF, BroadcastF DEF F!Signal
<1> QED
  BY <1>1, SameUpdates DEF F!Next

LEMMA ReleaseF ==
  ASSUME Inv, program' = program, NEW f \in Fences, ~ released[f],
         released'[f] = TRUE,
         fences'[f] = signal_cpu_timeline_semaphore(fences[f], MaxValue),
         FenceUnpublished(f)' = FenceUnpublished(f), AllWake(f)
  PROVE  F(f)!Next
<1>1. F(f)!Release
  BY SameSignal, EventsF, BroadcastF DEF F!Release
<1> QED
  BY <1>1 DEF F!Next

LEMMA PublishF ==
  ASSUME Inv, program' = program, NEW f \in Fences, NEW n \in 1..MaxCalls,
         n \in FenceUnpublished(f), released'[f] = released[f],
         fences'[f] = fence_signal(fences[f], n),
         FenceUnpublished(f)' = FenceUnpublished(f) \ {n}, AllWake(f)
  PROVE  F(f)!Next
<1>1. F(f)!Publish(n)
  BY SamePublish, EventsF, BroadcastF DEF F!Publish
<1> QED
  BY <1>1 DEF F!Next

LEMMA OneBecomesF ==
  ASSUME program' = program, NEW f, NEW c \in Works, NEW w, OneBecomes(f, c[1], c[2], w)
  PROVE  /\ FenceWait(f)' = [FenceWait(f) EXCEPT ![c] = w]
         /\ FenceWait(f)[c] = WaitNow(f, c[1], c[2])
<1>1. /\ FenceWait(f) = [x \in Works |-> WaitNow(f, x[1], x[2])]
      /\ FenceWait(f)' = [x \in Works |-> WaitNext(f, x[1], x[2])]
  BY FenceWaits
<1>2. ASSUME NEW x \in Works
      PROVE  WaitNext(f, x[1], x[2]) = IF x = c THEN w ELSE WaitNow(f, x[1], x[2])
  <2>1. x[1] \in Queues /\ (x = c <=> x[1] = c[1] /\ x[2] = c[2])
    BY DEF Works
  <2> QED
    BY <2>1 DEF OneBecomes
<1> DEFINE A == FenceWait(f)
           B == FenceWait(f)'
<1>3. /\ A = [x \in Works |-> WaitNow(f, x[1], x[2])]
      /\ B = [x \in Works |-> WaitNext(f, x[1], x[2])]
  BY <1>1
<1> HIDE DEF A, B
<1>4. B = [A EXCEPT ![c] = w] /\ A[c] = WaitNow(f, c[1], c[2])
  BY <1>2, <1>3
<1> QED
  BY <1>4 DEF A, B

LEMMA QueueWaitF ==
  ASSUME Inv, program' = program, NEW f \in Fences, NEW c \in Works, NEW call, call.value \in Value,
         ~ released[f], released'[f] = released[f],
         WaitNow(f, c[1], c[2]) = Idle, fences[f].wait_ticket_counter < MaxCalls,
         fences'[f] = register_pending_gpu_wait(fences[f], call.value),
         FenceUnpublished(f)' = FenceUnpublished(f),
         OneBecomes(f, c[1], c[2], Fresh(call, fences'[f].wait_ticket_counter))
  PROVE  F(f)!Next
<1>1. /\ FenceWait(f)' = [FenceWait(f) EXCEPT ![c] = Fresh(call, fences'[f].wait_ticket_counter)]
      /\ FenceWait(f)[c] = WaitNow(f, c[1], c[2])
  BY OneBecomesF
<1>2. F(f)!QueueWait(c, call.value)
  BY <1>1, SameWaits DEF F!QueueWait, Idle, Fresh
<1> QED
  BY <1>2, SameUpdates DEF F!Next, Waiters

LEMMA WaitEndsF ==
  ASSUME Inv, program' = program, NEW f \in Fences, NEW c \in Works,
         released'[f] = released[f], fences'[f] = fences[f],
         WaitNow(f, c[1], c[2]).pc \in {"queued", "awake"},
         ~ HasTicket(fences[f], WaitNow(f, c[1], c[2]).ticket),
         FenceUnpublished(f)' = FenceUnpublished(f), OneBecomes(f, c[1], c[2], Idle)
  PROVE  F(f)!Next
<1>1. /\ FenceWait(f)' = [FenceWait(f) EXCEPT ![c] = Idle]
      /\ FenceWait(f)[c] = WaitNow(f, c[1], c[2])
  BY OneBecomesF
<1>2. F(f)!WaitAlreadySatisfied(c)
  BY <1>1, SameWaits DEF F!WaitAlreadySatisfied, F!InWait, F!NoWait, Idle
<1> QED
  BY <1>2 DEF F!Next, F!WaitStep, Waiters

LEMMA WaitSleepsF ==
  ASSUME Inv, program' = program, NEW f \in Fences, NEW c \in Works,
         released'[f] = released[f], fences'[f] = fences[f],
         WaitNow(f, c[1], c[2]).pc \in {"queued", "awake"},
         HasTicket(fences[f], WaitNow(f, c[1], c[2]).ticket),
         WaitNow(f, c[1], c[2]).value > fences[f].max_pending,
         FenceUnpublished(f)' = FenceUnpublished(f),
         NEW w, w = [WaitNow(f, c[1], c[2]) EXCEPT !.pc = "asleep"],
         OneBecomes(f, c[1], c[2], w)
  PROVE  F(f)!Next
<1>1. /\ FenceWait(f)' = [FenceWait(f) EXCEPT ![c] = w]
      /\ FenceWait(f)[c] = WaitNow(f, c[1], c[2])
  BY OneBecomesF
<1>2. F(f)!WaitSleeps(c)
  BY <1>1, SameWaits DEF F!WaitSleeps, F!InWait
<1> QED
  BY <1>2 DEF F!Next, F!WaitStep, Waiters

LEMMA WaitMaterialisesF ==
  ASSUME Inv, program' = program, NEW f \in Fences, NEW c \in Works,
         released'[f] = released[f],
         fences'[f] = consume_ticket(fences[f], WaitNow(f, c[1], c[2]).ticket),
         WaitNow(f, c[1], c[2]).pc \in {"queued", "awake"},
         HasTicket(fences[f], WaitNow(f, c[1], c[2]).ticket),
         WaitNow(f, c[1], c[2]).value <= fences[f].max_pending,
         FenceUnpublished(f)' = FenceUnpublished(f), OneBecomes(f, c[1], c[2], Idle)
  PROVE  F(f)!Next
<1>1. /\ FenceWait(f)' = [FenceWait(f) EXCEPT ![c] = Idle]
      /\ FenceWait(f)[c] = WaitNow(f, c[1], c[2])
  BY OneBecomesF
<1>2. F(f)!WaitMaterialises(c)
  BY <1>1, SameWaits DEF F!WaitMaterialises, F!InWait, F!NoWait, Idle
<1> QED
  BY <1>2 DEF F!Next, F!WaitStep, Waiters

LEMMA QueueSignalF ==
  ASSUME Inv, program' = program, NEW f \in Fences, NEW c \in Works,
         NEW v \in Value, NEW n \in 0..MaxCalls, released'[f] = released[f],
         WaitNow(f, c[1], c[2]) = Idle, fences[f].update_count < MaxCalls,
         fences'[f] = update_pending_value(add_pending_signal(fences[f], v, VkQueueOf[c[1]], n)),
         FenceUnpublished(f)' = FenceUnpublished(f) \cup {fences'[f].update_count}, AllWake(f)
  PROVE  F(f)!Next
<1>1. FenceWait(f)[c] = Idle
  BY FenceWaits
<1>2. F(f)!QueueSignal(c, v, n)
  BY <1>1, SameUpdates, SameAdd, BroadcastF DEF F!QueueSignal, Idle, Waiters
<1> QED
  BY <1>2, SameUpdates DEF F!Next, Waiters

-----------------------------------------------------------------------------
(* Every step is one of every fence, or leaves it alone.                   *)

FenceMoves(f) == UNCHANGED F(f)!vars \/ F(f)!Next

FencesInv == Inv /\ OrdersKnown /\ SignalsUnique /\ Bounded

LEMMA WorkersStay ==
  ASSUME worker' = worker, NEW f
  PROVE  FenceUnpublished(f)' = FenceUnpublished(f)
BY DEF FenceUnpublished

LEMMA RefinedStutter ==
  ASSUME UNCHANGED vars, NEW f \in Fences
  PROVE  FenceMoves(f)
<1>1. /\ program' = program /\ submissions' = submissions /\ thread' = thread /\ worker' = worker
      /\ fences' = fences /\ released' = released
  BY DEF vars, app_vars, thread_vars, gpu_vars, fence_vars, history
<1>2. AllStay(f) /\ FenceUnpublished(f)' = FenceUnpublished(f)
  BY <1>1, NothingMovesWaits, WorkersStay
<1> QED
  BY <1>1, <1>2, StutterF DEF FenceMoves

\* A call that no fence sees.
LEMMA QuietCall ==
  ASSUME Inv, NEW q \in Queues, ApiExecute(q) \/ ApiSignal(q), NEW f \in Fences
  PROVE  FenceMoves(f)
<1>1. PICK type \in {"execute", "signal"} : Calls(q, type)
  BY DEF ApiExecute, ApiSignal
<1>2. /\ next[q] \in DOMAIN program[q] /\ NextCall(q) = program[q][next[q]]
      /\ next' = [next EXCEPT ![q] = next[q] + 1]
  BY <1>1, CallingFacts DEF Inv
<1>3. program[q][next[q]].type # "wait"
  BY <1>1, <1>2 DEF Calls
<1>4. /\ program' = program /\ thread' = thread /\ worker' = worker
      /\ fences' = fences /\ released' = released
      /\ submissions' = [submissions EXCEPT ![q] =
                           Append(submissions[q], [id |-> next[q], ticket |-> 0])]
  BY DEF ApiExecute, ApiSignal, add_submission, fence_vars
<1> DEFINE ticket == 0
<1>5. Queued(q, ticket) /\ ticket \in Nat
  BY <1>2, <1>4 DEF Queued
<1> HIDE DEF ticket
<1>6. WaitNow(f, q, next[q]) = Idle /\ OneBecomes(f, q, next[q], Idle)
  BY <1>3, <1>4, <1>5, QueuedWaits
<1>7. AllStay(f)
  BY <1>6, OneStays
<1> QED
  BY <1>4, <1>7, WorkersStay, StutterF DEF FenceMoves

LEMMA RefinedWaitCall ==
  ASSUME IsFiniteSet(Works), FencesInv, NEW q \in Queues, ApiWait(q), Next, NEW f \in Fences
  PROVE  FenceMoves(f)
<1> DEFINE n == next[q]
           call == program[q][n]
           g == call.fence
           c == <<q, n>>
<1>0. Inv /\ Types /\ fences \in [Fences -> FenceRecord]
  BY DEF FencesInv, Inv, Types
<1>1. /\ NextCall(q) = call /\ call.type = "wait" /\ g \in Fences
      /\ Queued(q, fences'[g].wait_ticket_counter)
      /\ fences'[g].wait_ticket_counter = fences[g].wait_ticket_counter + 1
      /\ \A h \in Fences : h # g => fences'[h] = fences[h]
  BY <1>0, ApiWaitFacts
<1>2. call.value \in Value /\ n \in DOMAIN program[q]
  BY <1>0, <1>1, CallingFacts DEF ApiWait
<1>3. /\ program' = program /\ thread' = thread /\ worker' = worker
      /\ ~ released[g] /\ released' = released
      /\ fences'[g] = register_pending_gpu_wait(fences[g], call.value)
  BY <1>0, <1>1 DEF ApiWait
<1>4. fences'[g].wait_ticket_counter \in Nat
  BY <1>0, <1>1, FencesStayInOrder, FenceFields
<1>5. c \in Works /\ c \notin Made /\ c[1] = q /\ c[2] = n
  BY <1>0, <1>2, NextIsNotMade
<1> HIDE DEF n, c, call, g
<1>6. /\ WaitNow(f, q, n) = Idle
      /\ ~ (call.type = "wait" /\ call.fence = f) => OneBecomes(f, q, n, Idle)
      /\ call.type = "wait" /\ call.fence = f =>
           OneBecomes(f, q, n, Fresh(call, fences'[g].wait_ticket_counter))
  BY <1>0, <1>1, <1>3, <1>4, QueuedWaits DEF n, call
<1>7. FenceUnpublished(f)' = FenceUnpublished(f)
  BY <1>3, WorkersStay
<1>8. CASE f # g
  <2>1. AllStay(f)
    BY <1>6, <1>8, OneStays DEF g
  <2> QED
    BY <1>1, <1>3, <1>7, <1>8, <2>1, StutterF DEF FenceMoves
<1>9. CASE f = g
  <2>1. WaitNow(f, c[1], c[2]) = Idle
        /\ OneBecomes(f, c[1], c[2], Fresh(call, fences'[f].wait_ticket_counter))
    BY <1>1, <1>5, <1>6, <1>9 DEF g
  <2>2. fences[f].wait_ticket_counter < MaxCalls
    <3> DEFINE A == Made
               B == Made'
               x == fences[f].wait_ticket_counter
               y == fences'[f].wait_ticket_counter
    <3>1. x \in Nat /\ x <= Cardinality(A) /\ A \in SUBSET Works
      BY <1>0, <1>9, FenceFields DEF FencesInv, Bounded, Made
    <3>2. c \in Works /\ c \notin A
      BY <1>5
    <3> HIDE DEF A, B, x, y
    <3>3. IsFiniteSet(A) /\ IsFiniteSet(A \cup {c}) /\ Cardinality(A \cup {c}) = Cardinality(A) + 1
      BY <3>1, <3>2, FS_Subset, FS_AddElement
    <3>4. A \cup {c} \subseteq Works
      BY <3>1, <3>2
    <3>5. /\ Cardinality(A) \in Nat /\ Cardinality(Works) \in Nat
          /\ Cardinality(A \cup {c}) <= Cardinality(Works)
      BY <3>3, <3>4, FS_CardinalityType, FS_Subset
    <3>6. x < Cardinality(Works)
      BY <3>1, <3>3, <3>5
    <3> QED
      BY <3>6 DEF x, MaxCalls
  <2>3. F(f)!Next
    BY <1>0, <1>1, <1>2, <1>3, <1>5, <1>7, <1>9, <2>1, <2>2, QueueWaitF
  <2> QED
    BY <2>3 DEF FenceMoves
<1> QED
  BY <1>8, <1>9

LEMMA RefinedCpuSignal ==
  ASSUME Inv, NEW q \in Queues, ApiCpuSignal(q), NEW f \in Fences
  PROVE  FenceMoves(f)
<1> DEFINE g == NextCall(q).fence
           v == NextCall(q).value
<1>0. Types /\ fences \in [Fences -> FenceRecord]
  BY DEF Inv, Types
<1>1. g \in Fences /\ v \in Value
  BY <1>0, CallingFacts DEF ApiCpuSignal
<1>2. /\ program' = program /\ submissions' = submissions /\ worker' = worker
      /\ released' = released /\ ~ released[g] /\ thread' = Woken(g)
      /\ fences' = [fences EXCEPT ![g] = signal_cpu_timeline_semaphore(fences[g], v)]
  BY DEF ApiCpuSignal
<1> HIDE DEF g, v
<1>3. FenceUnpublished(f)' = FenceUnpublished(f)
  BY <1>2, WorkersStay
<1>4. (f = g => AllWake(f)) /\ (f # g => AllStay(f))
  BY <1>2, WokenWaits
<1>5. CASE f # g
  BY <1>0, <1>2, <1>3, <1>4, <1>5, StutterF DEF FenceMoves
<1>6. CASE f = g
  <2>1. fences'[f] = signal_cpu_timeline_semaphore(fences[f], v)
    BY <1>0, <1>1, <1>2, <1>6
  <2>2. F(f)!Next
    BY <1>1, <1>2, <1>3, <1>4, <1>6, <2>1, SignalF
  <2> QED
    BY <2>2 DEF FenceMoves
<1> QED
  BY <1>5, <1>6

LEMMA RefinedRelease ==
  ASSUME Inv, released \in [Fences -> BOOLEAN], NEW q \in Queues, ApiRelease(q), NEW f \in Fences
  PROVE  FenceMoves(f)
<1> DEFINE g == NextCall(q).fence
<1>0. Types /\ fences \in [Fences -> FenceRecord]
  BY DEF Inv, Types
<1>1. g \in Fences
  BY <1>0, CallingFacts DEF ApiRelease
<1>2. /\ program' = program /\ submissions' = submissions /\ worker' = worker
      /\ released' = [released EXCEPT ![g] = TRUE] /\ ~ released[g] /\ thread' = Woken(g)
      /\ fences' = [fences EXCEPT ![g] = signal_cpu_timeline_semaphore(fences[g], MaxValue)]
  BY DEF ApiRelease
<1> HIDE DEF g
<1>3. FenceUnpublished(f)' = FenceUnpublished(f)
  BY <1>2, WorkersStay
<1>4. (f = g => AllWake(f)) /\ (f # g => AllStay(f))
  BY <1>2, WokenWaits
<1>5. CASE f # g
  BY <1>0, <1>2, <1>3, <1>4, <1>5, StutterF DEF FenceMoves
<1>6. CASE f = g
  <2>1. fences'[f] = signal_cpu_timeline_semaphore(fences[f], MaxValue)
    BY <1>0, <1>1, <1>2, <1>6
  <2>2. released'[f] = TRUE
    BY <1>1, <1>2, <1>6
  <2>3. F(f)!Next
    BY <1>1, <1>2, <1>3, <1>4, <1>6, <2>1, <2>2, ReleaseF
  <2> QED
    BY <2>3 DEF FenceMoves
<1> QED
  BY <1>5, <1>6

\* The Wait that the thread of q is at.
LEMMA AtWait ==
  ASSUME Inv, NEW q \in Queues, InWait(q), NEW f \in Fences
  PROVE  LET n == Head(submissions[q]).id
         IN  /\ submissions[q] # <<>> /\ Current(q).fence \in Fences
             /\ <<q, n>> \in Works /\ thread[q] \in {"ready", "awake"}
             /\ f = Current(q).fence =>
                  /\ WaitNow(f, q, n).pc \in {"queued", "awake"}
                  /\ WaitNow(f, q, n).value = Current(q).value
                  /\ WaitNow(f, q, n).ticket = Ticket(q)
             /\ f # Current(q).fence => WaitNow(f, q, n) = Idle
<1> DEFINE n == Head(submissions[q]).id
<1>1. Has(q, "wait") /\ thread[q] \in {"ready", "awake"} /\ Types /\ CommandsInOrder
  BY DEF InWait, Inv
<1>2. submissions[q] # <<>> /\ Current(q).fence \in Fences /\ <<q, n>> \in Works
  BY <1>1, CurrentFacts, CommandFacts DEF Has
<1>3. IsWait(program[q], thread[q], f, n) <=> f = Current(q).fence
  BY <1>1 DEF IsWait, Has, Current
<1>4. /\ IsWait(program[q], thread[q], f, n) =>
           WaitNow(f, q, n) = Heading(program[q], submissions[q], thread[q])
      /\ ~ IsWait(program[q], thread[q], f, n) => WaitNow(f, q, n) = Idle
  BY <1>2, HeadWait
<1>5. CASE f = Current(q).fence
  <2>1. WaitNow(f, q, n) = Heading(program[q], submissions[q], thread[q])
    BY <1>3, <1>4, <1>5
  <2> QED
    BY <1>1, <1>2, <1>5, <2>1 DEF Heading, Current, Ticket
<1>6. CASE f # Current(q).fence
  BY <1>1, <1>2, <1>3, <1>4, <1>6
<1> QED
  BY <1>5, <1>6

LEMMA RefinedSatisfied ==
  ASSUME Inv, NEW q \in Queues, WaitAlreadySatisfied(q), NEW f \in Fences
  PROVE  FenceMoves(f)
<1> DEFINE n == Head(submissions[q]).id
           g == Current(q).fence
           c == <<q, n>>
<1>0. Types /\ thread \in [Queues -> {"ready", "asleep", "awake", "cpu_wait", "flushed"}]
  BY DEF Inv, Types
<1>1. /\ InWait(q) /\ ~ HasTicket(fences[g], Ticket(q)) /\ Finish(q)
      /\ thread' = [thread EXCEPT ![q] = "ready"]
      /\ program' = program /\ worker' = worker /\ fences' = fences /\ released' = released
  BY DEF WaitAlreadySatisfied, app_vars
<1>2. /\ submissions[q] # <<>> /\ c \in Works /\ c[1] = q /\ c[2] = n
      /\ f = g => /\ WaitNow(f, q, n).pc \in {"queued", "awake"}
                  /\ WaitNow(f, q, n).ticket = Ticket(q)
      /\ f # g => WaitNow(f, q, n) = Idle
  BY <1>1, AtWait
<1>3. OneBecomes(f, q, n, Idle)
  BY <1>0, <1>1, <1>2, FinishWaits
<1>4. FenceUnpublished(f)' = FenceUnpublished(f)
  BY <1>1, WorkersStay
<1> HIDE DEF n, g, c
<1>5. CASE f # g
  <2>1. AllStay(f)
    BY <1>2, <1>3, <1>5, OneStays
  <2> QED
    BY <1>1, <1>4, <2>1, StutterF DEF FenceMoves
<1>6. CASE f = g
  <2>1. /\ WaitNow(f, c[1], c[2]).pc \in {"queued", "awake"}
        /\ ~ HasTicket(fences[f], WaitNow(f, c[1], c[2]).ticket)
        /\ OneBecomes(f, c[1], c[2], Idle)
    BY <1>1, <1>2, <1>3, <1>6
  <2>2. F(f)!Next
    BY <1>1, <1>2, <1>4, <2>1, WaitEndsF
  <2> QED
    BY <2>2 DEF FenceMoves
<1> QED
  BY <1>5, <1>6

LEMMA RefinedSleeps ==
  ASSUME Inv, NEW q \in Queues, WaitSleeps(q), NEW f \in Fences
  PROVE  FenceMoves(f)
<1> DEFINE n == Head(submissions[q]).id
           g == Current(q).fence
           c == <<q, n>>
           th == "asleep"
<1>1. /\ InWait(q) /\ HasTicket(fences[g], Ticket(q))
      /\ Current(q).value > fences[g].max_pending
      /\ thread' = [thread EXCEPT ![q] = th] /\ submissions' = submissions
      /\ program' = program /\ worker' = worker /\ fences' = fences /\ released' = released
  BY DEF WaitSleeps, app_vars, fence_vars
<1>2. /\ submissions[q] # <<>> /\ c \in Works /\ c[1] = q /\ c[2] = n
      /\ f = g => /\ WaitNow(f, q, n).pc \in {"queued", "awake"}
                  /\ WaitNow(f, q, n).value = Current(q).value
                  /\ WaitNow(f, q, n).ticket = Ticket(q)
      /\ f # g => WaitNow(f, q, n) = Idle
  BY <1>1, AtWait
<1>3. IsWait(program[q], th, f, n) <=> f = g
  BY <1>1 DEF IsWait, InWait, Has, Current
<1> DEFINE w == Heading(program[q], submissions[q], th)
<1>4. /\ IsWait(program[q], th, f, n) => OneBecomes(f, q, n, w)
      /\ ~ IsWait(program[q], th, f, n) => OneBecomes(f, q, n, Idle)
  <2> HIDE DEF th
  <2> QED
    BY <1>1, <1>2, ThreadMovesWaits
<1>5. FenceUnpublished(f)' = FenceUnpublished(f)
  BY <1>1, WorkersStay
<1>6. f = g => w = [WaitNow(f, q, n) EXCEPT !.pc = "asleep"]
  <2>1. ASSUME f = g PROVE IsWait(program[q], thread[q], f, n)
    BY <1>1, <2>1 DEF IsWait, InWait, Has, Current
  <2>2. ASSUME f = g PROVE WaitNow(f, q, n) = Heading(program[q], submissions[q], thread[q])
    BY <1>2, <2>1, <2>2, HeadWait
  <2> QED
    BY <2>2 DEF Heading
<1> HIDE DEF n, g, c, th, w
<1>7. CASE f # g
  <2>1. AllStay(f)
    BY <1>2, <1>3, <1>4, <1>7, OneStays
  <2> QED
    BY <1>1, <1>5, <2>1, StutterF DEF FenceMoves
<1>8. CASE f = g
  <2>1. /\ WaitNow(f, c[1], c[2]).pc \in {"queued", "awake"}
        /\ HasTicket(fences[f], WaitNow(f, c[1], c[2]).ticket)
        /\ WaitNow(f, c[1], c[2]).value > fences[f].max_pending
        /\ OneBecomes(f, c[1], c[2], w)
        /\ w = [WaitNow(f, c[1], c[2]) EXCEPT !.pc = "asleep"]
    BY <1>1, <1>2, <1>3, <1>4, <1>6, <1>8
  <2>2. F(f)!Next
    BY <1>1, <1>2, <1>5, <2>1, WaitSleepsF
  <2> QED
    BY <2>2 DEF FenceMoves
<1> QED
  BY <1>7, <1>8

\* A Wait that leaves the fence, however it goes on.
LEMMA RefinedMaterialises ==
  ASSUME Inv, NEW q \in Queues, Materialises(q), Consume(q), NEW f \in Fences,
         program' = program, released' = released,
         FenceUnpublished(f)' = FenceUnpublished(f),
         OneBecomes(f, q, Head(submissions[q]).id, Idle)
  PROVE  FenceMoves(f)
<1> DEFINE n == Head(submissions[q]).id
           g == Current(q).fence
           c == <<q, n>>
<1>0. fences \in [Fences -> FenceRecord]
  BY DEF Inv, Types
<1>1. /\ InWait(q) /\ HasTicket(fences[g], Ticket(q))
      /\ Current(q).value <= fences[g].max_pending
      /\ fences' = [fences EXCEPT ![g] = consume_ticket(fences[g], Ticket(q))]
  BY DEF Materialises, Consume
<1>2. /\ submissions[q] # <<>> /\ c \in Works /\ c[1] = q /\ c[2] = n
      /\ f = g => /\ WaitNow(f, q, n).pc \in {"queued", "awake"}
                  /\ WaitNow(f, q, n).value = Current(q).value
                  /\ WaitNow(f, q, n).ticket = Ticket(q)
      /\ f # g => WaitNow(f, q, n) = Idle
  BY <1>1, AtWait
<1>3. OneBecomes(f, q, n, Idle)
  OBVIOUS
<1> HIDE DEF n, g, c
<1>4. CASE f # g
  <2>1. AllStay(f) /\ fences'[f] = fences[f]
    BY <1>0, <1>1, <1>2, <1>3, <1>4, OneStays
  <2> QED
    BY <2>1, StutterF DEF FenceMoves
<1>5. CASE f = g
  <2>1. /\ WaitNow(f, c[1], c[2]).pc \in {"queued", "awake"}
        /\ HasTicket(fences[f], WaitNow(f, c[1], c[2]).ticket)
        /\ WaitNow(f, c[1], c[2]).value <= fences[f].max_pending
        /\ OneBecomes(f, c[1], c[2], Idle)
        /\ fences'[f] = consume_ticket(fences[f], WaitNow(f, c[1], c[2]).ticket)
    BY <1>0, <1>1, <1>2, <1>3, <1>5
  <2>2. F(f)!Next
    BY <1>2, <2>1, WaitMaterialisesF
  <2> QED
    BY <2>2 DEF FenceMoves
<1> QED
  BY <1>4, <1>5

LEMMA OrderPublishesNothing ==
  ASSUME Inv, NEW q \in Queues, NEW g \in Fences, NEW n \in Nat,
         worker' = enqueue(worker, q, OrderEntry(g, n)), NEW f
  PROVE  FenceUnpublished(f)' = FenceUnpublished(f)
<1>1. PICK e : e = OrderEntry(g, n)
  OBVIOUS
<1>2. e \in Entry /\ e.type = "order"
  BY <1>1, OrderEntryType
<1>3. Types /\ worker' = enqueue(worker, q, e)
  BY <1>1 DEF Inv
<1> DEFINE added == <<e>>
<1>4. Extends(q, added)
  BY <1>2, <1>3, EnqueueExtends
<1>5. NoSignal(added)
  BY <1>2 DEF NoSignal
<1> HIDE DEF added
<1> QED
  BY <1>3, <1>4, <1>5, OthersPublishNothing

LEMMA FinalizePublishesNothing ==
  ASSUME Inv, NEW q \in Queues, NEW entries \in Seq(Entry), NoSignal(entries),
         finalize_waits(q, entries), NEW f
  PROVE  FenceUnpublished(f)' = FenceUnpublished(f)
<1> DEFINE added == OrderEntries(q) \o entries
<1>1. Types
  BY DEF Inv
<1>2. Extends(q, added)
  BY <1>1, FinalizeExtends
<1>3. OrderEntries(q) \in Seq(Entry) /\ \A i \in DOMAIN OrderEntries(q) : OrderEntries(q)[i].type = "order"
  BY <1>1, OrderEntriesType
<1>4. NoSignal(added)
  <2>1. ASSUME NEW i \in DOMAIN added PROVE added[i].type # "signal"
    BY <1>3, <2>1, ConcatFacts DEF NoSignal
  <2> QED
    BY <2>1 DEF NoSignal
<1> HIDE DEF added
<1> QED
  BY <1>1, <1>2, <1>4, OthersPublishNothing

LEMMA RefinedOwnWait ==
  ASSUME Inv, NEW q \in Queues, WaitOnOwnVkQueue(q), NEW f \in Fences
  PROVE  FenceMoves(f)
<1> DEFINE g == Current(q).fence
<1>0. Types /\ thread \in [Queues -> {"ready", "asleep", "awake", "cpu_wait", "flushed"}]
  BY DEF Inv, Types
<1>1. /\ Materialises(q) /\ Consume(q) /\ Finish(q)
      /\ thread' = [thread EXCEPT ![q] = "ready"]
      /\ program' = program /\ released' = released
  BY DEF WaitOnOwnVkQueue, app_vars
<1>2. PICK u \in SatisfyingOnQueue(fences[g], Current(q).value, VkQueueOf[q]) :
        worker' = enqueue(worker, q, OrderEntry(g, u.update_count))
  BY DEF WaitOnOwnVkQueue
<1>3. g \in Fences /\ u.update_count \in 1..fences[g].update_count
  BY <1>1, OwnUpdateFacts
<1>4. u.update_count \in Nat
  BY <1>3
<1> HIDE DEF g
<1>5. FenceUnpublished(f)' = FenceUnpublished(f)
  BY <1>2, <1>3, <1>4, OrderPublishesNothing
<1>6. submissions[q] # <<>>
  BY <1>1 DEF Materialises, InWait, Has
<1>7. OneBecomes(f, q, Head(submissions[q]).id, Idle)
  BY <1>0, <1>1, <1>6, FinishWaits
<1> QED
  BY <1>1, <1>5, <1>7, RefinedMaterialises

LEMMA RefinedDeferred ==
  ASSUME Inv, NEW q \in Queues, WaitDeferred(q), NEW f \in Fences
  PROVE  FenceMoves(f)
<1>0. Types /\ thread \in [Queues -> {"ready", "asleep", "awake", "cpu_wait", "flushed"}]
  BY DEF Inv, Types
<1>1. /\ Materialises(q) /\ Consume(q) /\ Finish(q)
      /\ thread' = [thread EXCEPT ![q] = "ready"]
      /\ program' = program /\ released' = released /\ worker' = worker
  BY DEF WaitDeferred, OnOtherVkQueue, app_vars
<1>2. FenceUnpublished(f)' = FenceUnpublished(f)
  BY <1>1, WorkersStay
<1>3. submissions[q] # <<>>
  BY <1>1 DEF Materialises, InWait, Has
<1>4. OneBecomes(f, q, Head(submissions[q]).id, Idle)
  BY <1>0, <1>1, <1>3, FinishWaits
<1> QED
  BY <1>1, <1>2, <1>4, RefinedMaterialises

LEMMA RefinedCpuWait ==
  ASSUME Inv, NEW q \in Queues, WaitOnCpu(q), NEW f \in Fences
  PROVE  FenceMoves(f)
<1> DEFINE g == Current(q).fence
           u == ChosenUpdate(q)
           th == "cpu_wait"
           n == Head(submissions[q]).id
<1>1. /\ Materialises(q) /\ Consume(q) /\ submissions' = submissions /\ OnOtherVkQueue(q)
      /\ thread' = [thread EXCEPT ![q] = th]
      /\ program' = program /\ released' = released
      /\ worker' = enqueue(worker, q, OrderEntry(g, u.update_count))
  BY DEF WaitOnCpu, OnOtherVkQueue, app_vars
<1>2. g \in Fences /\ u.update_count \in 1..fences[g].update_count
  BY <1>1, ChosenUpdateFacts
<1>3. u.update_count \in Nat
  BY <1>2
<1>4. submissions[q] # <<>>
  BY <1>1 DEF Materialises, InWait, Has
<1>5. ~ IsWait(program[q], th, f, n)
  BY DEF IsWait
<1> HIDE DEF g, u, th
<1>6. FenceUnpublished(f)' = FenceUnpublished(f)
  BY <1>1, <1>2, <1>3, OrderPublishesNothing
<1>7. OneBecomes(f, q, n, Idle)
  BY <1>1, <1>4, <1>5, ThreadMovesWaits
<1> QED
  BY <1>1, <1>6, <1>7, RefinedMaterialises

\* The thread is at a command that no fence waits for.
LEMMA NoWaitAtHead ==
  ASSUME Inv, NEW q \in Queues, submissions[q] # <<>>,
         thread[q] = "cpu_wait" \/ Has(q, "signal") \/ Has(q, "execute"), NEW f
  PROVE  WaitNow(f, q, Head(submissions[q]).id) = Idle
<1>1. ~ IsWait(program[q], thread[q], f, Head(submissions[q]).id)
  BY DEF IsWait, Has
<1> QED
  BY <1>1, HeadWait

LEMMA RefinedCpuReturn ==
  ASSUME Inv, NEW q \in Queues, CpuWaitReturns(q), NEW f \in Fences
  PROVE  FenceMoves(f)
<1>0. Types /\ thread \in [Queues -> {"ready", "asleep", "awake", "cpu_wait", "flushed"}]
  BY DEF Inv, Types
<1>1. /\ Finish(q) /\ thread' = [thread EXCEPT ![q] = "ready"] /\ thread[q] = "cpu_wait"
      /\ program' = program /\ released' = released /\ worker' = worker /\ fences' = fences
  BY DEF CpuWaitReturns, app_vars
<1>2. FenceUnpublished(f)' = FenceUnpublished(f)
  BY <1>1, WorkersStay
<1>3. submissions[q] # <<>>
  BY <1>1 DEF Inv, ThreadsAtWork, Has
<1>4. OneBecomes(f, q, Head(submissions[q]).id, Idle)
  BY <1>0, <1>1, <1>3, FinishWaits
<1>5. AllStay(f)
  BY <1>1, <1>3, <1>4, NoWaitAtHead, OneStays
<1> QED
  BY <1>1, <1>2, <1>5, StutterF DEF FenceMoves

LEMMA RefinedFlush ==
  ASSUME Inv, NEW q \in Queues, FlushWaiters(q), NEW f \in Fences
  PROVE  FenceMoves(f)
<1> DEFINE none == <<>>
           th == "flushed"
           n == Head(submissions[q]).id
<1>1. /\ Has(q, "signal") /\ finalize_waits(q, none) /\ submissions' = submissions
      /\ thread' = [thread EXCEPT ![q] = th]
      /\ program' = program /\ released' = released /\ fences' = fences
  BY DEF FlushWaiters, app_vars, fence_vars
<1>2. none \in Seq(Entry) /\ NoSignal(none)
  BY EmptySeq DEF NoSignal
<1>3. submissions[q] # <<>> /\ ~ IsWait(program[q], th, f, n)
  BY <1>1 DEF Has, IsWait
<1> HIDE DEF none, th
<1>4. FenceUnpublished(f)' = FenceUnpublished(f)
  BY <1>1, <1>2, FinalizePublishesNothing
<1>5. OneBecomes(f, q, n, Idle)
  BY <1>1, <1>3, ThreadMovesWaits
<1>6. AllStay(f)
  BY <1>1, <1>3, <1>5, NoWaitAtHead, OneStays
<1> QED
  BY <1>1, <1>4, <1>6, StutterF DEF FenceMoves

LEMMA RefinedExecute ==
  ASSUME Inv, Next, NEW q \in Queues, Execute(q), NEW f \in Fences
  PROVE  FenceMoves(f)
<1> DEFINE id == Head(submissions[q]).id
           entries == <<ReleaseEntry(id, VkQueueOf[q], last_value'[q])>>
<1>0. Types /\ CommandsInOrder
  BY DEF Inv
<1>1. /\ Has(q, "execute") /\ finalize_waits(q, entries) /\ Finish(q) /\ thread[q] = "ready"
      /\ thread' = thread
      /\ program' = program /\ released' = released /\ fences' = fences
  BY DEF Execute, app_vars, fence_vars
<1>2. submissions[q] # <<>>
  BY <1>1 DEF Has
<1>3. id \in Nat /\ VkQueueOf[q] \in VkQueues /\ last_value'[q] \in Nat
  <2>1. id \in Nat
    BY <1>0, <1>2, CommandFacts
  <2>2. last_value' \in [Queues -> Nat]
    BY TimelinesStayExact
  <2> QED
    BY <2>1, <2>2, QueuesAssumption
<1>4. PICK e : e = ReleaseEntry(id, VkQueueOf[q], last_value'[q])
  OBVIOUS
<1>5. e \in Entry /\ e.type = "release"
  BY <1>3, <1>4, ReleaseEntryType
<1>6. entries \in Seq(Entry) /\ NoSignal(entries)
  <2>1. entries = <<e>>
    BY <1>4
  <2> HIDE DEF entries
  <2> QED
    BY <1>5, <2>1 DEF NoSignal
<1> HIDE DEF entries
<1>7. FenceUnpublished(f)' = FenceUnpublished(f)
  BY <1>1, <1>6, FinalizePublishesNothing
<1>8. OneBecomes(f, q, id, Idle)
  BY <1>1, <1>2, FinishWaits
<1>9. AllStay(f)
  BY <1>1, <1>2, <1>8, NoWaitAtHead, OneStays
<1> QED
  BY <1>1, <1>7, <1>9, StutterF DEF FenceMoves

LEMMA RefinedSignal ==
  ASSUME IsFiniteSet(Works), FencesInv, NEW q \in Queues, SignalFence(q), Next, NEW f \in Fences
  PROVE  FenceMoves(f)
<1> DEFINE n == Head(submissions[q]).id
           g == Current(q).fence
           c == <<q, n>>
           v == Current(q).value
           tv == last_value[q]
           e == SignalEntry(g, fences'[g].update_count, VkQueueOf[q], tv)
<1>0. /\ Inv /\ Types /\ CommandsInOrder /\ fences \in [Fences -> FenceRecord]
      /\ last_value \in [Queues -> Nat] /\ timeline_count \in [VkQueues -> Nat]
      /\ VkQueueOf[q] \in VkQueues
  BY QueuesAssumption DEF FencesInv, Inv, Types
<1>1. /\ thread[q] = "flushed" /\ Finish(q) /\ thread' = [Woken(g) EXCEPT ![q] = "ready"]
      /\ program' = program /\ released' = released
      /\ fences' = [fences EXCEPT ![g] =
            update_pending_value(add_pending_signal(fences[g], v, VkQueueOf[q], tv))]
      /\ worker' = enqueue(worker, q, e)
  BY DEF SignalFence, app_vars
<1>2. /\ g \in Fences /\ Has(q, "signal")
      /\ fences'[g].update_count = fences[g].update_count + 1
      /\ fences[g].update_count \in Nat
  BY <1>0, SignalFenceFacts
<1>3. submissions[q] # <<>> /\ v \in Value /\ tv \in Nat
  BY <1>0, <1>2, CurrentFacts DEF Has
<1>4. c \in Works /\ c \notin Handled /\ c[1] = q /\ c[2] = n
  BY <1>0, <1>3, HeadIsNotDone
<1>5. WaitNow(f, q, n) = Idle
  BY <1>0, <1>2, <1>3, NoWaitAtHead
<1>6. (f = g => AllWake(f)) /\ (f # g => AllStay(f))
  BY <1>0, <1>1, <1>2, SignalWaits
<1>7. /\ f = g => FenceUnpublished(f)' = FenceUnpublished(f) \cup {fences'[g].update_count}
      /\ f # g => FenceUnpublished(f)' = FenceUnpublished(f)
  <2>1. e \in Entry /\ e.type = "signal"
    BY <1>0, <1>2, <1>3, SignalEntryType
  <2>2. e.fence = g /\ e.update_count = fences'[g].update_count
    BY DEF SignalEntry
  <2> HIDE DEF e
  <2>3. Extends(q, <<e>>)
    BY <1>0, <1>1, <2>1, EnqueueExtends
  <2>4. /\ f = e.fence => FenceUnpublished(f)' = FenceUnpublished(f) \cup {e.update_count}
        /\ f # e.fence => FenceUnpublished(f)' = FenceUnpublished(f)
    BY <1>0, <2>1, <2>3, SignalIsPublishedLater
  <2> QED
    BY <2>2, <2>4
<1> HIDE DEF n, g, c, v, tv, e
<1>8. CASE f # g
  <2>1. fences'[f] = fences[f]
    BY <1>0, <1>1, <1>8
  <2> QED
    BY <1>1, <1>6, <1>7, <1>8, <2>1, StutterF DEF FenceMoves
<1>9. CASE f = g
  <2>1. tv \in 0..MaxCalls
    <3> DEFINE A == Spent
               t == VkQueueOf[q]
    <3>1. tv <= timeline_count[t]
      BY <1>0 DEF Inv, TimelinesExact, tv
    <3>2. timeline_count[t] <= Cardinality(A) /\ timeline_count[t] \in Nat
      BY <1>0 DEF FencesInv, Bounded
    <3>3. A \subseteq Works
      BY DEF Spent, Made
    <3> HIDE DEF A, t
    <3>4. Cardinality(A) <= Cardinality(Works) /\ Cardinality(A) \in Nat /\ Cardinality(Works) \in Nat
      BY <3>3, FS_Subset, FS_CardinalityType
    <3> QED
      BY <1>3, <3>1, <3>2, <3>4 DEF MaxCalls
  <2>2. fences[f].update_count < MaxCalls
    <3> DEFINE A == Handled
               x == fences[f].update_count
    <3>1. x \in Nat /\ x <= Cardinality(A) /\ A \in SUBSET Works
      BY <1>2, <1>9 DEF FencesInv, Bounded, Made, Handled
    <3>2. c \in Works /\ c \notin A
      BY <1>4
    <3> HIDE DEF A, x
    <3>3. IsFiniteSet(A) /\ IsFiniteSet(A \cup {c}) /\ Cardinality(A \cup {c}) = Cardinality(A) + 1
      BY <3>1, <3>2, FS_Subset, FS_AddElement
    <3>4. A \cup {c} \subseteq Works
      BY <3>1, <3>2
    <3>5. /\ Cardinality(A) \in Nat /\ Cardinality(Works) \in Nat
          /\ Cardinality(A \cup {c}) <= Cardinality(Works)
      BY <3>3, <3>4, FS_CardinalityType, FS_Subset
    <3>6. x < Cardinality(Works)
      BY <3>1, <3>3, <3>5
    <3> QED
      BY <3>6 DEF x, MaxCalls
  <2>3. fences'[f] = update_pending_value(add_pending_signal(fences[f], v, VkQueueOf[c[1]], tv))
    BY <1>0, <1>1, <1>2, <1>4, <1>9
  <2>4. WaitNow(f, c[1], c[2]) = Idle
    BY <1>4, <1>5
  <2>5. FenceUnpublished(f)' = FenceUnpublished(f) \cup {fences'[f].update_count} /\ AllWake(f)
    BY <1>6, <1>7, <1>9
  <2>6. F(f)!Next
    BY <1>0, <1>1, <1>3, <1>4, <2>1, <2>2, <2>3, <2>4, <2>5, QueueSignalF
  <2> QED
    BY <2>6 DEF FenceMoves
<1> QED
  BY <1>8, <1>9

LEMMA RefinedRetire ==
  ASSUME IsFiniteSet(Works), FencesInv, NEW q \in Queues, FenceWorker(q), NEW f \in Fences
  PROVE  FenceMoves(f)
<1> DEFINE e == Head(worker[q])
           g == e.fence
           m == e.update_count
<1>0. /\ Inv /\ Types /\ SignalsUnique /\ fences \in [Fences -> FenceRecord]
  BY DEF FencesInv, Inv, Types
<1>1. /\ program' = program /\ submissions' = submissions /\ released' = released
  BY DEF FenceWorker, RetireSignal, RetireOrder, RetireRelease, app_vars, thread_vars, fence_vars
<1>2. ASSUME NEW type \in {"order", "release"}, Retire(q, type), fences' = fences, thread' = thread
      PROVE  FenceMoves(f)
  <2>1. type # "signal"
    BY <1>2
  <2>2. FenceUnpublished(f)' = FenceUnpublished(f)
    BY <1>0, <1>2, <2>1, RetireUnpublished
  <2>3. AllStay(f)
    BY <1>1, <1>2, NothingMovesWaits
  <2> QED
    BY <1>1, <1>2, <2>2, <2>3, StutterF DEF FenceMoves
<1>3. CASE RetireOrder(q)
  BY <1>2, <1>3 DEF RetireOrder, thread_vars
<1>4. CASE RetireRelease(q)
  BY <1>2, <1>4 DEF RetireRelease, thread_vars, fence_vars
<1>5. CASE RetireSignal(q)
  <2> DEFINE type == "signal"
  <2>1. /\ Retire(q, type) /\ thread' = Woken(g)
        /\ fences' = [fences EXCEPT ![g] = fence_signal(fences[g], m)]
    BY <1>5 DEF RetireSignal
  <2>2. g \in Fences /\ m \in 1..fences[g].update_count
    BY <1>0, <2>1, SignalEntryFacts DEF Retire
  <2> HIDE DEF type
  <2>3. /\ type = "signal" /\ f = g => /\ FenceUnpublished(f)' = FenceUnpublished(f) \ {m}
                                       /\ m \in FenceUnpublished(f)
        /\ type # "signal" \/ f # g => FenceUnpublished(f)' = FenceUnpublished(f)
    BY <1>0, <2>1, RetireUnpublished
  <2>4. type = "signal"
    BY DEF type
  <2> HIDE DEF e, g, m
  <2>5. (f = g => AllWake(f)) /\ (f # g => AllStay(f))
    BY <1>0, <1>1, <2>1, WokenWaits
  <2>6. CASE f # g
    <3>1. fences'[f] = fences[f]
      BY <1>0, <2>1, <2>6
    <3> QED
      BY <1>1, <2>3, <2>5, <2>6, <3>1, StutterF DEF FenceMoves
  <2>7. CASE f = g
    <3>1. m \in 1..MaxCalls
      <4> DEFINE A == Handled
                 k == fences[f].update_count
      <4>1. k \in Nat /\ k <= Cardinality(A) /\ A \subseteq Works
        BY <1>0, FenceFields DEF FencesInv, Bounded, Made, Handled
      <4>2. m \in 1..k
        BY <2>2, <2>7
      <4> HIDE DEF A, k
      <4>3. Cardinality(A) <= Cardinality(Works) /\ Cardinality(A) \in Nat /\ Cardinality(Works) \in Nat
        BY <4>1, FS_Subset, FS_CardinalityType
      <4> QED
        BY <4>1, <4>2, <4>3 DEF MaxCalls
    <3>2. fences'[f] = fence_signal(fences[f], m)
      BY <1>0, <2>1, <2>2, <2>7
    <3>3. F(f)!Next
      BY <1>0, <1>1, <2>3, <2>4, <2>5, <2>7, <3>1, <3>2, PublishF
    <3> QED
      BY <3>3 DEF FenceMoves
  <2> QED
    BY <2>6, <2>7
<1> QED
  BY <1>3, <1>4, <1>5 DEF FenceWorker

LEMMA RefinedNext ==
  ASSUME IsFiniteSet(Works), FencesInv, released \in [Fences -> BOOLEAN], Next, NEW f \in Fences
  PROVE  FenceMoves(f)
<1>0. Inv
  BY DEF FencesInv
<1>1. ASSUME NEW q \in Queues, Application(q) PROVE FenceMoves(f)
  BY <1>0, <1>1, QuietCall, RefinedWaitCall, RefinedCpuSignal, RefinedRelease DEF Application
<1>2. ASSUME NEW q \in Queues, SubmissionThread(q) PROVE FenceMoves(f)
  <2>1. CASE WaitAlreadySatisfied(q)
    BY <1>0, <2>1, RefinedSatisfied
  <2>2. CASE WaitSleeps(q)
    BY <1>0, <2>2, RefinedSleeps
  <2>3. CASE WaitOnOwnVkQueue(q)
    BY <1>0, <2>3, RefinedOwnWait
  <2>4. CASE WaitDeferred(q)
    BY <1>0, <2>4, RefinedDeferred
  <2>5. CASE WaitOnCpu(q)
    BY <1>0, <2>5, RefinedCpuWait
  <2>6. CASE CpuWaitReturns(q)
    BY <1>0, <2>6, RefinedCpuReturn
  <2>7. CASE FlushWaiters(q)
    BY <1>0, <2>7, RefinedFlush
  <2>8. CASE SignalFence(q)
    BY <2>8, RefinedSignal
  <2>9. CASE Execute(q)
    BY <1>0, <2>9, RefinedExecute
  <2> QED
    BY <1>2, <2>1, <2>2, <2>3, <2>4, <2>5, <2>6, <2>7, <2>8, <2>9 DEF SubmissionThread
<1>3. ASSUME NEW q \in Queues, FenceWorker(q) PROVE FenceMoves(f)
  BY <1>3, RefinedRetire
<1>4. ASSUME NEW t \in VkQueues, GpuExecutes(t) PROVE FenceMoves(f)
  <2>1. /\ program' = program /\ submissions' = submissions /\ thread' = thread /\ worker' = worker
        /\ fences' = fences /\ released' = released
    BY <1>4 DEF GpuExecutes, app_vars, thread_vars, fence_vars
  <2>2. AllStay(f) /\ FenceUnpublished(f)' = FenceUnpublished(f)
    BY <2>1, NothingMovesWaits, WorkersStay
  <2> QED
    BY <2>1, <2>2, StutterF DEF FenceMoves
<1> QED
  BY <1>1, <1>2, <1>3, <1>4 DEF Next

-----------------------------------------------------------------------------
(* The refinement.                                                         *)

LEMMA InitBounds ==
  ASSUME IsFiniteSet(Works), Init
  PROVE  SignalsUnique /\ Bounded
<1>1. SignalsUnique
  BY DEF Init, SignalsUnique
<1> DEFINE A == Made
           B == Handled
           C == Spent
<1>2. A \subseteq Works /\ B \subseteq Works /\ C \subseteq Works
  BY DEF Made, Handled, Spent
<1> HIDE DEF A, B, C
<1>3. Cardinality(A) \in Nat /\ Cardinality(B) \in Nat /\ Cardinality(C) \in Nat
  BY <1>2, FS_Subset, FS_CardinalityType
<1>4. \A n \in Nat : 0 <= n
  OBVIOUS
<1>5. 0 <= Cardinality(A) /\ 0 <= Cardinality(B) /\ 0 <= Cardinality(C)
  BY <1>3, <1>4
<1>6. /\ \A f \in Fences : fences[f].wait_ticket_counter = 0 /\ fences[f].update_count = 0
      /\ \A t \in VkQueues : timeline_count[t] = 0
  BY DEF Init, fence_init
<1> QED
  BY <1>1, <1>5, <1>6 DEF Bounded, A, B, C

LEMMA InitF ==
  ASSUME Init, NEW f \in Fences
  PROVE  F(f)!Init
<1>1. fences[f] = fence_init(0) /\ released[f] = FALSE
  BY DEF Init
<1>2. FenceUnpublished(f) = {}
  BY DEF Init, FenceUnpublished
<1>3. FenceWait(f) = [c \in Waiters |-> [pc |-> "idle", value |-> 0, ticket |-> 0]]
  BY DEF Init, FenceWait, Works, Waiters
<1>4. 0 \in Value
  BY MaxValueAssumption DEF Value
<1>5. <<>> = [t \in {} |-> "no"]
  OBVIOUS
<1> QED
  BY <1>1, <1>2, <1>3, <1>4, <1>5 DEF F!Init, F!NoWait, F!Value, Value, F!fence_init, fence_init

LEMMA StutterBounds ==
  ASSUME SignalsUnique, Bounded, UNCHANGED vars
  PROVE  SignalsUnique' /\ Bounded'
<1>1. /\ next' = next /\ submissions' = submissions /\ thread' = thread /\ worker' = worker
      /\ fences' = fences /\ timeline_count' = timeline_count
  BY DEF vars, app_vars, thread_vars, gpu_vars, fence_vars
<1>2. SignalsUnique'
  BY <1>1 DEF SignalsUnique
<1>3. Made' = Made
  BY <1>1 DEF Made, Works, Indices
<1>4. Handled' = Handled
  BY <1>1, <1>3 DEF Handled
<1>5. Spent' = Spent
  BY <1>1, <1>3 DEF Spent
<1>6. Bounded'
  BY <1>1, <1>3, <1>4, <1>5 DEF Bounded
<1> QED
  BY <1>2, <1>6

\* Every fence of the command queues is a Fence: it starts as one, and each step of
\* the queues, their threads, the fence workers and the GPU is a step of Fence for it
\* or leaves it as it is.  So the code in command.c uses a d3d12_fence only as Fence
\* says one may be used: tickets are taken once per Wait, a thread looks at the fence
\* again only in the states from which it may, a broadcast reaches every sleeper, and
\* each update is published once.  The programs are finite in number and length, since
\* a Fence counts them.
THEOREM FencesAlwaysAreFences == IsFiniteSet(Works) => (Spec => FencesAreFences)
<1> SUFFICES ASSUME IsFiniteSet(Works) PROVE Spec => FencesAreFences
  OBVIOUS
<1>1. Init => SignalsUnique /\ Bounded
  BY InitBounds
<1>2. IInv /\ KnotInv /\ SignalsUnique /\ Bounded /\ [Next]_vars => (SignalsUnique /\ Bounded)'
  <2>1. ASSUME IInv, KnotInv, SignalsUnique, Bounded, Next PROVE (SignalsUnique /\ Bounded)'
    BY <2>1, SignalsStayUnique, BoundedStays DEF IInv, KnotInv
  <2>2. ASSUME SignalsUnique, Bounded, UNCHANGED vars PROVE (SignalsUnique /\ Bounded)'
    BY <2>2, StutterBounds
  <2> QED
    BY <2>1, <2>2
<1>3. Init => \A f \in Fences : F(f)!Init
  BY InitF
<1>4. IInv /\ KnotInv /\ SignalsUnique /\ Bounded /\ TypeOK /\ [Next]_vars
        => [\A f \in Fences : UNCHANGED F(f)!vars \/ F(f)!Next]_vars
  <2>1. ASSUME IInv, KnotInv, SignalsUnique, Bounded, TypeOK, Next
        PROVE  \A f \in Fences : FenceMoves(f)
    BY <2>1, RefinedNext DEF IInv, KnotInv, FencesInv, TypeOK
  <2> QED
    BY <2>1 DEF FenceMoves
<1> QED
  BY <1>1, <1>2, <1>3, <1>4, OrderHolds, KnotHolds, TypeCorrect, PTL DEF Spec, FencesAreFences

-----------------------------------------------------------------------------
(***************************************************************************)
(* What is proved of Fence, proved of the fences of the queues.            *)
(*                                                                         *)
(* TheFence is any one of them.  The theorems of FenceProofs hold of it    *)
(* through the refinement, and are restated here in terms of the queues.   *)
(***************************************************************************)
CONSTANT TheFence

The == INSTANCE FenceProofs WITH
         Queues <- Waiters, Timelines <- VkQueues,
         TimelineOf <- [c \in Waiters |-> VkQueueOf[c[1]]],
         TimelineValues <- 0 .. MaxCalls,
         Threads <- {}, Handles <- {},
         MaxUpdates <- MaxCalls, MaxTickets <- MaxCalls,
         fence <- fences[TheFence], released <- released[TheFence],
         unpublished <- FenceUnpublished(TheFence), wait <- FenceWait(TheFence),
         blocked <- <<>>, signalled <- {}

\* The constants of the queues meet what Fence asks of its own.
LEMMA FenceMayBeUsed ==
  ASSUME IsFiniteSet(Works)
  PROVE  /\ [c \in Waiters |-> VkQueueOf[c[1]]] \in [Waiters -> VkQueues]
         /\ 0 .. MaxCalls \subseteq Nat
         /\ {} \cap {} = {}
         /\ MaxCalls \in Nat
<1>1. MaxCalls \in Nat
  BY FS_CardinalityType DEF MaxCalls
<1>2. \A c \in Waiters : c[1] \in Queues
  BY DEF Waiters, Works
<1> QED
  BY <1>1, <1>2, QueuesAssumption

\* F(TheFence) and The are the same instance of Fence.
LEMMA SameFence ==
  /\ F(TheFence)!vars = The!vars
  /\ F(TheFence)!Init <=> The!Init
  /\ F(TheFence)!Next <=> The!Next
<1>1. F(TheFence)!vars = The!vars
  BY DEF F!vars, The!vars
<1>2. F(TheFence)!Init <=> The!Init
  BY DEF F!Init, The!Init, F!NoWait, The!NoWait, F!Value, The!Value, F!fence_init, The!fence_init
<1>3. F(TheFence)!Next <=> The!Next
  BY DEF F!Value, The!Value, F!Greatest, The!Greatest, F!VirtualValues, The!VirtualValues,
         F!fence_init, The!fence_init, F!update_pending_value, The!update_pending_value,
         F!signal_external_events, The!signal_external_events, F!update_wait_tickets,
         The!update_wait_tickets, F!signal_cpu_timeline_semaphore,
         The!signal_cpu_timeline_semaphore, F!add_pending_signal, The!add_pending_signal,
         F!register_pending_gpu_wait, The!register_pending_gpu_wait, F!DueUpdates,
         The!DueUpdates, F!LastUpdate, The!LastUpdate, F!publish_due, The!publish_due,
         F!fence_signal, The!fence_signal, F!HasTicket, The!HasTicket, F!consume_ticket,
         The!consume_ticket, F!broadcast, The!broadcast, F!signal_events, The!signal_events,
         F!Signal, The!Signal, F!Release, The!Release, F!SetEvent, The!SetEvent,
         F!SetNullEvent, The!SetNullEvent, F!NullEventReturns, The!NullEventReturns,
         F!ResetEvent, The!ResetEvent, F!QueueWait, The!QueueWait, F!InWait, The!InWait,
         F!WaitAlreadySatisfied, The!WaitAlreadySatisfied, F!WaitSleeps, The!WaitSleeps,
         F!WaitMaterialises, The!WaitMaterialises, F!SpuriousWakeup, The!SpuriousWakeup,
         F!QueueSignal, The!QueueSignal, F!Publish, The!Publish, F!WaitStep, The!WaitStep,
         F!Next, The!Next, F!NoWait, The!NoWait
<1> QED
  BY <1>1, <1>2, <1>3

\* TheFence behaves as Fence, whatever the queues, their threads, the fence workers
\* and the GPU do.
THEOREM TheFenceIsAFence ==
  IsFiniteSet(Works) /\ TheFence \in Fences => (Spec => The!Spec)
<1> SUFFICES ASSUME IsFiniteSet(Works), TheFence \in Fences PROVE Spec => The!Spec
  OBVIOUS
<1>1. Spec => FencesAreFences
  BY FencesAlwaysAreFences
<1>2. (\A f \in Fences : F(f)!Init) => The!Init
  BY SameFence
<1>3. [\A f \in Fences : UNCHANGED F(f)!vars \/ F(f)!Next]_vars => [The!Next]_The!vars
  <2>1. ASSUME \A f \in Fences : UNCHANGED F(f)!vars \/ F(f)!Next PROVE [The!Next]_The!vars
    <3>1. UNCHANGED F(TheFence)!vars \/ F(TheFence)!Next
      BY <2>1
    <3> QED
      BY <3>1 DEF F!vars, The!vars, F!Value, The!Value, F!Greatest, The!Greatest, F!VirtualValues, The!VirtualValues,
          F!fence_init, The!fence_init, F!update_pending_value, The!update_pending_value,
          F!signal_external_events, The!signal_external_events, F!update_wait_tickets,
          The!update_wait_tickets, F!signal_cpu_timeline_semaphore,
          The!signal_cpu_timeline_semaphore, F!add_pending_signal, The!add_pending_signal,
          F!register_pending_gpu_wait, The!register_pending_gpu_wait, F!DueUpdates,
          The!DueUpdates, F!LastUpdate, The!LastUpdate, F!publish_due, The!publish_due,
          F!fence_signal, The!fence_signal, F!HasTicket, The!HasTicket, F!consume_ticket,
          The!consume_ticket, F!broadcast, The!broadcast, F!signal_events,
          The!signal_events, F!Signal, The!Signal, F!Release, The!Release, F!SetEvent,
          The!SetEvent, F!SetNullEvent, The!SetNullEvent, F!NullEventReturns,
          The!NullEventReturns, F!ResetEvent, The!ResetEvent, F!QueueWait, The!QueueWait,
          F!InWait, The!InWait, F!WaitAlreadySatisfied, The!WaitAlreadySatisfied,
          F!WaitSleeps, The!WaitSleeps, F!WaitMaterialises, The!WaitMaterialises,
          F!SpuriousWakeup, The!SpuriousWakeup, F!QueueSignal, The!QueueSignal, F!Publish,
          The!Publish, F!WaitStep, The!WaitStep, F!Next, The!Next, F!NoWait, The!NoWait
  <2>2. ASSUME UNCHANGED vars PROVE UNCHANGED The!vars
    <3>1. /\ program' = program /\ submissions' = submissions /\ thread' = thread
          /\ worker' = worker /\ fences' = fences /\ released' = released
      BY <2>2 DEF vars, app_vars, thread_vars, gpu_vars, fence_vars
    <3>2. FenceWait(TheFence)' = FenceWait(TheFence)
      BY <3>1 DEF FenceWait, Waiters, Works, Indices
    <3>3. FenceUnpublished(TheFence)' = FenceUnpublished(TheFence)
      BY <3>1 DEF FenceUnpublished
    <3> QED
      BY <3>1, <3>2, <3>3 DEF The!vars
  <2> QED
    BY <2>1, <2>2
<1> QED
  BY <1>1, <1>2, <1>3, PTL DEF FencesAreFences, The!Spec

\* No lost wakeup, across all the queues: a submission thread asleep on the fence's
\* condition variable holds a ticket that still stands, and no signal that any queue or
\* the application has made so far reaches its value.  The thread of another queue, a
\* fence worker or the application may have changed the fence any number of times since
\* it fell asleep (d3d12_fence_block_until_pending_value_reaches_locked).
SleepersWaitForASubmission ==
  \A q \in Queues :
    thread[q] = "asleep" /\ Current(q).fence = TheFence =>
      /\ HasTicket(fences[TheFence], Ticket(q))
      /\ fences[TheFence].max_pending < Current(q).value

\* No queue's thread ever oversleeps: from NoLostWakeup of Fence, with the thread's place
\* in its Wait read off the queue.
THEOREM NoQueueOversleeps ==
  IsFiniteSet(Works) /\ TheFence \in Fences => (Spec => []SleepersWaitForASubmission)
<1> SUFFICES ASSUME IsFiniteSet(Works), TheFence \in Fences
             PROVE  Spec => []SleepersWaitForASubmission
  OBVIOUS
<1>1. Spec => The!Spec
  BY TheFenceIsAFence
<1>2. The!Spec => []The!SleepersHaveNothingToDo
  <2>1. /\ [c \in Waiters |-> VkQueueOf[c[1]]] \in [Waiters -> VkQueues]
        /\ 0 .. MaxCalls \subseteq Nat
        /\ {} \cap {} = {}
        /\ MaxCalls \in Nat
    BY FenceMayBeUsed
  <2> QED
    BY <2>1, MaxValueAssumption, The!NoLostWakeup
<1>3. IInv /\ The!SleepersHaveNothingToDo => SleepersWaitForASubmission
  <2> SUFFICES ASSUME IInv, The!SleepersHaveNothingToDo, NEW q \in Queues,
                      thread[q] = "asleep", Current(q).fence = TheFence
               PROVE  /\ HasTicket(fences[TheFence], Ticket(q))
                      /\ fences[TheFence].max_pending < Current(q).value
    BY DEF SleepersWaitForASubmission
  <2> DEFINE n == Head(submissions[q]).id
  <2>1. Inv /\ Has(q, "wait") /\ Types /\ CommandsInOrder /\ thread[q] # "cpu_wait"
    BY DEF IInv, Inv, ThreadsAtWork
  <2>2. submissions[q] # <<>> /\ Current(q).fence \in Fences /\ <<q, n>> \in Works
    BY <2>1, CurrentFacts, CommandFacts DEF Has
  <2>3. IsWait(program[q], thread[q], TheFence, n)
    BY <2>1 DEF IsWait, Has, Current
  <2>4. WaitNow(TheFence, q, n) = Heading(program[q], submissions[q], thread[q])
    BY <2>1, <2>2, <2>3, HeadWait
  <2>5. /\ WaitNow(TheFence, q, n).pc = "asleep"
        /\ WaitNow(TheFence, q, n).value = Current(q).value
        /\ WaitNow(TheFence, q, n).ticket = Ticket(q)
    BY <2>1, <2>4 DEF Heading, Current, Ticket
  <2>6. FenceWait(TheFence)[<<q, n>>] = WaitNow(TheFence, q, n)
    BY <2>2 DEF FenceWait, WaitNow, WaitOf, At, Standing, Place, Idle, Waiters
  <2>7. <<q, n>> \in Waiters
    BY <2>2 DEF Waiters
  <2> QED
    BY <2>5, <2>6, <2>7 DEF The!SleepersHaveNothingToDo, The!HasTicket, HasTicket
<1> QED
  BY <1>1, <1>2, <1>3, OrderHolds, PTL

\* The signals of all queues on one fence become visible in the order in which they were
\* submitted, whichever fence workers come first: a step that advances signal_count
\* leaves visible the update with that number, and none with a smaller one is still to
\* come (d3d12_fence_signal; "all signals happen in correct order if there are rewinds").
QueuesSignalInOrder ==
  [][ fences[TheFence]'.signal_count # fences[TheFence].signal_count =>
        /\ \E p \in fences[TheFence].pending_updates :
             /\ p.update_count = fences[TheFence]'.signal_count
             /\ p.virtual_value = fences[TheFence]'.virtual_value
        /\ \A p \in fences[TheFence]'.pending_updates :
             fences[TheFence]'.signal_count < p.update_count ]_vars

\* Every step of the queues keeps that order: from SignalOrder of Fence.
THEOREM QueuesAlwaysSignalInOrder ==
  IsFiniteSet(Works) /\ TheFence \in Fences => (Spec => QueuesSignalInOrder)
<1> SUFFICES ASSUME IsFiniteSet(Works), TheFence \in Fences
             PROVE  Spec => QueuesSignalInOrder
  OBVIOUS
<1>1. Spec => The!Spec
  BY TheFenceIsAFence
<1>2. The!Spec => The!SignalsBecomeVisibleInOrder
  <2>1. /\ [c \in Waiters |-> VkQueueOf[c[1]]] \in [Waiters -> VkQueues]
        /\ 0 .. MaxCalls \subseteq Nat
        /\ {} \cap {} = {}
        /\ MaxCalls \in Nat
    BY FenceMayBeUsed
  <2> QED
    BY <2>1, MaxValueAssumption, The!SignalOrder
<1> DEFINE Ordered ==
      fences[TheFence]'.signal_count # fences[TheFence].signal_count =>
        /\ \E p \in fences[TheFence].pending_updates :
             /\ p.update_count = fences[TheFence]'.signal_count
             /\ p.virtual_value = fences[TheFence]'.virtual_value
        /\ \A p \in fences[TheFence]'.pending_updates :
             fences[TheFence]'.signal_count < p.update_count
<1>3. [Ordered]_The!vars => [Ordered]_vars
  BY DEF The!vars
<1> QED
  BY <1>1, <1>2, <1>3, PTL DEF QueuesSignalInOrder, The!SignalsBecomeVisibleInOrder

=============================================================================
