------------------------ MODULE SubmissionQueueProofs ------------------------
(***************************************************************************)
(* Proofs about the submission queue, for any threads and any number of    *)
(* commands and drains, however many threads drain at the same time.       *)
(***************************************************************************)
EXTENDS SubmissionQueue, TLAPS

-----------------------------------------------------------------------------
(* What a queue holds.                                                     *)

Submissions == [type : {"command", "drain", "stop"}, number : Nat]

\* The queue q holds, in their order, the submissions of one type that were added
\* and are not gone.
HoldsInOrder(q, type, gone, all) ==
  /\ gone <= all
  /\ \A i \in DOMAIN q : q[i].type = type => q[i].number \in (gone + 1)..all
  /\ \A n \in (gone + 1)..all : \E i \in DOMAIN q : q[i].type = type /\ q[i].number = n
  /\ \A i, j \in DOMAIN q :
       i < j /\ q[i].type = type /\ q[j].type = type => q[i].number < q[j].number

\* What appending does to a sequence.
LEMMA AppendFacts ==
  ASSUME NEW S, NEW q \in Seq(S), NEW e \in S
  PROVE  /\ Append(q, e) \in Seq(S) /\ Len(q) \in Nat /\ Len(Append(q, e)) = Len(q) + 1
         /\ DOMAIN q = 1..Len(q) /\ DOMAIN Append(q, e) = 1..(Len(q) + 1)
         /\ \A i \in 1..Len(q) : Append(q, e)[i] = q[i]
         /\ Append(q, e)[Len(q) + 1] = e
  OBVIOUS

\* What taking the first element does.
LEMMA TailFacts ==
  ASSUME NEW S, NEW q \in Seq(S), q # <<>>
  PROVE  /\ Tail(q) \in Seq(S) /\ Len(q) \in Nat \ {0} /\ Len(Tail(q)) = Len(q) - 1
         /\ DOMAIN q = 1..Len(q) /\ DOMAIN Tail(q) = 1..(Len(q) - 1)
         /\ \A i \in 1..(Len(q) - 1) : Tail(q)[i] = q[i + 1]
         /\ Head(q) = q[1] /\ Head(q) \in S
<1>1. Tail(q) \in Seq(S) /\ Len(Tail(q)) = Len(q) - 1 /\ Len(q) \in Nat \ {0}
  OBVIOUS
<1>2. DOMAIN Tail(q) = 1..(Len(q) - 1) /\ DOMAIN q = 1..Len(q)
  BY <1>1
<1>3. \A i \in 1..(Len(q) - 1) : Tail(q)[i] = q[i + 1]
  OBVIOUS
<1>4. Head(q) = q[1] /\ Head(q) \in S
  BY <1>1, <1>2
<1> QED
  BY <1>1, <1>2, <1>3, <1>4

\* A submission of another type changes nothing about the order.
LEMMA AppendOther ==
  ASSUME NEW q \in Seq(Submissions), NEW e \in Submissions, NEW type, e.type # type,
         NEW gone \in Nat, NEW all \in Nat, HoldsInOrder(q, type, gone, all)
  PROVE  HoldsInOrder(Append(q, e), type, gone, all)
<1> DEFINE r == Append(q, e)
<1>1. /\ Len(q) \in Nat /\ DOMAIN q = 1..Len(q) /\ DOMAIN r = 1..(Len(q) + 1)
      /\ \A i \in 1..Len(q) : r[i] = q[i]
      /\ r[Len(q) + 1] = e
  BY AppendFacts
<1> HIDE DEF r
<1>2. \A i \in DOMAIN r : r[i].type = type => i \in DOMAIN q /\ r[i] = q[i]
  BY <1>1
<1>3. ASSUME NEW n \in (gone + 1)..all
      PROVE  \E i \in DOMAIN r : r[i].type = type /\ r[i].number = n
  <2>1. PICK i \in DOMAIN q : q[i].type = type /\ q[i].number = n
    BY DEF HoldsInOrder
  <2> QED
    BY <1>1, <2>1
<1>4. \A i, j \in DOMAIN r :
        i < j /\ r[i].type = type /\ r[j].type = type => r[i].number < r[j].number
  BY <1>2 DEF HoldsInOrder
<1>5. gone <= all /\ \A i \in DOMAIN r : r[i].type = type => r[i].number \in (gone + 1)..all
  BY <1>2 DEF HoldsInOrder
<1> QED
  BY <1>3, <1>4, <1>5 DEF HoldsInOrder, r

\* The next one of the type goes behind the others.
LEMMA AppendNext ==
  ASSUME NEW q \in Seq(Submissions), NEW e \in Submissions, NEW type,
         NEW gone \in Nat, NEW all \in Nat, e.type = type, e.number = all + 1,
         HoldsInOrder(q, type, gone, all)
  PROVE  HoldsInOrder(Append(q, e), type, gone, all + 1)
<1> DEFINE r == Append(q, e)
<1>1. /\ Len(q) \in Nat /\ DOMAIN q = 1..Len(q) /\ DOMAIN r = 1..(Len(q) + 1)
      /\ \A i \in 1..Len(q) : r[i] = q[i]
      /\ r[Len(q) + 1] = e
  BY AppendFacts
<1> HIDE DEF r
<1>2. gone <= all + 1
  BY DEF HoldsInOrder
<1>3. ASSUME NEW i \in DOMAIN r, r[i].type = type
      PROVE  r[i].number \in (gone + 1)..(all + 1)
  BY <1>1, <1>3 DEF HoldsInOrder
<1>4. ASSUME NEW n \in (gone + 1)..(all + 1)
      PROVE  \E i \in DOMAIN r : r[i].type = type /\ r[i].number = n
  <2>1. CASE n = all + 1
    BY <1>1, <2>1
  <2>2. CASE n # all + 1
    <3>1. PICK i \in DOMAIN q : q[i].type = type /\ q[i].number = n
      BY <2>2 DEF HoldsInOrder
    <3> QED
      BY <1>1, <3>1
  <2> QED
    BY <2>1, <2>2
<1>5. ASSUME NEW i \in DOMAIN r, NEW j \in DOMAIN r, i < j, r[i].type = type, r[j].type = type
      PROVE  r[i].number < r[j].number
  <2>1. i \in DOMAIN q /\ r[i] = q[i] /\ q[i].number \in (gone + 1)..all
    BY <1>1, <1>5 DEF HoldsInOrder
  <2>2. CASE j \in DOMAIN q
    BY <1>1, <1>5, <2>1, <2>2 DEF HoldsInOrder
  <2>3. CASE j = Len(q) + 1
    BY <1>1, <2>1, <2>3
  <2> QED
    BY <1>1, <2>2, <2>3
<1> QED
  BY <1>2, <1>3, <1>4, <1>5 DEF HoldsInOrder, r

\* Nor does it matter if another one is taken.
LEMMA TakeOther ==
  ASSUME NEW q \in Seq(Submissions), q # <<>>, NEW type, Head(q).type # type,
         NEW gone \in Nat, NEW all \in Nat, HoldsInOrder(q, type, gone, all)
  PROVE  HoldsInOrder(Tail(q), type, gone, all)
<1> DEFINE r == Tail(q)
<1>1. /\ Len(q) \in Nat \ {0} /\ DOMAIN q = 1..Len(q) /\ DOMAIN r = 1..(Len(q) - 1)
      /\ \A i \in 1..(Len(q) - 1) : r[i] = q[i + 1]
      /\ q[1].type # type
  BY TailFacts
<1> HIDE DEF r
<1>2. ASSUME NEW n \in (gone + 1)..all
      PROVE  \E i \in DOMAIN r : r[i].type = type /\ r[i].number = n
  <2>1. PICK i \in DOMAIN q : q[i].type = type /\ q[i].number = n
    BY DEF HoldsInOrder
  <2>2. i - 1 \in DOMAIN r /\ r[i - 1] = q[i]
    BY <1>1, <2>1
  <2> QED
    BY <2>1, <2>2
<1>3. \A i \in DOMAIN r : i + 1 \in DOMAIN q /\ r[i] = q[i + 1] /\ i \in Nat
  BY <1>1
<1>4. \A i, j \in DOMAIN r : i < j => i + 1 < j + 1
  BY <1>1
<1> QED
  BY <1>2, <1>3, <1>4 DEF HoldsInOrder, r

\* The first of its type to be taken is the one after those that are gone.
LEMMA TakeNext ==
  ASSUME NEW q \in Seq(Submissions), q # <<>>, NEW type, Head(q).type = type,
         NEW gone \in Nat, NEW all \in Nat, HoldsInOrder(q, type, gone, all)
  PROVE  Head(q).number = gone + 1 /\ HoldsInOrder(Tail(q), type, gone + 1, all)
<1> DEFINE r == Tail(q)
<1>1. /\ Len(q) \in Nat \ {0} /\ DOMAIN q = 1..Len(q) /\ DOMAIN r = 1..(Len(q) - 1)
      /\ \A i \in 1..(Len(q) - 1) : r[i] = q[i + 1]
      /\ Head(q) = q[1] /\ q[1].type = type /\ 1 \in DOMAIN q
  BY TailFacts
<1> HIDE DEF r
<1>2. q[1].number \in (gone + 1)..all
  BY <1>1 DEF HoldsInOrder
<1>3. q[1].number = gone + 1
  <2>1. PICK i \in DOMAIN q : q[i].type = type /\ q[i].number = gone + 1
    BY <1>2 DEF HoldsInOrder
  <2>2. i = 1 \/ 1 < i
    BY <1>1, <2>1
  <2>3. 1 < i => q[1].number < q[i].number
    BY <1>1, <2>1 DEF HoldsInOrder
  <2> QED
    BY <1>2, <2>1, <2>2, <2>3
<1>4. \A i \in DOMAIN r : i + 1 \in DOMAIN q /\ r[i] = q[i + 1] /\ i \in Nat /\ 1 < i + 1
  BY <1>1
<1>5. ASSUME NEW i \in DOMAIN r, r[i].type = type
      PROVE  r[i].number \in (gone + 1 + 1)..all
  <2>1. r[i].number \in (gone + 1)..all /\ q[1].number < r[i].number
    BY <1>1, <1>4, <1>5 DEF HoldsInOrder
  <2> QED
    BY <1>3, <2>1
<1>6. ASSUME NEW n \in (gone + 1 + 1)..all
      PROVE  \E i \in DOMAIN r : r[i].type = type /\ r[i].number = n
  <2>1. PICK i \in DOMAIN q : q[i].type = type /\ q[i].number = n
    BY DEF HoldsInOrder
  <2>2. i # 1
    BY <1>3, <2>1
  <2>3. i - 1 \in DOMAIN r /\ r[i - 1] = q[i]
    BY <1>1, <2>1, <2>2
  <2> QED
    BY <2>1, <2>3
<1>7. \A i, j \in DOMAIN r : i < j => i + 1 < j + 1
  BY <1>1
<1>8. gone + 1 <= all
  BY <1>2
<1>9. \A i, j \in DOMAIN r :
        i < j /\ r[i].type = type /\ r[j].type = type => r[i].number < r[j].number
  BY <1>4, <1>7 DEF HoldsInOrder
<1> QED
  BY <1>1, <1>3, <1>5, <1>6, <1>8, <1>9 DEF HoldsInOrder, r

-----------------------------------------------------------------------------
(* The invariant.                                                          *)

\* One more is gone when the submission thread has it in hand.
InHand(type) == IF submitter = type THEN 1 ELSE 0

InOrder ==
  /\ HoldsInOrder(submissions, "command", executed + InHand("command"), submitted)
  /\ HoldsInOrder(submissions, "drain", queue_drain_count + InHand("drain"), drain_count)

\* The drain of t is in the queue, behind every command added before it.
StillAhead(t) ==
  \E i \in DOMAIN submissions :
    /\ submissions[i].type = "drain" /\ submissions[i].number = current_drain[t]
    /\ \A j \in DOMAIN submissions :
         submissions[j].type = "command" /\ submissions[j].number <= before[t] => j < i

\* A drain is queued until it is taken, and then the commands before it are done.
DrainsCover ==
  \A t \in Threads :
    /\ before[t] <= submitted
    /\ thread[t] = "draining" =>
         IF current_drain[t] <= queue_drain_count + InHand("drain")
         THEN before[t] <= executed
         ELSE StillAhead(t)
    /\ thread[t] = "holding" => before[t] <= executed

\* The STOP is the last submission, and when it is taken nobody else is inside.
StopIsLast ==
  /\ submitter \in {"stop", "ended"} => teardown # "none" /\ submissions = <<>>
  /\ \A i \in DOMAIN submissions :
       submissions[i].type = "stop" => i = Len(submissions) /\ teardown # "none"
  /\ teardown # "none" => \A t \in Threads : thread[t] = "outside"
  /\ teardown \in {"join_worker", "freed"} => submitter = "ended"
  /\ Submitter \in waiters => submitter = "taking"
  /\ \A t \in Threads : t \in waiters => thread[t] = "draining"

\* The fence worker does not leave before what it was handed is released.
NothingIsLeft ==
  /\ promised = released + batch + enqueued
  /\ worker # "working" => batch = 0
  /\ worker = "working" /\ do_exit => should_exit /\ enqueued = 0
  /\ worker = "ended" => should_exit /\ enqueued = 0
  /\ should_exit <=> teardown \in {"join_worker", "freed"}
  /\ teardown = "freed" => worker = "ended"

Inv == TypeOK /\ InOrder /\ DrainsCover /\ StopIsLast /\ NothingIsLeft

LEMMA InitInv == Init => Inv
<1> SUFFICES ASSUME Init PROVE Inv
  OBVIOUS
<1> USE SubmissionQueueAssumption
<1>1. TypeOK
  <2>1. submissions = <<>> => submissions \in Seq([type : {"command", "drain", "stop"}, number : Nat])
    OBVIOUS
  <2>2. /\ queue_lock \in Threads \cup {NoHolder} /\ waiters \subseteq Threads \cup {Submitter}
        /\ thread \in [Threads -> {"outside", "draining", "holding"}]
        /\ current_drain \in [Threads -> 0..MaxDrains] /\ before \in [Threads -> 0..MaxCommands]
    BY DEF Init
  <2>3. /\ drain_count \in 0..MaxDrains /\ queue_drain_count \in 0..drain_count
        /\ submitted \in 0..MaxCommands /\ executed \in 0..submitted
        /\ submitter \in {"taking", "command", "drain", "stop", "ended"}
        /\ teardown \in {"none", "join", "join_worker", "freed"}
    BY DEF Init
  <2>4. /\ worker \in {"taking", "waiting", "woken", "working", "ended"}
        /\ released \in 0..promised /\ promised \in 0..MaxEntries
        /\ enqueued \in 0..promised /\ batch \in 0..promised
    BY DEF Init
  <2>5. should_exit \in BOOLEAN /\ do_exit \in BOOLEAN
    BY Zenon DEF Init
  <2> QED
    BY <2>1, <2>2, <2>3, <2>4, <2>5 DEF Init, TypeOK
<1>2. InOrder
  BY DEF Init, InOrder, HoldsInOrder, InHand
<1>3. DrainsCover
  BY DEF Init, DrainsCover
<1>4. StopIsLast
  BY DEF Init, StopIsLast
<1>5. NothingIsLeft
  BY DEF Init, NothingIsLeft
<1> QED
  BY <1>1, <1>2, <1>3, <1>4, <1>5 DEF Inv

\* The steps that leave alone what is in the queue and in hand.
Elsewhere ==
  \/ \E t \in Threads : Drainer(t) \/ Release(t)
  \/ FindsNothing \/ Enqueues \/ FenceWorker \/ StopWorker \/ FreeQueue \/ SpuriousWakeup
  \/ UNCHANGED vars

LEMMA NextCases ==
  ASSUME [Next]_vars
  PROVE  \/ \E t \in Threads : AddSubmission(t)
         \/ \E t \in Threads : Acquire(t)
         \/ Takes \/ ExecutesCommand \/ ExecutesDrain \/ ExecutesStop
         \/ SubmitStop
         \/ Elsewhere
  BY DEF Next, Elsewhere, SubmissionThread, LastRelease

LEMMA ElsewhereKeeps ==
  ASSUME TypeOK, Elsewhere
  PROVE  /\ UNCHANGED <<submissions, drain_count, queue_drain_count, submitter, submitted,
                        executed, before, current_drain>>
         /\ \A t \in Threads :
              \/ thread'[t] \in {"outside", thread[t]}
              \/ thread[t] = "draining" /\ drain_done(t) /\ thread'[t] = "holding"
         /\ thread' \in [Threads -> {"outside", "draining", "holding"}]
<1>1. CASE \E t \in Threads : Drainer(t) \/ Release(t)
  BY <1>1 DEF Drainer, DrainReturns, DrainWaitsAgain, Release, TypeOK
<1>2. CASE FindsNothing \/ Enqueues \/ StopWorker \/ FreeQueue \/ SpuriousWakeup
  BY <1>2 DEF FindsNothing, Enqueues, StopWorker, FreeQueue, SpuriousWakeup, TypeOK
<1>3. CASE FenceWorker
  BY <1>3 DEF FenceWorker, WorkerWaits, WorkerTakes, WorkerReleases, WorkerIsDone, TypeOK
<1>4. CASE UNCHANGED vars
  BY <1>4 DEF vars, TypeOK
<1> QED
  BY <1>1, <1>2, <1>3, <1>4 DEF Elsewhere

LEMMA SignalFacts ==
  ASSUME NEW joining, signal(joining)
  PROVE  waiters' \subseteq waiters \cup joining
  BY DEF signal

-----------------------------------------------------------------------------
(* The order of the queue.                                                 *)

LEMMA OrderStep ==
  ASSUME Inv, [Next]_vars
  PROVE  InOrder'
<1> DEFINE C(q) == HoldsInOrder(q, "command", executed + InHand("command"), submitted)
           D(q) == HoldsInOrder(q, "drain", queue_drain_count + InHand("drain"), drain_count)
<1>0. /\ C(submissions) /\ D(submissions)
      /\ executed + InHand("command") \in Nat /\ submitted \in Nat
      /\ queue_drain_count + InHand("drain") \in Nat /\ drain_count \in Nat
      /\ submissions \in Seq(Submissions)
      /\ executed \in Nat /\ queue_drain_count \in Nat
  BY SubmissionQueueAssumption DEF Inv, InOrder, TypeOK, InHand, Submissions
<1>1. CASE \E t \in Threads : AddSubmission(t)
  <2> DEFINE e == Submission("command", submitted + 1)
  <2>1. /\ submissions' = Append(submissions, e) /\ submitted' = submitted + 1
        /\ UNCHANGED <<submitter, executed, queue_drain_count, drain_count>>
    BY <1>1 DEF AddSubmission, added
  <2>2. e \in Submissions /\ e.type = "command" /\ e.number = submitted + 1
    BY <1>0 DEF Submission, Submissions
  <2> HIDE DEF e
  <2>3. HoldsInOrder(Append(submissions, e), "command", executed + InHand("command"), submitted + 1)
    BY <1>0, <2>2, AppendNext
  <2>4. D(Append(submissions, e))
    BY <1>0, <2>2, AppendOther
  <2> QED
    BY <2>1, <2>3, <2>4 DEF InOrder, InHand
<1>2. CASE \E t \in Threads : Acquire(t)
  <2> DEFINE e == Submission("drain", drain_count + 1)
  <2>1. /\ submissions' = Append(submissions, e) /\ drain_count' = drain_count + 1
        /\ UNCHANGED <<submitter, executed, queue_drain_count, submitted>>
    BY <1>2 DEF Acquire, added
  <2>2. e \in Submissions /\ e.type = "drain" /\ e.number = drain_count + 1
    BY <1>0 DEF Submission, Submissions
  <2> HIDE DEF e
  <2>3. HoldsInOrder(Append(submissions, e), "drain", queue_drain_count + InHand("drain"), drain_count + 1)
    BY <1>0, <2>2, AppendNext
  <2>4. C(Append(submissions, e))
    BY <1>0, <2>2, AppendOther
  <2> QED
    BY <2>1, <2>3, <2>4 DEF InOrder, InHand
<1>3. CASE SubmitStop
  <2> DEFINE e == Submission("stop", 1)
  <2>1. /\ submissions' = Append(submissions, e)
        /\ UNCHANGED <<submitter, executed, queue_drain_count, submitted, drain_count>>
    BY <1>3 DEF SubmitStop, added
  <2>2. e \in Submissions /\ e.type = "stop"
    BY DEF Submission, Submissions
  <2> HIDE DEF e
  <2>3. C(Append(submissions, e)) /\ D(Append(submissions, e))
    BY <1>0, <2>2, AppendOther
  <2> QED
    BY <2>1, <2>3 DEF InOrder, InHand
<1>4. CASE Takes
  <2>1. /\ submissions # <<>> /\ submissions' = Tail(submissions)
        /\ submitter = "taking" /\ submitter' = Head(submissions).type
        /\ UNCHANGED <<executed, queue_drain_count, submitted, drain_count>>
    BY <1>4 DEF Takes
  <2>2. InHand("command") = 0 /\ InHand("drain") = 0
    BY <2>1 DEF InHand
  <2>3. Head(submissions).type = "command" =>
          HoldsInOrder(Tail(submissions), "command", executed + 1, submitted)
    BY <1>0, <2>1, <2>2, TakeNext
  <2>4. Head(submissions).type # "command" =>
          HoldsInOrder(Tail(submissions), "command", executed, submitted)
    BY <1>0, <2>1, <2>2, TakeOther
  <2>5. Head(submissions).type = "drain" =>
          HoldsInOrder(Tail(submissions), "drain", queue_drain_count + 1, drain_count)
    BY <1>0, <2>1, <2>2, TakeNext
  <2>6. Head(submissions).type # "drain" =>
          HoldsInOrder(Tail(submissions), "drain", queue_drain_count, drain_count)
    BY <1>0, <2>1, <2>2, TakeOther
  <2>7. HoldsInOrder(submissions', "command", executed' + InHand("command")', submitted')
    <3>1. CASE Head(submissions).type = "command"
      BY <1>0, <2>1, <2>3, <3>1 DEF InHand
    <3>2. CASE Head(submissions).type # "command"
      BY <1>0, <2>1, <2>4, <3>2 DEF InHand
    <3> QED
      BY <3>1, <3>2
  <2>8. HoldsInOrder(submissions', "drain", queue_drain_count' + InHand("drain")', drain_count')
    <3>1. CASE Head(submissions).type = "drain"
      BY <1>0, <2>1, <2>5, <3>1 DEF InHand
    <3>2. CASE Head(submissions).type # "drain"
      BY <1>0, <2>1, <2>6, <3>2 DEF InHand
    <3> QED
      BY <3>1, <3>2
  <2> QED
    BY <2>7, <2>8 DEF InOrder, HoldsInOrder
<1>5. CASE ExecutesCommand
  <2>1. /\ UNCHANGED <<submissions, queue_drain_count, submitted, drain_count>>
        /\ executed' + InHand("command")' = executed + InHand("command")
        /\ InHand("drain")' = InHand("drain")
    BY <1>0, <1>5 DEF ExecutesCommand, InHand
  <2> QED
    BY <1>0, <2>1 DEF InOrder, HoldsInOrder
<1>6. CASE ExecutesDrain
  <2>1. /\ UNCHANGED <<submissions, executed, submitted, drain_count>>
        /\ queue_drain_count' + InHand("drain")' = queue_drain_count + InHand("drain")
        /\ InHand("command")' = InHand("command")
    BY <1>0, <1>6 DEF ExecutesDrain, InHand
  <2> QED
    BY <1>0, <2>1 DEF InOrder, HoldsInOrder
<1>7. CASE ExecutesStop
  <2>1. /\ UNCHANGED <<submissions, executed, queue_drain_count, submitted, drain_count>>
        /\ InHand("command")' = InHand("command") /\ InHand("drain")' = InHand("drain")
    BY <1>7 DEF ExecutesStop, InHand
  <2> QED
    BY <1>0, <2>1 DEF InOrder, HoldsInOrder
<1>8. CASE Elsewhere
  <2>1. UNCHANGED <<submissions, drain_count, queue_drain_count, submitter, submitted, executed>>
    BY <1>8, ElsewhereKeeps DEF Inv
  <2> QED
    BY <1>0, <2>1 DEF InOrder, HoldsInOrder, InHand
<1> QED
  BY <1>1, <1>2, <1>3, <1>4, <1>5, <1>6, <1>7, <1>8, NextCases

-----------------------------------------------------------------------------
(* Types.                                                                  *)

LEMMA TypesStep ==
  ASSUME Inv, [Next]_vars
  PROVE  TypeOK'
<1> USE SubmissionQueueAssumption
<1>0. TypeOK /\ submissions \in Seq(Submissions)
  BY DEF Inv, TypeOK, Submissions
<1>1. CASE \E t \in Threads : AddSubmission(t)
  <2>1. submitted' \in Nat /\ submissions' \in Seq(Submissions)
    <3>1. Submission("command", submitted + 1) \in Submissions
      BY <1>0 DEF TypeOK, Submission, Submissions
    <3> QED
      BY <1>0, <1>1, <3>1, AppendFacts DEF AddSubmission, added, TypeOK
  <2>2. waiters' \subseteq waiters
    BY <1>1, SignalFacts DEF AddSubmission
  <2> QED
    BY <1>0, <1>1, <2>1, <2>2 DEF AddSubmission, TypeOK, Submissions, fenceVars
<1>2. CASE \E t \in Threads : Acquire(t)
  <2>1. PICK t \in Threads : Acquire(t)
    BY <1>2
  <2>2. drain_count' \in Nat /\ submissions' \in Seq(Submissions)
    <3>1. Submission("drain", drain_count + 1) \in Submissions
      BY <1>0 DEF TypeOK, Submission, Submissions
    <3> QED
      BY <1>0, <2>1, <3>1, AppendFacts DEF Acquire, added, TypeOK
  <2>3. waiters' \subseteq waiters \cup {t}
    BY <2>1, SignalFacts DEF Acquire
  <2> QED
    BY <1>0, <2>1, <2>2, <2>3 DEF Acquire, TypeOK, Submissions, fenceVars
<1>3. CASE SubmitStop
  <2>1. submissions' \in Seq(Submissions)
    <3>1. Submission("stop", 1) \in Submissions
      BY DEF Submission, Submissions
    <3> QED
      BY <1>0, <1>3, <3>1, AppendFacts DEF SubmitStop, added
  <2>2. waiters' \subseteq waiters
    BY <1>3, SignalFacts DEF SubmitStop
  <2> QED
    BY <1>0, <1>3, <2>1, <2>2 DEF SubmitStop, TypeOK, Submissions, fenceVars
<1>4. CASE Takes
  <2>1. submissions' \in Seq(Submissions) /\ submitter' \in {"command", "drain", "stop"}
    <3>1. Tail(submissions) \in Seq(Submissions) /\ Head(submissions) \in Submissions
      BY <1>0, <1>4, TailFacts DEF Takes
    <3> QED
      BY <1>4, <3>1 DEF Takes, Submissions
  <2> QED
    BY <1>0, <1>4, <2>1 DEF Takes, TypeOK, Submissions, fenceVars
<1>5. CASE ExecutesCommand
  <2>1. executed + 1 <= submitted
    BY <1>5 DEF Inv, InOrder, HoldsInOrder, InHand, ExecutesCommand
  <2>2. executed' \in 0..submitted
    BY <1>0, <1>5, <2>1 DEF ExecutesCommand, TypeOK
  <2> QED
    BY <1>0, <1>5, <2>2 DEF ExecutesCommand, TypeOK, fenceVars
<1>6. CASE ExecutesDrain
  <2>1. queue_drain_count + 1 <= drain_count
    BY <1>6 DEF Inv, InOrder, HoldsInOrder, InHand, ExecutesDrain
  <2>2. queue_drain_count' \in 0..drain_count
    BY <1>0, <1>6, <2>1 DEF ExecutesDrain, TypeOK
  <2>3. waiters' \subseteq waiters
    BY <1>6, SignalFacts DEF ExecutesDrain
  <2> QED
    BY <1>0, <1>6, <2>2, <2>3 DEF ExecutesDrain, TypeOK, fenceVars
<1>7. CASE ExecutesStop
  BY <1>0, <1>7 DEF ExecutesStop, TypeOK, fenceVars
<1>8. CASE Elsewhere
  <2>1. CASE \E t \in Threads : Drainer(t) \/ Release(t)
    BY <1>0, <2>1 DEF Drainer, DrainReturns, DrainWaitsAgain, Release, TypeOK, fenceVars
  <2>2. CASE FindsNothing \/ StopWorker \/ FreeQueue \/ SpuriousWakeup
    BY <1>0, <2>2 DEF FindsNothing, StopWorker, FreeQueue, SpuriousWakeup, signal_worker,
                      TypeOK, fenceVars
  <2>3. CASE Enqueues
    <3>1. /\ worker' \in {"taking", "waiting", "woken", "working", "ended"}
          /\ promised' \in 0..MaxEntries /\ enqueued' \in 0..promised'
          /\ batch' \in 0..promised' /\ released' \in 0..promised'
      BY <1>0, <2>3 DEF Enqueues, signal_worker, TypeOK
    <3> QED
      BY <1>0, <2>3, <3>1 DEF Enqueues, TypeOK
  <2>4. CASE FenceWorker
    <3>1. promised = released + batch + enqueued
      BY DEF Inv, NothingIsLeft
    <3>2. /\ worker' \in {"taking", "waiting", "woken", "working", "ended"}
          /\ should_exit' \in BOOLEAN /\ do_exit' \in BOOLEAN
      BY <1>0, <2>4 DEF FenceWorker, WorkerWaits, WorkerTakes, WorkerReleases, WorkerIsDone, TypeOK
    <3>3. /\ released' \in 0..promised' /\ promised' \in 0..MaxEntries
          /\ enqueued' \in 0..promised' /\ batch' \in 0..promised'
      <4>1. CASE WorkerReleases
        BY <1>0, <3>1, <4>1 DEF WorkerReleases, TypeOK
      <4>2. CASE WorkerWaits \/ WorkerTakes \/ WorkerIsDone
        BY <1>0, <4>2 DEF WorkerWaits, WorkerTakes, WorkerIsDone, TypeOK
      <4> QED
        BY <2>4, <4>1, <4>2 DEF FenceWorker
    <3>4. UNCHANGED <<queue_lock, waiters, submissions, drain_count, queue_drain_count, thread,
                      current_drain, submitter, submitted, executed, before, teardown>>
      BY <2>4 DEF FenceWorker, WorkerWaits, WorkerTakes, WorkerReleases, WorkerIsDone
    <3> QED
      BY <1>0, <3>2, <3>3, <3>4 DEF TypeOK
  <2>5. CASE UNCHANGED vars
    BY <1>0, <2>5 DEF vars, fenceVars, TypeOK
  <2> QED
    BY <1>8, <2>1, <2>2, <2>3, <2>4, <2>5 DEF Elsewhere
<1> QED
  BY <1>1, <1>2, <1>3, <1>4, <1>5, <1>6, <1>7, <1>8, NextCases

-----------------------------------------------------------------------------
(* Drains.                                                                 *)

\* What stays in the queue stays behind what was ahead of it.
LEMMA AheadOfAppended ==
  ASSUME TypeOK, NEW t \in Threads, StillAhead(t), NEW e \in Submissions,
         e.type = "command" => before[t] < e.number,
         submissions' = Append(submissions, e),
         current_drain'[t] = current_drain[t], before'[t] = before[t]
  PROVE  StillAhead(t)'
<1> DEFINE q == submissions  r == submissions'
<1>1. /\ Len(q) \in Nat /\ DOMAIN q = 1..Len(q) /\ DOMAIN r = 1..(Len(q) + 1)
      /\ \A i \in 1..Len(q) : r[i] = q[i]
      /\ r[Len(q) + 1] = e
  <2>1. q \in Seq(Submissions)
    BY DEF TypeOK, Submissions
  <2> QED
    BY <2>1, AppendFacts
<1>2. PICK i \in DOMAIN q :
        /\ q[i].type = "drain" /\ q[i].number = current_drain[t]
        /\ \A j \in DOMAIN q : q[j].type = "command" /\ q[j].number <= before[t] => j < i
  BY DEF StillAhead
<1>3. before[t] \in Nat /\ e.number \in Nat
  BY DEF TypeOK, Submissions
<1> HIDE DEF q, r
<1>4. ASSUME NEW j \in DOMAIN r, r[j].type = "command", r[j].number <= before[t]
      PROVE  j < i
  BY <1>1, <1>2, <1>3, <1>4
<1>5. i \in DOMAIN r /\ r[i].type = "drain" /\ r[i].number = current_drain[t]
  BY <1>1, <1>2
<1> QED
  BY <1>4, <1>5 DEF StillAhead, r

LEMMA AheadOfTaken ==
  ASSUME TypeOK, NEW t \in Threads, StillAhead(t), submissions # <<>>,
         submissions' = Tail(submissions),
         ~(Head(submissions).type = "drain" /\ Head(submissions).number = current_drain[t]),
         current_drain'[t] = current_drain[t], before'[t] = before[t]
  PROVE  StillAhead(t)'
<1> DEFINE q == submissions  r == submissions'
<1>1. /\ Len(q) \in Nat \ {0} /\ DOMAIN q = 1..Len(q) /\ DOMAIN r = 1..(Len(q) - 1)
      /\ \A i \in 1..(Len(q) - 1) : r[i] = q[i + 1]
      /\ Head(q) = q[1]
  <2>1. q \in Seq(Submissions)
    BY DEF TypeOK, Submissions
  <2> QED
    BY <2>1, TailFacts
<1>2. PICK i \in DOMAIN q :
        /\ q[i].type = "drain" /\ q[i].number = current_drain[t]
        /\ \A j \in DOMAIN q : q[j].type = "command" /\ q[j].number <= before[t] => j < i
  BY DEF StillAhead
<1>3. ~(q[1].type = "drain" /\ q[1].number = current_drain[t])
  BY <1>1
<1> HIDE DEF q, r
<1>4. i # 1 /\ i - 1 \in DOMAIN r /\ r[i - 1] = q[i]
  BY <1>1, <1>2, <1>3
<1>5. ASSUME NEW j \in DOMAIN r, r[j].type = "command", r[j].number <= before[t]
      PROVE  j < i - 1
  <2>1. j + 1 \in DOMAIN q /\ r[j] = q[j + 1]
    BY <1>1
  <2>2. j + 1 < i
    BY <1>2, <1>5, <2>1
  <2> QED
    BY <1>1, <1>2, <2>2
<1> QED
  BY <1>2, <1>4, <1>5 DEF StillAhead, r

\* When a drain is at the head of the queue, what was added before it is gone.
LEMMA HeadIsDrain ==
  ASSUME TypeOK, InOrder, NEW t \in Threads, StillAhead(t), before[t] <= submitted,
         submissions # <<>>, submitter = "taking",
         Head(submissions).type = "drain", Head(submissions).number = current_drain[t]
  PROVE  before[t] <= executed
<1> DEFINE q == submissions
<1>1. /\ Len(q) \in Nat \ {0} /\ DOMAIN q = 1..Len(q)
      /\ q[1].type = "drain" /\ q[1].number = current_drain[t]
  <2>1. q \in Seq(Submissions)
    BY DEF TypeOK, Submissions
  <2> QED
    BY <2>1, TailFacts
<1>2. PICK i \in DOMAIN q :
        /\ q[i].type = "drain" /\ q[i].number = current_drain[t]
        /\ \A j \in DOMAIN q : q[j].type = "command" /\ q[j].number <= before[t] => j < i
  BY DEF StillAhead
<1>3. /\ HoldsInOrder(q, "drain", queue_drain_count, drain_count)
      /\ HoldsInOrder(q, "command", executed, submitted)
      /\ queue_drain_count \in Nat /\ executed \in Nat /\ submitted \in Nat
      /\ before[t] \in Nat /\ current_drain[t] \in Nat
  BY SubmissionQueueAssumption DEF InOrder, InHand, TypeOK
<1> HIDE DEF q
<1>4. i = 1
  <2>1. 1 < i => q[1].number < q[i].number
    BY <1>1, <1>2, <1>3 DEF HoldsInOrder
  <2> QED
    BY <1>1, <1>2, <1>3, <2>1
<1>5. SUFFICES ASSUME executed < before[t] PROVE FALSE
  BY <1>3
<1>6. PICK j \in DOMAIN q : q[j].type = "command" /\ q[j].number = before[t]
  BY <1>3, <1>5 DEF HoldsInOrder
<1> QED
  BY <1>1, <1>2, <1>3, <1>4, <1>6

\* What is claimed of one thread.
Covers(t) ==
  /\ before[t] <= submitted
  /\ thread[t] = "draining" =>
       IF current_drain[t] <= queue_drain_count + InHand("drain")
       THEN before[t] <= executed
       ELSE StillAhead(t)
  /\ thread[t] = "holding" => before[t] <= executed

LEMMA DrainsStep ==
  ASSUME Inv, [Next]_vars
  PROVE  DrainsCover'
<1> SUFFICES ASSUME NEW t \in Threads PROVE Covers(t)'
  BY DEF DrainsCover, Covers
<1>0. /\ TypeOK /\ Covers(t)
      /\ before[t] \in Nat /\ submitted \in Nat /\ executed \in Nat
      /\ queue_drain_count \in Nat /\ drain_count \in Nat /\ current_drain[t] \in Nat
      /\ submissions \in Seq(Submissions) /\ executed <= submitted
  BY SubmissionQueueAssumption DEF Inv, DrainsCover, Covers, TypeOK, Submissions
<1>1. CASE \E u \in Threads : AddSubmission(u)
  <2> DEFINE e == Submission("command", submitted + 1)
  <2>1. /\ submissions' = Append(submissions, e) /\ submitted' = submitted + 1
        /\ UNCHANGED <<submitter, executed, queue_drain_count, thread, current_drain, before>>
    BY <1>1 DEF AddSubmission, added
  <2>2. e \in Submissions /\ e.type = "command" /\ before[t] < e.number
    BY <1>0 DEF Submission, Submissions, Covers
  <2> HIDE DEF e
  <2>3. StillAhead(t) => StillAhead(t)'
    BY <1>0, <2>1, <2>2, AheadOfAppended
  <2> QED
    BY <1>0, <2>1, <2>3 DEF Covers, InHand
<1>2. CASE \E u \in Threads : Acquire(u)
  <2>1. PICK u \in Threads : Acquire(u)
    BY <1>2
  <2> DEFINE e == Submission("drain", drain_count + 1)
  <2>2. /\ submissions' = Append(submissions, e)
        /\ UNCHANGED <<submitter, executed, queue_drain_count, submitted>>
    BY <2>1 DEF Acquire, added
  <2>3. e \in Submissions /\ e.type = "drain" /\ e.number = drain_count + 1
    BY <1>0 DEF Submission, Submissions
  <2> HIDE DEF e
  <2>4. CASE t # u
    <3>1. thread'[t] = thread[t] /\ current_drain'[t] = current_drain[t] /\ before'[t] = before[t]
      BY <1>0, <2>1, <2>4 DEF Acquire, TypeOK
    <3>2. StillAhead(t) => StillAhead(t)'
      BY <1>0, <2>2, <2>3, <3>1, AheadOfAppended
    <3> QED
      BY <1>0, <2>2, <3>1, <3>2 DEF Covers, InHand
  <2>5. CASE t = u
    <3>1. /\ thread'[t] = "draining" /\ current_drain'[t] = drain_count + 1
          /\ before'[t] = submitted
      BY <1>0, <2>1, <2>5 DEF Acquire, TypeOK
    <3>2. ~(current_drain'[t] <= queue_drain_count' + InHand("drain")')
      BY <1>0, <2>2, <3>1 DEF Inv, InOrder, HoldsInOrder, InHand
    <3> DEFINE q == submissions  r == submissions'
    <3>3. /\ Len(q) \in Nat /\ DOMAIN q = 1..Len(q) /\ DOMAIN r = 1..(Len(q) + 1)
          /\ r[Len(q) + 1] = e
      BY <1>0, <2>2, <2>3, AppendFacts
    <3> HIDE DEF q, r
    <3>4. \A j \in DOMAIN r : r[j].type = "command" => j < Len(q) + 1
      BY <2>3, <3>3
    <3>5. Len(q) + 1 \in DOMAIN r
      BY <3>3
    <3>6. StillAhead(t)'
      BY <2>3, <3>1, <3>3, <3>4, <3>5 DEF StillAhead, r
    <3> QED
      BY <1>0, <2>2, <3>1, <3>2, <3>6 DEF Covers
  <2> QED
    BY <2>4, <2>5
<1>3. CASE SubmitStop
  <2> DEFINE e == Submission("stop", 1)
  <2>1. /\ submissions' = Append(submissions, e)
        /\ UNCHANGED <<submitter, executed, queue_drain_count, submitted, thread, current_drain, before>>
    BY <1>3 DEF SubmitStop, added
  <2>2. e \in Submissions /\ e.type = "stop"
    BY DEF Submission, Submissions
  <2> HIDE DEF e
  <2>3. StillAhead(t) => StillAhead(t)'
    BY <1>0, <2>1, <2>2, AheadOfAppended
  <2> QED
    BY <1>0, <2>1, <2>3 DEF Covers, InHand
<1>4. CASE Takes
  <2>1. /\ submissions # <<>> /\ submissions' = Tail(submissions)
        /\ submitter = "taking" /\ submitter' = Head(submissions).type
        /\ UNCHANGED <<executed, queue_drain_count, submitted, thread, current_drain, before>>
    BY <1>4 DEF Takes
  <2>2. Head(submissions).type = "drain" => Head(submissions).number = queue_drain_count + 1
    BY <1>0, <2>1, TakeNext DEF Inv, InOrder, InHand
  <2>3. CASE ~StillAhead(t)
    BY <1>0, <2>1, <2>3 DEF Covers, InHand
  <2>4. CASE StillAhead(t) /\ Head(submissions).type = "drain"
                           /\ Head(submissions).number = current_drain[t]
    <3>1. before[t] <= executed
      BY <1>0, <2>1, <2>4, HeadIsDrain DEF Inv, Covers
    <3>2. InHand("drain")' = 1
      BY <2>1, <2>4 DEF InHand
    <3> QED
      BY <1>0, <2>1, <2>2, <2>4, <3>1, <3>2 DEF Covers
  <2>5. CASE StillAhead(t) /\ ~(Head(submissions).type = "drain"
                                /\ Head(submissions).number = current_drain[t])
    <3>1. StillAhead(t)'
      BY <1>0, <2>1, <2>5, AheadOfTaken
    <3>2. /\ InHand("drain") = 0
          /\ InHand("drain")' = IF Head(submissions).type = "drain" THEN 1 ELSE 0
      BY <2>1 DEF InHand
    <3>3. current_drain[t] <= queue_drain_count + InHand("drain")'
            => current_drain[t] <= queue_drain_count
      BY <1>0, <2>2, <2>5, <3>2
    <3>4. before'[t] <= submitted' /\ (thread'[t] = "holding" => before'[t] <= executed')
      BY <1>0, <2>1 DEF Covers
    <3>5. thread[t] = "draining" /\ current_drain[t] <= queue_drain_count => before[t] <= executed
      BY <1>0, <3>2 DEF Covers
    <3> QED
      BY <2>1, <3>1, <3>3, <3>4, <3>5 DEF Covers
  <2> QED
    BY <2>3, <2>4, <2>5
<1>5. CASE ExecutesCommand
  <2>1. /\ UNCHANGED <<submissions, queue_drain_count, submitted, thread, current_drain, before>>
        /\ executed' = executed + 1 /\ InHand("drain")' = InHand("drain")
    BY <1>5 DEF ExecutesCommand, InHand
  <2> QED
    BY <1>0, <2>1 DEF Covers, StillAhead
<1>6. CASE ExecutesDrain
  <2>1. /\ UNCHANGED <<submissions, executed, submitted, thread, current_drain, before>>
        /\ queue_drain_count' + InHand("drain")' = queue_drain_count + InHand("drain")
    BY <1>0, <1>6 DEF ExecutesDrain, InHand
  <2> QED
    BY <1>0, <2>1 DEF Covers, StillAhead
<1>7. CASE ExecutesStop
  <2>1. /\ UNCHANGED <<submissions, executed, queue_drain_count, submitted, thread, current_drain, before>>
        /\ InHand("drain")' = InHand("drain")
    BY <1>7 DEF ExecutesStop, InHand
  <2> QED
    BY <1>0, <2>1 DEF Covers, StillAhead
<1>8. CASE Elsewhere
  <2>1. /\ UNCHANGED <<submissions, queue_drain_count, submitter, submitted, executed, before, current_drain>>
        /\ \/ thread'[t] \in {"outside", thread[t]}
           \/ thread[t] = "draining" /\ drain_done(t) /\ thread'[t] = "holding"
    BY <1>0, <1>8, ElsewhereKeeps
  <2>2. InHand("drain")' = InHand("drain") /\ InHand("drain") \in Nat
        /\ StillAhead(t)' = StillAhead(t)
    BY <2>1 DEF InHand, StillAhead
  <2>3. CASE thread'[t] \in {"outside", thread[t]}
    BY <1>0, <2>1, <2>2, <2>3 DEF Covers
  <2>4. CASE thread[t] = "draining" /\ drain_done(t) /\ thread'[t] = "holding"
    BY <1>0, <2>1, <2>2, <2>4 DEF Covers, drain_done
  <2> QED
    BY <2>1, <2>3, <2>4
<1> QED
  BY <1>1, <1>2, <1>3, <1>4, <1>5, <1>6, <1>7, <1>8, NextCases

-----------------------------------------------------------------------------
(* Teardown.                                                               *)

LEMMA StopStep ==
  ASSUME Inv, [Next]_vars
  PROVE  StopIsLast'
<1> DEFINE StopAtEnd(q, down) == \A i \in DOMAIN q : q[i].type = "stop" => i = Len(q) /\ down # "none"
<1>0. /\ TypeOK /\ StopIsLast /\ submissions \in Seq(Submissions)
      /\ StopAtEnd(submissions, teardown) /\ Submitter \notin Threads
  BY SubmissionQueueAssumption DEF Inv, TypeOK, Submissions, StopIsLast
<1>1. CASE \E u \in Threads : AddSubmission(u)
  <2> DEFINE e == Submission("command", submitted + 1)
  <2>1. /\ submissions' = Append(submissions, e) /\ teardown = "none"
        /\ UNCHANGED <<submitter, thread, teardown>>
        /\ signal({})
    BY <1>1 DEF AddSubmission, added
  <2>2. e \in Submissions /\ e.type = "command"
    BY <1>0 DEF Submission, Submissions, TypeOK
  <2> HIDE DEF e
  <2>3. \A i \in DOMAIN submissions' : submissions'[i].type # "stop"
    BY <1>0, <2>1, <2>2, AppendFacts
  <2>4. waiters' \subseteq waiters
    BY <2>1, SignalFacts
  <2> QED
    BY <1>0, <2>1, <2>3, <2>4 DEF StopIsLast
<1>2. CASE \E u \in Threads : Acquire(u)
  <2>1. PICK u \in Threads : Acquire(u)
    BY <1>2
  <2> DEFINE e == Submission("drain", drain_count + 1)
  <2>2. /\ submissions' = Append(submissions, e) /\ teardown = "none"
        /\ UNCHANGED <<submitter, teardown>>
        /\ signal({u})
    BY <2>1 DEF Acquire, added
  <2>3. e \in Submissions /\ e.type = "drain"
    BY <1>0 DEF Submission, Submissions, TypeOK
  <2> HIDE DEF e
  <2>4. \A i \in DOMAIN submissions' : submissions'[i].type # "stop"
    BY <1>0, <2>2, <2>3, AppendFacts
  <2>5. waiters' \subseteq waiters \cup {u}
    BY <2>2, SignalFacts
  <2>6. thread'[u] = "draining" /\ \A t \in Threads : t # u => thread'[t] = thread[t]
    BY <1>0, <2>1 DEF Acquire, TypeOK
  <2> QED
    BY <1>0, <2>2, <2>4, <2>5, <2>6 DEF StopIsLast
<1>3. CASE SubmitStop
  <2> DEFINE e == Submission("stop", 1)
  <2>1. /\ submissions' = Append(submissions, e) /\ teardown = "none" /\ teardown' = "join"
        /\ UNCHANGED <<submitter, thread>>
        /\ \A t \in Threads : thread[t] = "outside"
        /\ signal({})
    BY <1>3 DEF SubmitStop, added
  <2>2. e \in Submissions
    BY DEF Submission, Submissions
  <2> HIDE DEF e
  <2>3. StopAtEnd(submissions', teardown')
    BY <1>0, <2>1, <2>2, AppendFacts
  <2>4. waiters' \subseteq waiters
    BY <2>1, SignalFacts
  <2> QED
    BY <1>0, <2>1, <2>3, <2>4 DEF StopIsLast
<1>4. CASE Takes
  <2>1. /\ submissions # <<>> /\ submissions' = Tail(submissions)
        /\ submitter = "taking" /\ submitter' = Head(submissions).type
        /\ Submitter \notin waiters
        /\ UNCHANGED <<thread, teardown, waiters>>
    BY <1>4 DEF Takes
  <2> DEFINE q == submissions  r == submissions'
  <2>2. /\ r \in Seq(Submissions) /\ Len(q) \in Nat \ {0} /\ Len(r) = Len(q) - 1
        /\ DOMAIN q = 1..Len(q) /\ DOMAIN r = 1..(Len(q) - 1)
        /\ \A i \in 1..(Len(q) - 1) : r[i] = q[i + 1]
        /\ Head(q) = q[1] /\ Head(q) \in Submissions
    BY <1>0, <2>1, TailFacts
  <2>3. StopAtEnd(q, teardown)
    BY <1>0
  <2>4. Len(r) = 0 => r = <<>>
    BY <2>2
  <2> HIDE DEF q, r
  <2>5. StopAtEnd(r, teardown)
    BY <2>2, <2>3
  <2>6. q[1].type = "stop" => r = <<>> /\ teardown # "none"
    BY <2>2, <2>3, <2>4
  <2>7. submitter' # "ended"
    BY <2>1, <2>2 DEF Submissions, q
  <2>8. submitter' = "stop" => teardown' # "none" /\ submissions' = <<>>
    BY <2>1, <2>2, <2>6 DEF q, r
  <2>9. StopAtEnd(submissions', teardown')
    BY <2>1, <2>5 DEF r
  <2>10. submitter # "ended"
    BY <2>1
  <2> QED
    BY <1>0, <2>1, <2>7, <2>8, <2>9, <2>10 DEF StopIsLast
<1>5. CASE ExecutesCommand
  BY <1>0, <1>5 DEF ExecutesCommand, StopIsLast
<1>6. CASE ExecutesDrain
  <2>1. waiters' \subseteq waiters
    BY <1>6, SignalFacts DEF ExecutesDrain
  <2> QED
    BY <1>0, <1>6, <2>1 DEF ExecutesDrain, StopIsLast, fenceVars
<1>7. CASE ExecutesStop
  BY <1>0, <1>7 DEF ExecutesStop, StopIsLast
<1>8. CASE Elsewhere
  <2>1. CASE \E u \in Threads : Drainer(u) \/ Release(u)
    <3>1. PICK u \in Threads : DrainReturns(u) \/ DrainWaitsAgain(u) \/ Release(u)
      BY <2>1 DEF Drainer
    <3>2. /\ UNCHANGED <<submissions, submitter, teardown>>
          /\ thread[u] \in {"draining", "holding"}
      BY <3>1 DEF DrainReturns, DrainWaitsAgain, Release
    <3>3. /\ waiters' \subseteq waiters \cup {u}
          /\ u \in waiters' => thread'[u] = "draining"
          /\ \A t \in Threads : t # u => thread'[t] = thread[t]
      BY <1>0, <3>1 DEF DrainReturns, DrainWaitsAgain, Release, TypeOK, StopIsLast
    <3>4. teardown = "none"
      BY <1>0, <3>2 DEF StopIsLast, TypeOK
    <3> QED
      BY <1>0, <3>2, <3>3, <3>4 DEF StopIsLast
  <2>2. CASE FindsNothing \/ Enqueues \/ StopWorker \/ FreeQueue \/ SpuriousWakeup
    BY <1>0, <2>2 DEF FindsNothing, Enqueues, StopWorker, FreeQueue, SpuriousWakeup, StopIsLast
  <2>3. CASE FenceWorker
    BY <1>0, <2>3 DEF FenceWorker, WorkerWaits, WorkerTakes, WorkerReleases, WorkerIsDone, StopIsLast
  <2>4. CASE UNCHANGED vars
    BY <1>0, <2>4 DEF vars, StopIsLast
  <2> QED
    BY <1>8, <2>1, <2>2, <2>3, <2>4 DEF Elsewhere
<1> QED
  BY <1>1, <1>2, <1>3, <1>4, <1>5, <1>6, <1>7, <1>8, NextCases

LEMMA NothingIsLeftStep ==
  ASSUME Inv, [Next]_vars
  PROVE  NothingIsLeft'
<1>0. /\ TypeOK /\ StopIsLast /\ NothingIsLeft
      /\ released \in Nat /\ batch \in Nat /\ enqueued \in Nat /\ promised \in Nat
  BY SubmissionQueueAssumption DEF Inv, TypeOK
<1>1. CASE UNCHANGED <<fenceVars, teardown>>
  BY <1>0, <1>1 DEF NothingIsLeft, fenceVars
<1>2. CASE SubmitStop
  BY <1>0, <1>2 DEF SubmitStop, NothingIsLeft, fenceVars
<1>3. CASE Enqueues
  <2>1. ~should_exit /\ UNCHANGED <<teardown>>
    BY <1>0, <1>3 DEF Enqueues, StopIsLast, NothingIsLeft
  <2> QED
    BY <1>0, <1>3, <2>1 DEF Enqueues, signal_worker, NothingIsLeft
<1>4. CASE FenceWorker
  <2>1. CASE WorkerWaits
    BY <1>0, <2>1 DEF WorkerWaits, NothingIsLeft
  <2>2. CASE WorkerTakes
    BY <1>0, <2>2 DEF WorkerTakes, NothingIsLeft
  <2>3. CASE WorkerReleases
    BY <1>0, <2>3 DEF WorkerReleases, NothingIsLeft
  <2>4. CASE WorkerIsDone
    BY <1>0, <2>4 DEF WorkerIsDone, leaving, NothingIsLeft
  <2> QED
    BY <1>4, <2>1, <2>2, <2>3, <2>4 DEF FenceWorker
<1>5. CASE StopWorker
  BY <1>0, <1>5 DEF StopWorker, signal_worker, NothingIsLeft
<1>6. CASE FreeQueue
  BY <1>0, <1>6 DEF FreeQueue, NothingIsLeft, fenceVars
<1>7. CASE SpuriousWakeup
  BY <1>0, <1>7 DEF SpuriousWakeup, NothingIsLeft
<1>8. [Next]_vars => \/ UNCHANGED <<fenceVars, teardown>>
                     \/ SubmitStop \/ Enqueues \/ FenceWorker \/ StopWorker \/ FreeQueue
                     \/ SpuriousWakeup
  BY DEF Next, vars, fenceVars, AddSubmission, Acquire, Drainer, DrainReturns, DrainWaitsAgain,
         Release, SubmissionThread, Takes, FindsNothing, ExecutesCommand, ExecutesDrain, ExecutesStop,
         LastRelease
<1> QED
  BY <1>1, <1>2, <1>3, <1>4, <1>5, <1>6, <1>7, <1>8

-----------------------------------------------------------------------------
LEMMA InvStep ==
  ASSUME Inv, [Next]_vars
  PROVE  Inv'
  BY TypesStep, OrderStep, DrainsStep, StopStep, NothingIsLeftStep DEF Inv

THEOREM InvHolds == Spec => []Inv
<1>1. Inv /\ [Next]_vars => Inv'
  BY InvStep
<1> QED
  BY InitInv, <1>1, PTL DEF Spec

\* The types of the submission queue's state (the bounds are the run's).
THEOREM TypesHold == Spec => []TypeOK
<1>1. Inv => TypeOK
  BY DEF Inv
<1> QED
  BY InvHolds, <1>1, PTL

\* vkd3d_acquire_vk_queue gives nobody the VkQueue before the commands that were
\* added ahead of the call are executed, however many threads drain at once.
THEOREM DrainsAreComplete == Spec => []AcquireMeansDrained
<1>1. Inv => AcquireMeansDrained
  BY DEF Inv, DrainsCover, AcquireMeansDrained
<1> QED
  BY InvHolds, <1>1, PTL

\* When the last Release of a command queue frees it, no command and no entry of its
\* fence worker is lost, and neither thread nor any caller is left inside.
THEOREM ReleaseIsComplete == Spec => []ReleaseLosesNothing
<1>1. Inv => ReleaseLosesNothing
  <2> SUFFICES ASSUME Inv, teardown = "freed"
               PROVE  /\ submissions = <<>> /\ executed = submitted
                      /\ released = promised
                      /\ waiters = {} /\ submitter = "ended" /\ worker = "ended"
    BY DEF ReleaseLosesNothing
  <2>1. submitter = "ended" /\ submissions = <<>> /\ \A t \in Threads : thread[t] = "outside"
    BY DEF Inv, StopIsLast
  <2>2. executed = submitted
    <3>1. /\ executed \in Nat /\ submitted \in Nat /\ executed <= submitted
          /\ \A n \in (executed + 1)..submitted : \E i \in DOMAIN submissions : TRUE
      BY <2>1, SubmissionQueueAssumption DEF Inv, InOrder, InHand, HoldsInOrder, TypeOK
    <3>2. DOMAIN submissions = {}
      BY <2>1
    <3>3. (executed + 1)..submitted = {}
      BY <3>1, <3>2
    <3> QED
      BY <3>1, <3>3
  <2>3. worker = "ended" /\ released = promised
    BY SubmissionQueueAssumption DEF Inv, NothingIsLeft, TypeOK
  <2>4. waiters = {}
    BY <2>1 DEF Inv, StopIsLast, TypeOK
  <2> QED
    BY <2>1, <2>2, <2>3, <2>4
<1> QED
  BY InvHolds, <1>1, PTL
=============================================================================
