--------------------------- MODULE SwapchainProofs ---------------------------
(***************************************************************************)
(* Proofs about presenting, for rings of any length, any frame latency     *)
(* they admit, any modes and images, and any number of presents and of     *)
(* failures.                                                               *)
(***************************************************************************)
EXTENDS Swapchain, FiniteSetTheorems, TLAPS

-----------------------------------------------------------------------------
(* Slots of a ring.                                                        *)

\* Division with rest, as the numbering of ring slots uses it.
LEMMA DivisionWithRest ==
  ASSUME NEW a \in Nat, NEW b \in Nat \ {0}
  PROVE  a = b * (a \div b) + (a % b) /\ a \div b \in Nat /\ a % b \in 0..(b - 1)
  OBVIOUS

\* Numbers that are less than a ring's length apart have different slots.
LEMMA SlotsDiffer ==
  ASSUME NEW a \in Nat, NEW c \in Nat, NEW b \in Nat \ {0}, a < c, c < a + b
  PROVE  a % b # c % b
<1> SUFFICES ASSUME a % b = c % b PROVE FALSE
  OBVIOUS
<1> DEFINE q == (c \div b) - (a \div b)
<1>1. q \in Int /\ b * q = c - a
  <2>1. b * q = b * (c \div b) - b * (a \div b)
    BY DivisionWithRest
  <2> QED
    BY <2>1, DivisionWithRest
<1>2. CASE q >= 1
  <2>1. b * q >= b
    BY <1>1, <1>2
  <2> QED
    BY <2>1, <1>1
<1>3. CASE q <= 0
  <2>1. b * q <= 0
    BY <1>1, <1>3
  <2> QED
    BY <2>1, <1>1
<1> QED
  BY <1>1, <1>2, <1>3

-----------------------------------------------------------------------------
(* The invariant.                                                          *)

\* Where the callback can be.
Places == {"idle", "destroy", "drain_waiter", "create", "acquire", "reclaim", "next_image",
           "blit", "present", "signal", "done"}

\* What a callback is: where it is, and what decides where it goes.
Callbacks == [at : Places, retry : Nat, then : Places, eager : BOOLEAN]

\* Going elsewhere changes nothing else about the callback.
LEMMA GotoFacts ==
  ASSUME NEW c \in Callbacks, NEW where \in Places
  PROVE  LET d == [c EXCEPT !.at = where]
         IN  d \in Callbacks /\ d.at = where /\ d.eager = c.eager /\ d.then = c.then
  BY DEF Callbacks

\* What the counters, the ring and the queue of frames hold.
Types ==
  /\ supports_present_wait \in BOOLEAN
  /\ user_count \in Nat /\ present_count \in Nat
  /\ request_ring \in [Slots -> [count : Nat, mode : Modes \cup {NoMode}]]
  /\ wait_counts \in Nat /\ latency \in Nat
  /\ done_event \in BOOLEAN /\ outstanding \in BOOLEAN
  /\ callback \in Callbacks
  /\ created \in Nat /\ swapchain \in [id : Nat, mode : Modes \cup {NoMode}]
  /\ present_id \in Nat /\ request \in [count : Nat, mode : Modes \cup {NoMode}]
  /\ wait_queue \in Seq([count : Nat, id : Nat, swapchain : Nat])

\* The callback has not finished its present.
Working == callback.at # "idle" /\ ~callback.eager

\* A callback that has not finished its present has a request to work on, and
\* one that acquires for the next frame has finished it.
CallbackInOrder ==
  /\ callback.at = "idle" => callback = Idle
  /\ Working =>
       callback.then \in {"create", "signal"} /\ present_count < user_count
  /\ callback.eager =>
       callback.at \in {"acquire", "reclaim", "next_image", "done"} /\ ~supports_present_wait
  /\ callback.at = "done" => callback.eager

\* The application waits for the semaphore, not only looks at it, or for the event.
Throttles == ~LowLatency \/ ~supports_present_wait

\* Every request whose present is not finished is still in the ring.
RingIsIntact ==
  Throttles => \A n \in (present_count + 1)..user_count : request_ring[n % Buffers].count = n

\* A present that is under way works on its own request.
RequestIsCurrent ==
  Throttles /\ Working => request.count = present_count + 1

\* The waiter has a frame in hand, except when it looks for one or has ended.
WaiterHasAFrame == waiter.at \notin {"look", "ended"} => wait_queue # <<>>

\* After the drain of the queue the callbacks have caught up for good.
CaughtUp ==
  app \in {"drain_gpu", "join", "gone"} => present_count = user_count /\ callback.at = "idle"

\* With present wait every frame is in one place: still in the semaphore, taken
\* by the application and not yet queued, or queued for the waiter.
ThrottledByWaiter ==
  supports_present_wait /\ ~LowLatency =>
    /\ app # "latency" => wait_counts = 0
    /\ app \notin {"join", "gone"} =>
         latency - wait_counts + Len(wait_queue) + user_count = FrameLatency - 1 + present_count
    /\ present_count <= user_count

\* Without it at most one frame is under way, and the event says when it is not.
ThrottledByEvent ==
  ~supports_present_wait =>
    /\ present_count <= user_count /\ user_count <= present_count + 1
    /\ done_event \/ ~(app = "event" \/ outstanding) =>
         user_count = present_count /\ callback.at = "idle"
    /\ ~(app = "event" \/ outstanding) => ~done_event
    /\ callback.eager => user_count = present_count

\* The inductive invariant.
Orderly ==
  /\ Types /\ CallbackInOrder /\ RingIsIntact /\ RequestIsCurrent
  /\ WaiterHasAFrame /\ CaughtUp /\ ThrottledByWaiter /\ ThrottledByEvent

\* What the parts speak of, apart from the callback and its swapchain.
countVars == <<supports_present_wait, app, user_count, request_ring, wait_counts, latency,
               done_event, outstanding, request, present_count, wait_queue, waiter>>

\* It holds at first: the semaphore has all frames but the one every Present is ahead.
LEMMA OrderlyInit == Init => Orderly
<1> SUFFICES ASSUME Init PROVE Orderly
  OBVIOUS
<1> USE SwapchainAssumption DEF Init, Idle
<1>1. Types
  <2>1. callback \in Callbacks
    BY DEF Callbacks, Places
  <2>2. NoRequest \in [count : Nat, mode : Modes \cup {NoMode}]
        /\ NoSwapchain \in [id : Nat, mode : Modes \cup {NoMode}]
    BY DEF NoRequest, NoSwapchain
  <2>3. FrameLatency - 1 \in Nat
    OBVIOUS
  <2>4. request_ring \in [Slots -> [count : Nat, mode : Modes \cup {NoMode}]]
    BY <2>2
  <2>5. wait_queue \in Seq([count : Nat, id : Nat, swapchain : Nat])
    OBVIOUS
  <2>6. request \in [count : Nat, mode : Modes \cup {NoMode}]
        /\ swapchain \in [id : Nat, mode : Modes \cup {NoMode}]
    BY <2>2
  <2> HIDE DEF Idle
  <2> QED
    BY <2>1, <2>3, <2>4, <2>5, <2>6 DEF Types
<1>2. CallbackInOrder /\ RequestIsCurrent
  BY DEF CallbackInOrder, RequestIsCurrent, Throttles, Working
<1>3. RingIsIntact /\ WaiterHasAFrame /\ CaughtUp
  BY DEF RingIsIntact, Throttles, WaiterHasAFrame, CaughtUp
<1>4. ThrottledByWaiter /\ ThrottledByEvent
  BY DEF ThrottledByWaiter, ThrottledByEvent
<1> QED
  BY <1>1, <1>2, <1>3, <1>4 DEF Orderly

\* A step in the middle of the callback moves it on, and may change the swapchain.
LEMMA CallbackMoves ==
  ASSUME Orderly, UNCHANGED countVars,
         callback.at # "idle", callback' \in Callbacks, callback'.at # "idle",
         callback'.eager = callback.eager,
         callback.eager => callback'.at \in {"acquire", "reclaim", "next_image", "done"},
         ~callback.eager => callback'.then \in {"create", "signal"} /\ callback'.at # "done",
         created' \in Nat, swapchain' \in [id : Nat, mode : Modes \cup {NoMode}],
         present_id' \in Nat
  PROVE  Orderly'
<1> USE DEF Orderly, countVars
<1>1. Types'
  BY DEF Types
<1>2. CallbackInOrder' /\ RequestIsCurrent'
  BY DEF CallbackInOrder, RequestIsCurrent, Throttles, Working
<1>3. RingIsIntact' /\ WaiterHasAFrame' /\ CaughtUp'
  BY DEF RingIsIntact, Throttles, WaiterHasAFrame, CaughtUp
<1>4. ThrottledByWaiter' /\ ThrottledByEvent'
  BY DEF ThrottledByWaiter, ThrottledByEvent
<1> QED
  BY <1>1, <1>2, <1>3, <1>4

\* The callback goes on to another place, one that acquires for the next frame to
\* another place of the acquisition.
GoesOn ==
  \E where \in Places \ {"idle"} :
    /\ callback' = [callback EXCEPT !.at = where]
    /\ IF callback.eager THEN where \in {"acquire", "reclaim", "next_image", "done"}
       ELSE where # "done"

\* CallbackMoves for the steps that only go on.
LEMMA CallbackGoesOn ==
  ASSUME Orderly, UNCHANGED countVars, callback.at # "idle", GoesOn,
         created' \in Nat, swapchain' \in [id : Nat, mode : Modes \cup {NoMode}],
         present_id' \in Nat
  PROVE  Orderly'
<1>1. PICK where \in Places \ {"idle"} :
        /\ callback' = [callback EXCEPT !.at = where]
        /\ IF callback.eager THEN where \in {"acquire", "reclaim", "next_image", "done"}
           ELSE where # "done"
  BY DEF GoesOn
<1>2. callback \in Callbacks /\ callback.eager \in BOOLEAN
  BY DEF Orderly, Types, Callbacks
<1>3. /\ callback' \in Callbacks /\ callback'.at = where
      /\ callback'.eager = callback.eager /\ callback'.then = callback.then
  BY <1>1, <1>2, GotoFacts
<1>4. ~callback.eager => callback.then \in {"create", "signal"}
  BY DEF Orderly, CallbackInOrder, Working
<1> QED
  BY <1>1, <1>2, <1>3, <1>4, CallbackMoves

\* CallbackMoves for a present or an acquisition that failed.
LEMMA CallbackFails ==
  ASSUME Orderly, UNCHANGED countVars, callback.at \in {"next_image", "present"},
         NEW lost \in BOOLEAN, Fail(lost), ~callback.eager,
         created' \in Nat, swapchain' \in [id : Nat, mode : Modes \cup {NoMode}],
         present_id' \in Nat
  PROVE  Orderly'
<1> DEFINE again == ~lost /\ callback.retry < Retries
           then  == IF again THEN "create" ELSE "signal"
           retry == IF again THEN callback.retry + 1 ELSE callback.retry
<1>1. callback' = [callback EXCEPT !.at = "destroy", !.then = then, !.retry = retry]
  BY DEF Fail
<1>2. callback \in Callbacks
  BY DEF Orderly, Types
<1>3. then \in {"create", "signal"} /\ retry \in Nat
  BY <1>2 DEF Callbacks
<1> HIDE DEF then, retry
<1>4. /\ callback' \in Callbacks /\ callback'.at = "destroy"
      /\ callback'.eager = callback.eager /\ callback'.then \in {"create", "signal"}
  BY <1>1, <1>2, <1>3 DEF Callbacks, Places
<1> QED
  BY <1>4, CallbackMoves

\* Every step preserves it: Present because its frame had to be released first, the
\* others because they move a frame from one of its places to the next.
LEMMA OrderlyStep ==
  ASSUME Orderly, [Next]_vars
  PROVE  Orderly'
<1> USE SwapchainAssumption DEF Orderly
<1>1. ASSUME NEW mode \in Modes, Present(mode) PROVE Orderly'
  <2> USE <1>1 DEF Present, request_done
  <2>1. /\ app = "idle" /\ app' # "idle" /\ app' \in {"latency", "event"}
        /\ (supports_present_wait <=> app' = "latency")
        /\ user_count' = user_count + 1 /\ ~outstanding' /\ (outstanding => done_event)
        /\ done_event' = (done_event /\ ~outstanding)
        /\ UNCHANGED <<supports_present_wait, latency, callback, request, present_count, created,
                       swapchain, present_id, wait_queue, waiter>>
    BY DEF features, chain, waiting, Types
  <2>10. done_event' \in BOOLEAN /\ outstanding' \in BOOLEAN
    BY Zenon
  <2>2. ASSUME Throttles
        PROVE  user_count - present_count < Buffers /\ present_count <= user_count
    BY <2>1, <2>2 DEF Types, ThrottledByWaiter, ThrottledByEvent, Throttles
  <2>3. /\ request_ring' \in [Slots -> [count : Nat, mode : Modes \cup {NoMode}]]
        /\ Throttles => \A n \in (present_count + 1)..(user_count + 1) :
                          request_ring'[n % Buffers].count = n
    <3>1. /\ request_ring' = [request_ring EXCEPT ![(user_count + 1) % Buffers] =
                                [count |-> user_count + 1, mode |-> mode]]
          /\ user_count + 1 \in Nat /\ (user_count + 1) % Buffers \in Slots
      <4>1. user_count + 1 \in Nat
        BY DEF Types
      <4> QED
        BY <4>1, DivisionWithRest DEF Slots
    <3>2. request_ring'[(user_count + 1) % Buffers].count = user_count + 1
      BY <3>1 DEF Types
    <3>3. ASSUME Throttles, NEW n \in (present_count + 1)..user_count
          PROVE  request_ring'[n % Buffers].count = n
      <4>1. n \in Nat /\ n < user_count + 1 /\ user_count + 1 < n + Buffers
        BY <2>2, <3>3 DEF Types
      <4>2. n % Buffers # (user_count + 1) % Buffers
        BY <3>1, <4>1, SlotsDiffer
      <4>3. n % Buffers \in Slots
        BY <4>1, DivisionWithRest DEF Slots
      <4>4. request_ring'[n % Buffers] = request_ring[n % Buffers]
        BY <3>1, <4>2, <4>3 DEF Types
      <4> QED
        BY <3>3, <4>4 DEF RingIsIntact
    <3>4. ASSUME NEW n \in (present_count + 1)..(user_count + 1)
          PROVE  n = user_count + 1 \/ n \in (present_count + 1)..user_count
      BY DEF Types
    <3>5. request_ring' \in [Slots -> [count : Nat, mode : Modes \cup {NoMode}]]
      BY <3>1 DEF Types
    <3> QED
      BY <3>2, <3>3, <3>4, <3>5
  <2>4. wait_counts' = IF supports_present_wait THEN wait_counts + 1 ELSE wait_counts
    OBVIOUS
  <2> HIDE <1>1 DEF Present
  <2>5. Types'
    <3>1. user_count' \in Nat /\ wait_counts' \in Nat
      BY <2>1, <2>4 DEF Types
    <3> QED
      BY <2>1, <2>10, <2>3, <3>1 DEF Types
  <2>6. CallbackInOrder' /\ RequestIsCurrent'
    BY <2>1 DEF CallbackInOrder, RequestIsCurrent, Throttles, Working, Types
  <2>7. RingIsIntact' /\ WaiterHasAFrame' /\ CaughtUp'
    BY <2>1, <2>3 DEF RingIsIntact, Throttles, WaiterHasAFrame, CaughtUp, Types
  <2>8. ThrottledByWaiter'
    <3> SUFFICES ASSUME supports_present_wait, ~LowLatency PROVE ThrottledByWaiter'
      BY <2>1 DEF ThrottledByWaiter
    <3>1. wait_counts' = wait_counts + 1 /\ app' = "latency" /\ wait_counts = 0
      BY <2>1, <2>4 DEF ThrottledByWaiter
    <3>2. Len(wait_queue) \in Nat /\ UNCHANGED <<latency, wait_queue, present_count>>
      BY <2>1 DEF Types
    <3>3. latency - wait_counts + Len(wait_queue) + user_count = FrameLatency - 1 + present_count
          /\ present_count <= user_count
      BY <2>1 DEF ThrottledByWaiter
    <3> QED
      BY <2>1, <3>1, <3>2, <3>3 DEF ThrottledByWaiter, Types
  <2>9. ThrottledByEvent'
    <3> SUFFICES ASSUME ~supports_present_wait PROVE ThrottledByEvent'
      BY <2>1 DEF ThrottledByEvent
    <3>1. app' = "event" /\ ~done_event'
      BY <2>1 DEF ThrottledByEvent
    <3>2. user_count = present_count /\ callback.at = "idle"
      BY <2>1 DEF ThrottledByEvent
    <3>3. ~callback.eager
      BY <3>2 DEF CallbackInOrder, Idle
    <3> QED
      BY <2>1, <3>1, <3>2, <3>3 DEF ThrottledByEvent, Types
  <2> QED
    BY <2>5, <2>6, <2>7, <2>8, <2>9
<1>2. CASE WaitInternalHandle
  BY <1>2 DEF WaitInternalHandle, frames_released, blocking, features, user, chain, waiting,
      Types, CallbackInOrder, RingIsIntact, Throttles, RequestIsCurrent, WaiterHasAFrame,
      CaughtUp, ThrottledByWaiter, ThrottledByEvent, Working
<1>3. CASE WaitDoneEvent
  BY <1>3 DEF WaitDoneEvent, features, user, chain, waiting,
      Types, CallbackInOrder, RingIsIntact, Throttles, RequestIsCurrent, WaiterHasAFrame,
      CaughtUp, ThrottledByWaiter, ThrottledByEvent, Working
<1>4. CASE ChangeProperties
  BY <1>4 DEF ChangeProperties, features, user, throttle, chain, waiting,
      Types, CallbackInOrder, RingIsIntact, Throttles, RequestIsCurrent, WaiterHasAFrame,
      CaughtUp, ThrottledByWaiter, ThrottledByEvent, Working
<1>5. CASE ReallocateUserBuffers
  BY <1>5 DEF ReallocateUserBuffers, features, throttle, waiting,
      Types, CallbackInOrder, RingIsIntact, Throttles, RequestIsCurrent, WaiterHasAFrame,
      CaughtUp, ThrottledByWaiter, ThrottledByEvent, Working
<1>6. CASE Release
  BY <1>6 DEF Release, features, user, throttle, chain, waiting,
      Types, CallbackInOrder, RingIsIntact, Throttles, RequestIsCurrent, WaiterHasAFrame,
      CaughtUp, ThrottledByWaiter, ThrottledByEvent, Working
<1>7. CASE DrainQueue
  BY <1>7 DEF DrainQueue, callbacks_drained, Idle, features, user, throttle, chain, waiting,
      Types, CallbackInOrder, RingIsIntact, Throttles, RequestIsCurrent, WaiterHasAFrame,
      CaughtUp, ThrottledByWaiter, ThrottledByEvent, Working
<1>8. CASE DrainGpu
  <2> USE <1>8 DEF DrainGpu
  <2>1. wait_queue' \in Seq([count : Nat, id : Nat, swapchain : Nat]) /\ wait_queue' # <<>>
    <3> DEFINE sentinel == [count |-> 0, id |-> 0, swapchain |-> swapchain.id]
    <3>1. wait_queue' = Append(wait_queue, sentinel)
      BY DEF Push
    <3>2. sentinel \in [count : Nat, id : Nat, swapchain : Nat]
      BY DEF Types
    <3> HIDE DEF sentinel
    <3> QED
      BY <3>1, <3>2 DEF Types
  <2>2. /\ app = "drain_gpu" /\ app' = "join"
        /\ UNCHANGED <<supports_present_wait, user_count, request_ring, wait_counts, latency,
                       done_event, outstanding, callback, request, present_count, created,
                       swapchain, present_id, waiter>>
    BY DEF features, user, throttle, chain
  <2>3. Types'
    BY <2>1, <2>2 DEF Types
  <2>4. CallbackInOrder' /\ RingIsIntact' /\ RequestIsCurrent' /\ WaiterHasAFrame' /\ CaughtUp'
    BY <2>1, <2>2
    DEF CallbackInOrder, RingIsIntact, Throttles, RequestIsCurrent, WaiterHasAFrame, CaughtUp, Working
  <2>5. ThrottledByWaiter' /\ ThrottledByEvent'
    BY <2>2 DEF ThrottledByWaiter, ThrottledByEvent
  <2> QED
    BY <2>3, <2>4, <2>5
<1>9. CASE Cleanup
  BY <1>9 DEF Cleanup, Idle, NoSwapchain, features, user, waiting,
      Types, CallbackInOrder, RingIsIntact, Throttles, RequestIsCurrent, WaiterHasAFrame,
      CaughtUp, ThrottledByWaiter, ThrottledByEvent, Working
<1>10. CASE TakeRequest
  <2> DEFINE next == request_ring[(present_count + 1) % Buffers]
  <2> USE <1>10 DEF TakeRequest
  <2>1. /\ callback = Idle /\ present_count < user_count /\ request' = next
        /\ UNCHANGED <<supports_present_wait, app, user_count, request_ring, wait_counts, latency,
                       done_event, outstanding, present_count, created, swapchain, present_id,
                       wait_queue, waiter>>
    BY DEF features, user, throttle, waiting
  <2>2. next \in [count : Nat, mode : Modes \cup {NoMode}]
    <3>1. (present_count + 1) % Buffers \in Slots
      <4>1. present_count + 1 \in Nat
        BY DEF Types
      <4> QED
        BY <4>1, DivisionWithRest DEF Slots
    <3> QED
      BY <3>1 DEF Types
  <2>3. Throttles => next.count = present_count + 1
    <3>1. present_count + 1 \in (present_count + 1)..user_count
      BY <2>1 DEF Types
    <3> QED
      BY <3>1 DEF RingIsIntact
  <2>4. /\ callback' \in Callbacks /\ callback'.at \in {"create", "destroy", "acquire"}
        /\ ~callback'.eager /\ callback'.then = "create"
    BY DEF Idle, Callbacks, Places
  <2>5. callback.at = "idle"
    BY <2>1 DEF Idle
  <2> HIDE <1>10 DEF TakeRequest, next
  <2>6. Types'
    BY <2>1, <2>2, <2>4 DEF Types
  <2>7. CallbackInOrder' /\ RequestIsCurrent'
    BY <2>1, <2>3, <2>4 DEF CallbackInOrder, RequestIsCurrent, Throttles, Working
  <2>8. RingIsIntact' /\ WaiterHasAFrame' /\ CaughtUp'
    BY <2>1, <2>5 DEF RingIsIntact, Throttles, WaiterHasAFrame, CaughtUp, Types
  <2>9. ThrottledByWaiter' /\ ThrottledByEvent'
    BY <2>1, <2>4, <2>5 DEF ThrottledByWaiter, ThrottledByEvent, Types
  <2> QED
    BY <2>6, <2>7, <2>8, <2>9
<1>11. CASE Destroy
  <2> USE <1>11 DEF Destroy, At
  <2>1. callback.at # "idle" /\ GoesOn
    <3>1. callback.at = "destroy" /\ callback' = [callback EXCEPT !.at = "drain_waiter"]
      BY DEF Goto
    <3>2. "drain_waiter" \in Places \ {"idle"}
      BY DEF Places
    <3> QED
      BY <3>1, <3>2 DEF GoesOn, Types, Callbacks, CallbackInOrder
  <2>2. UNCHANGED countVars /\ created' \in Nat /\ present_id' \in Nat
        /\ swapchain' \in [id : Nat, mode : Modes \cup {NoMode}]
    BY DEF countVars, Types, features, user, throttle, chain
  <2> QED
    BY <2>1, <2>2, CallbackGoesOn
<1>12. CASE DrainWaiter
  <2> USE <1>12 DEF DrainWaiter, At
  <2>1. callback.at # "idle" /\ GoesOn
    BY DEF Goto, GoesOn, Places, Types, Callbacks, CallbackInOrder, Working
  <2>2. UNCHANGED countVars /\ created' \in Nat /\ present_id' \in Nat
        /\ swapchain' \in [id : Nat, mode : Modes \cup {NoMode}]
    BY DEF countVars, Types, features, user, throttle, NoSwapchain
  <2> QED
    BY <2>1, <2>2, CallbackGoesOn
<1>13. CASE Create
  <2> USE <1>13 DEF Create, At
  <2>1. callback.at # "idle" /\ GoesOn
    BY DEF Goto, GoesOn, Places, Types, Callbacks, CallbackInOrder, Working
  <2>2. UNCHANGED countVars /\ created' \in Nat /\ present_id' \in Nat
        /\ swapchain' \in [id : Nat, mode : Modes \cup {NoMode}]
    BY DEF countVars, Types, features, user, throttle, waiting
  <2> QED
    BY <2>1, <2>2, CallbackGoesOn
<1>14. CASE TryAcquire
  <2> USE <1>14 DEF TryAcquire, At
  <2>1. callback.at # "idle" /\ GoesOn
    BY DEF Goto, GoesOn, Places, Types, Callbacks, CallbackInOrder, Working
  <2>2. UNCHANGED countVars /\ created' \in Nat /\ present_id' \in Nat
        /\ swapchain' \in [id : Nat, mode : Modes \cup {NoMode}]
    BY DEF countVars, Types, features, user, throttle, chain, waiting
  <2> QED
    BY <2>1, <2>2, CallbackGoesOn
<1>15. CASE Reclaim
  <2> USE <1>15 DEF Reclaim, At
  <2>1. callback.at # "idle" /\ GoesOn
    <3> DEFINE where == IF signalled[semaphore_index] THEN "reclaim" ELSE "next_image"
    <3>1. callback.at = "reclaim" /\ callback' = [callback EXCEPT !.at = where]
      BY DEF Goto
    <3>2. where \in Places \ {"idle"}
      BY DEF Places
    <3> QED
      BY <3>1, <3>2 DEF GoesOn, Types, Callbacks, CallbackInOrder
  <2>2. UNCHANGED countVars /\ created' \in Nat /\ present_id' \in Nat
        /\ swapchain' \in [id : Nat, mode : Modes \cup {NoMode}]
    BY DEF countVars, Types, features, user, throttle, chain, waiting
  <2> QED
    BY <2>1, <2>2, CallbackGoesOn
<1>16. CASE AcquireNextImage
  <2> USE <1>16 DEF AcquireNextImage, At
  <2>1. UNCHANGED countVars /\ created' \in Nat /\ present_id' \in Nat
        /\ swapchain' \in [id : Nat, mode : Modes \cup {NoMode}]
    BY DEF countVars, Types, features, user, throttle, waiting
  <2>2. CASE ~callback.eager /\ \E lost \in BOOLEAN : Fail(lost)
    BY <2>1, <2>2, CallbackFails
  <2>3. CASE Goto(IF callback.eager THEN "done" ELSE "blit")
    <3>1. callback.at # "idle" /\ GoesOn
      <4> DEFINE where == IF callback.eager THEN "done" ELSE "blit"
      <4>1. callback.at = "next_image" /\ callback' = [callback EXCEPT !.at = where]
        BY <2>3 DEF Goto
      <4>2. where \in Places \ {"idle"}
        BY DEF Places
      <4> QED
        BY <4>1, <4>2 DEF GoesOn
    <3> QED
      BY <2>1, <3>1, CallbackGoesOn
  <2>4. CASE callback.eager /\ Goto("done")
    BY <2>3, <2>4
  <2> QED
    BY <2>2, <2>3, <2>4
<1>17. CASE SubmitBlit
  <2> USE <1>17 DEF SubmitBlit, At
  <2>1. callback.at # "idle" /\ GoesOn
    <3>1. callback.at = "blit" /\ callback' = [callback EXCEPT !.at = "present"]
      BY DEF Goto
    <3>2. "present" \in Places \ {"idle"}
      BY DEF Places
    <3> QED
      BY <3>1, <3>2 DEF GoesOn, Types, Callbacks, CallbackInOrder
  <2>2. UNCHANGED countVars /\ created' \in Nat /\ present_id' \in Nat
        /\ swapchain' \in [id : Nat, mode : Modes \cup {NoMode}]
    BY DEF countVars, Types, features, user, throttle, chain, waiting
  <2> QED
    BY <2>1, <2>2, CallbackGoesOn
<1>18. CASE QueuePresentKHR
  <2> USE <1>18 DEF QueuePresentKHR, At
  <2>1. UNCHANGED countVars /\ created' \in Nat
        /\ swapchain' \in [id : Nat, mode : Modes \cup {NoMode}]
    BY DEF countVars, Types, features, user, throttle, waiting
  <2>2. present_id' \in Nat
    BY DEF Types, next_present_id
  <2>3. callback.at = "present" /\ ~callback.eager
    BY DEF CallbackInOrder, Types, Callbacks
  <2>4. CASE \E lost \in BOOLEAN : Fail(lost)
    BY <2>1, <2>2, <2>3, <2>4, CallbackFails
  <2>5. CASE Goto("signal")
    <3>1. "signal" \in Places \ {"idle"}
      BY DEF Places
    <3>2. GoesOn
      BY <2>3, <2>5, <3>1 DEF GoesOn, Goto
    <3> QED
      BY <2>1, <2>2, <2>3, <3>2, CallbackGoesOn
  <2> QED
    BY <2>4, <2>5
<1>19. CASE FinishPresent
  <2> USE <1>19 DEF FinishPresent, At
  <2>1. /\ callback.at = "signal" /\ ~callback.eager /\ present_count < user_count
        /\ present_count' = present_count + 1
        /\ UNCHANGED <<supports_present_wait, app, user_count, request_ring, wait_counts, latency,
                       done_event, outstanding, request, created, swapchain, present_id, waiter>>
    BY DEF CallbackInOrder, Types, Callbacks, Working, features, user, throttle, chain
  <2>2. /\ callback' \in Callbacks
        /\ supports_present_wait => callback' = Idle /\ callback'.at = "idle" /\ ~callback'.eager
        /\ ~supports_present_wait => callback'.at \in {"done", "acquire"} /\ callback'.eager
    BY DEF Idle, Callbacks, Places
  <2>3. /\ wait_queue' \in Seq([count : Nat, id : Nat, swapchain : Nat])
        /\ wait_queue' # <<>> /\ Len(wait_queue') = Len(wait_queue) + 1
    <3> DEFINE entry == [count |-> present_count + 1,
                         id |-> IF present_id_valid THEN present_id ELSE 0,
                         swapchain |-> swapchain.id]
    <3>1. entry \in [count : Nat, id : Nat, swapchain : Nat]
      BY DEF Types
    <3>2. wait_queue' = Append(wait_queue, entry)
      BY DEF Push
    <3> HIDE <1>19 DEF entry, FinishPresent
    <3> QED
      BY <3>1, <3>2 DEF Types
  <2> HIDE <1>19 DEF FinishPresent
  <2>4. Types'
    BY <2>1, <2>2, <2>3 DEF Types
  <2>5. CallbackInOrder' /\ RequestIsCurrent'
    BY <2>1, <2>2 DEF CallbackInOrder, RequestIsCurrent, Throttles, Working, Types
  <2>6. RingIsIntact'
    <3>1. \A n \in (present_count' + 1)..user_count' : n \in (present_count + 1)..user_count
      BY <2>1 DEF Types
    <3> QED
      BY <2>1, <3>1 DEF RingIsIntact, Throttles
  <2>7. WaiterHasAFrame' /\ CaughtUp'
    BY <2>1, <2>3 DEF WaiterHasAFrame, CaughtUp, Types
  <2>8. ThrottledByWaiter'
    <3> SUFFICES ASSUME supports_present_wait, ~LowLatency PROVE ThrottledByWaiter'
      BY <2>1 DEF ThrottledByWaiter
    <3>1. Len(wait_queue) \in Nat /\ app \notin {"join", "gone"}
      BY <2>1 DEF Types, CaughtUp
    <3>2. /\ latency - wait_counts + Len(wait_queue) + user_count = FrameLatency - 1 + present_count
          /\ app # "latency" => wait_counts = 0
      BY <3>1 DEF ThrottledByWaiter
    <3>3. present_count' <= user_count'
      BY <2>1 DEF Types
    <3>4. latency' - wait_counts' + Len(wait_queue') + user_count' = FrameLatency - 1 + present_count'
      <4>1. /\ latency \in Int /\ wait_counts \in Int /\ user_count \in Int
            /\ present_count \in Int /\ FrameLatency \in Int
        BY DEF Types
      <4>2. UNCHANGED <<latency, wait_counts, user_count>> /\ present_count' = present_count + 1
        BY <2>1
      <4> HIDE SwapchainAssumption DEF Orderly
      <4> QED
        BY <2>3, <3>1, <3>2, <4>1, <4>2
    <3> QED
      BY <2>1, <3>2, <3>3, <3>4 DEF ThrottledByWaiter
  <2>9. ThrottledByEvent'
    BY <2>1, <2>2 DEF ThrottledByEvent, Types
  <2> QED
    BY <2>4, <2>5, <2>6, <2>7, <2>8, <2>9
<1>20. CASE SignalDoneEvent
  BY <1>20 DEF SignalDoneEvent, Callbacks, Places, Idle, At, features, user, chain, waiting,
      Types, CallbackInOrder, RingIsIntact, Throttles, RequestIsCurrent, WaiterHasAFrame,
      CaughtUp, ThrottledByWaiter, ThrottledByEvent, Working
<1>21. CASE Execute
  BY <1>21 DEF Execute, features, user, throttle, chain, waiting,
      Types, CallbackInOrder, RingIsIntact, Throttles, RequestIsCurrent, WaiterHasAFrame,
      CaughtUp, ThrottledByWaiter, ThrottledByEvent, Working
<1>22. CASE Show
  BY <1>22 DEF Show, features, user, throttle, chain, waiting,
      Types, CallbackInOrder, RingIsIntact, Throttles, RequestIsCurrent, WaiterHasAFrame,
      CaughtUp, ThrottledByWaiter, ThrottledByEvent, Working
<1>23. CASE Look
  BY <1>23 DEF Look, WaiterGoto, features, user, throttle, chain,
      Types, CallbackInOrder, RingIsIntact, Throttles, RequestIsCurrent, WaiterHasAFrame,
      CaughtUp, ThrottledByWaiter, ThrottledByEvent, Working
<1>24. CASE CheckSkipWaits
  BY <1>24 DEF CheckSkipWaits, WaiterGoto, features, user, throttle, chain,
      Types, CallbackInOrder, RingIsIntact, Throttles, RequestIsCurrent, WaiterHasAFrame,
      CaughtUp, ThrottledByWaiter, ThrottledByEvent, Working
<1>25. CASE Wait
  BY <1>25 DEF Wait, WaiterGoto, features, user, throttle, chain,
      Types, CallbackInOrder, RingIsIntact, Throttles, RequestIsCurrent, WaiterHasAFrame,
      CaughtUp, ThrottledByWaiter, ThrottledByEvent, Working
<1>26. CASE ReleaseFrame
  BY <1>26 DEF ReleaseFrame, WaiterGoto, features, user, chain,
      Types, CallbackInOrder, RingIsIntact, Throttles, RequestIsCurrent, WaiterHasAFrame,
      CaughtUp, ThrottledByWaiter, ThrottledByEvent, Working
<1>27. CASE UNCHANGED vars
  BY <1>27 DEF vars, features, user, throttle, chain, waiting,
      Types, CallbackInOrder, RingIsIntact, Throttles, RequestIsCurrent, WaiterHasAFrame,
      CaughtUp, ThrottledByWaiter, ThrottledByEvent, Working
<1> QED
  BY <1>1, <1>2, <1>3, <1>4, <1>5, <1>6, <1>7, <1>8, <1>9, <1>10, <1>11, <1>12, <1>13, <1>14,
     <1>15, <1>16, <1>17, <1>18, <1>19, <1>20, <1>21, <1>22, <1>23, <1>24, <1>25, <1>26, <1>27
  DEF Next, Call, AppStep, CallbackStep, WaiterStep

\* The invariant says that the requests of the ring are still there.
LEMMA ThrottledRequests == Orderly /\ ~LowLatency => RequestsAreKept
<1> SUFFICES ASSUME Orderly, ~LowLatency PROVE RequestsAreKept
  OBVIOUS
<1>1. \A n \in (present_count + 1)..user_count : request_ring[n % Buffers].count = n
  BY DEF Orderly, RingIsIntact, Throttles
<1>2. callback # Idle /\ ~callback.eager => request.count = present_count + 1
  BY DEF Orderly, CallbackInOrder, RequestIsCurrent, Working, Throttles
<1> QED
  BY <1>1, <1>2 DEF RequestsAreKept

\* Present never overwrites a request its callback has not picked up, and a
\* callback works on its own request: with either kind of throttling, whatever the
\* frame latency, the failures and the timeouts; but not in low latency mode.
THEOREM RequestsAreAlwaysKept ==
  ASSUME ~LowLatency
  PROVE  Spec => []RequestsAreKept
<1>1. Init => Orderly
  BY OrderlyInit
<1>2. Orderly /\ [Next]_vars => Orderly'
  BY OrderlyStep
<1>3. Orderly => RequestsAreKept
  BY ThrottledRequests
<1> QED
  BY <1>1, <1>2, <1>3, PTL DEF Spec

-----------------------------------------------------------------------------
(***************************************************************************)
(* A VkSwapchainKHR outlives its users: the waiter, which reads            *)
(* vk_swapchain without a lock, and the presents on their way to the       *)
(* display.                                                                *)
(***************************************************************************)

\* What is left of a queue whose first entry is taken.
LEMMA TailFacts ==
  ASSUME NEW S, NEW q \in Seq(S), q # <<>>
  PROVE  /\ Tail(q) \in Seq(S) /\ Len(Tail(q)) = Len(q) - 1
         /\ \A i \in DOMAIN Tail(q) :
              i \in Nat /\ i + 1 \in DOMAIN q /\ Tail(q)[i] = q[i + 1]
<1>1. Tail(q) \in Seq(S) /\ Len(Tail(q)) = Len(q) - 1 /\ Len(q) \in Nat
  OBVIOUS
<1>2. DOMAIN Tail(q) = 1..(Len(q) - 1) /\ DOMAIN q = 1..Len(q)
  BY <1>1
<1>3. \A i \in 1..(Len(q) - 1) : Tail(q)[i] = q[i + 1]
  OBVIOUS
<1> QED
  BY <1>1, <1>2, <1>3

\* A present on its way to the display.
Presented == [swapchain : Nat, image : Images \cup {NoImage}, blit : Nat, id : Nat]

\* What presents, images and fences hold.
PresentTypes ==
  /\ image \in Images \cup {NoImage}
  /\ fences \in [Slots -> Nat] /\ fence_index \in Slots
  /\ blit_count \in Nat
  /\ presents \in Seq(Presented)

\* Frames to wait for on the display are frames of the swapchain there is.
FramesAreForTheSwapchain ==
  \A i \in DOMAIN wait_queue :
    wait_queue[i].id # 0 => wait_queue[i].swapchain = swapchain.id /\ swapchain # NoSwapchain

\* Nothing is queued behind the entry that ends the waiter.
TheSentinelIsLast ==
  \A i \in DOMAIN wait_queue :
    wait_queue[i].count = 0 =>
      wait_queue[i].id = 0 /\ i = Len(wait_queue) /\ app \in {"join", "gone"}

\* The waiter waits for the present its first entry names, and ends at the sentinel.
WaiterIsWhereItBelongs ==
  /\ waiter.at = "skip?" => Head(wait_queue).id # 0
  /\ waiter.at = "present" => waiter.swapchain = swapchain.id /\ swapchain # NoSwapchain
  /\ waiter.at = "ended" => wait_queue # <<>> /\ Head(wait_queue).count = 0

\* Where the callback has a VkSwapchainKHR in hand.
WithSwapchain ==
  {"acquire", "reclaim", "next_image", "blit", "present", "destroy", "drain_waiter"}

\* There is one then, there is none when it creates one, and a present ID is of one.
CallbackHasASwapchain ==
  /\ callback.at \in WithSwapchain => swapchain # NoSwapchain
  /\ callback.at = "create" => swapchain = NoSwapchain
  /\ callback.at # "idle" /\ present_id_valid => swapchain # NoSwapchain

\* Each present on its way has a fence that the next destruction waits for.
PresentsAreFenced ==
  maintenance1 =>
    /\ \A i \in DOMAIN presents :
         presents[i].swapchain = swapchain.id /\ \E s \in Slots : fences[s] = presents[i].blit
    /\ swapchain = NoSwapchain \/ callback.at = "drain_waiter" \/ app \in {"join", "gone"} =>
         presents = <<>>

\* The inductive invariant, on top of Orderly.
Lifetimes ==
  /\ PresentTypes /\ FramesAreForTheSwapchain /\ TheSentinelIsLast
  /\ WaiterIsWhereItBelongs /\ CallbackHasASwapchain /\ PresentsAreFenced

\* It holds at first: there is no swapchain and nobody uses one.
LEMMA LifetimesInit == Init => Lifetimes
<1> SUFFICES ASSUME Init PROVE Lifetimes
  OBVIOUS
<1> USE SwapchainAssumption DEF Init
<1>1. PresentTypes
  BY DEF PresentTypes, Slots
<1>2. FramesAreForTheSwapchain /\ TheSentinelIsLast /\ WaiterIsWhereItBelongs
  BY DEF FramesAreForTheSwapchain, TheSentinelIsLast, WaiterIsWhereItBelongs
<1>3. CallbackHasASwapchain /\ PresentsAreFenced
  BY DEF CallbackHasASwapchain, PresentsAreFenced, WithSwapchain, Idle
<1> QED
  BY <1>1, <1>2, <1>3 DEF Lifetimes

\* A present on its way is one a fence stands for, so a drain leaves none.
LEMMA DrainedMeansShown ==
  ASSUME PresentTypes, PresentsAreFenced, maintenance1, fences_drained
  PROVE  presents = <<>>
<1> SUFFICES ASSUME presents # <<>> PROVE FALSE
  OBVIOUS
<1>1. 1 \in DOMAIN presents
  BY DEF PresentTypes
<1>2. PICK s \in Slots : fences[s] = presents[1].blit
  BY <1>1 DEF PresentsAreFenced
<1>3. presents[1] \in InFlight
  BY <1>1 DEF InFlight
<1> QED
  BY <1>2, <1>3 DEF fences_drained

\* What the waiter's entries say does not depend on steps that leave them alone.
LEMMA QueueUntouched ==
  ASSUME Lifetimes, UNCHANGED <<wait_queue, swapchain, waiter>>,
         app \in {"join", "gone"} => app' \in {"join", "gone"}
  PROVE  FramesAreForTheSwapchain' /\ TheSentinelIsLast' /\ WaiterIsWhereItBelongs'
  BY DEF Lifetimes, FramesAreForTheSwapchain, TheSentinelIsLast, WaiterIsWhereItBelongs

\* Nor does what is known of presents depend on the application's other steps.
LEMMA PresentsUntouched ==
  ASSUME Lifetimes, UNCHANGED <<maintenance1, presents, swapchain, fences>>,
         app' \in {"join", "gone"} => app \in {"join", "gone"} \/ (maintenance1 => presents = <<>>),
         callback'.at = "drain_waiter" =>
           callback.at = "drain_waiter" \/ (maintenance1 => presents = <<>>)
  PROVE  PresentsAreFenced'
  BY DEF Lifetimes, PresentsAreFenced

\* Every step preserves it: the steps that let a swapchain go find the waiter's queue
\* empty, or its sentinel first, and the presents shown.
LEMMA LifetimesStep ==
  ASSUME Orderly, Lifetimes, [Next]_vars
  PROVE  Lifetimes'
<1> USE SwapchainAssumption DEF Lifetimes
<1>1. CASE \/ \E mode \in Modes : Present(mode)
           \/ WaitInternalHandle \/ WaitDoneEvent \/ ChangeProperties \/ Release
  <2>1. /\ UNCHANGED <<wait_queue, swapchain, waiter, maintenance1, presents, fences, callback,
                       present_id_valid, image, fence_index, blit_count>>
        /\ app \notin {"join", "gone"} /\ app' \notin {"join", "gone"}
    BY <1>1 DEF Present, WaitInternalHandle, WaitDoneEvent, ChangeProperties, Release, features,
       chain, waiting, display, fencing, blitting
  <2>2. PresentTypes'
    BY <2>1 DEF PresentTypes
  <2>3. CallbackHasASwapchain'
    BY <2>1 DEF CallbackHasASwapchain
  <2> QED
    BY <2>1, <2>2, <2>3, QueueUntouched, PresentsUntouched
<1>2. CASE ReallocateUserBuffers
  <2>1. /\ UNCHANGED <<wait_queue, swapchain, waiter, maintenance1, presents, fences, callback,
                       present_id_valid, image, fence_index, blit_count>>
        /\ app \notin {"join", "gone"} /\ app' \notin {"join", "gone"}
    BY <1>2 DEF ReallocateUserBuffers, features, waiting, display, fencing, blitting
  <2>2. PresentTypes'
    BY <2>1 DEF PresentTypes
  <2>3. CallbackHasASwapchain'
    BY <2>1 DEF CallbackHasASwapchain
  <2> QED
    BY <2>1, <2>2, <2>3, QueueUntouched, PresentsUntouched
<1>3. CASE DrainQueue
  <2>1. /\ UNCHANGED <<wait_queue, swapchain, waiter, maintenance1, presents, fences, callback,
                       present_id_valid, image, fence_index>>
        /\ app \notin {"join", "gone"} /\ app' \notin {"join", "gone"}
    BY <1>3 DEF DrainQueue, features, chain, waiting, display, fencing
  <2>2. blit_count' \in Nat
    <3> DEFINE lingering == {i \in Slots : signalled[i]}
    <3>1. IsFiniteSet(Slots)
      BY FS_Interval DEF Slots
    <3>2. Cardinality(lingering) \in Nat
      BY <3>1, FS_Subset, FS_CardinalityType
    <3> QED
      BY <1>3, <3>2 DEF DrainQueue, PresentTypes
  <2>3. PresentTypes'
    BY <2>1, <2>2 DEF PresentTypes
  <2>4. CallbackHasASwapchain'
    BY <2>1 DEF CallbackHasASwapchain
  <2> QED
    BY <2>1, <2>3, <2>4, QueueUntouched, PresentsUntouched
<1>4. CASE DrainGpu
  <2> DEFINE sentinel == [count |-> 0, id |-> 0, swapchain |-> swapchain.id]
  <2>1. /\ UNCHANGED <<swapchain, waiter, maintenance1, presents, fences, callback,
                       present_id_valid, image, fence_index, blit_count>>
        /\ app = "drain_gpu" /\ app' = "join" /\ wait_queue' = Append(wait_queue, sentinel)
        /\ maintenance1 => fences_drained
    BY <1>4 DEF DrainGpu, gpu_drained, Push, features, chain, display, fencing, blitting
  <2>2. PresentTypes'
    BY <2>1 DEF PresentTypes
  <2>3. CallbackHasASwapchain'
    BY <2>1 DEF CallbackHasASwapchain
  <2>4. PresentsAreFenced'
    BY <2>1, DrainedMeansShown, PresentsUntouched
  <2>5. /\ wait_queue \in Seq([count : Nat, id : Nat, swapchain : Nat])
        /\ Len(wait_queue') = Len(wait_queue) + 1
        /\ \A i \in DOMAIN wait_queue : wait_queue'[i] = wait_queue[i]
        /\ wait_queue'[Len(wait_queue) + 1] = sentinel
        /\ \A i \in DOMAIN wait_queue' : i \in DOMAIN wait_queue \/ i = Len(wait_queue) + 1
    BY <2>1 DEF Orderly, Types
  <2>6. FramesAreForTheSwapchain'
    BY <2>1, <2>5 DEF FramesAreForTheSwapchain
  <2>7. TheSentinelIsLast'
    BY <2>1, <2>5 DEF TheSentinelIsLast
  <2>8. WaiterIsWhereItBelongs'
    <3>1. waiter.at # "look" => wait_queue # <<>> /\ Head(wait_queue') = Head(wait_queue)
      BY <2>1, <2>5 DEF Orderly, WaiterHasAFrame, WaiterIsWhereItBelongs
    <3> QED
      BY <2>1, <2>5, <3>1 DEF WaiterIsWhereItBelongs
  <2> QED
    BY <2>2, <2>3, <2>4, <2>6, <2>7, <2>8
<1>5. CASE Cleanup
  <2>1. /\ UNCHANGED <<wait_queue, waiter, maintenance1, presents, fences, callback,
                       present_id_valid, image, fence_index, blit_count>>
        /\ app = "join" /\ app' = "gone" /\ swapchain' = NoSwapchain /\ waiter.at = "ended"
    BY <1>5 DEF Cleanup, waiting, features, display, fencing, blitting
  <2>2. PresentTypes'
    BY <2>1 DEF PresentTypes
  <2>3. callback.at = "idle"
    BY <2>1 DEF Orderly, CaughtUp
  <2>4. CallbackHasASwapchain'
    BY <2>1, <2>3 DEF CallbackHasASwapchain, WithSwapchain
  <2>5. maintenance1 => presents = <<>>
    BY <2>1 DEF PresentsAreFenced
  <2>6. PresentsAreFenced'
    BY <2>1, <2>5 DEF PresentsAreFenced
  <2>7. \A i \in DOMAIN wait_queue : wait_queue[i].id = 0
    <3>1. wait_queue # <<>> /\ wait_queue[1].count = 0
          /\ wait_queue \in Seq([count : Nat, id : Nat, swapchain : Nat])
      BY <2>1 DEF WaiterIsWhereItBelongs, Orderly, Types
    <3>2. 1 \in DOMAIN wait_queue
      BY <3>1
    <3>3. wait_queue[1].id = 0 /\ Len(wait_queue) = 1
      BY <3>1, <3>2 DEF TheSentinelIsLast
    <3> QED
      BY <3>1, <3>3
  <2>8. FramesAreForTheSwapchain' /\ TheSentinelIsLast' /\ WaiterIsWhereItBelongs'
    BY <2>1, <2>7 DEF FramesAreForTheSwapchain, TheSentinelIsLast, WaiterIsWhereItBelongs
  <2> QED
    BY <2>2, <2>4, <2>6, <2>8
<1>6. CASE UNCHANGED vars
  <2>1. UNCHANGED <<wait_queue, swapchain, waiter, maintenance1, presents, fences, callback,
                    present_id_valid, image, fence_index, blit_count, app>>
    BY <1>6 DEF vars, features, chain, waiting, display, fencing, blitting
  <2>2. PresentTypes'
    BY <2>1 DEF PresentTypes
  <2>3. CallbackHasASwapchain'
    BY <2>1 DEF CallbackHasASwapchain
  <2> QED
    BY <2>1, <2>2, <2>3, QueueUntouched, PresentsUntouched
<1>7. CASE TakeRequest
  <2>1. /\ UNCHANGED <<wait_queue, swapchain, waiter, maintenance1, app, presents, fences, image,
                       fence_index, blit_count>>
        /\ ~present_id_valid'
        /\ callback'.at = CASE swapchain = NoSwapchain -> "create"
                            [] swapchain # NoSwapchain /\ force' -> "destroy"
                            [] OTHER -> "acquire"
    BY <1>7 DEF TakeRequest, Idle, features, waiting, display, fencing, blitting
  <2>2. PresentTypes'
    BY <2>1 DEF PresentTypes
  <2>3. CallbackHasASwapchain'
    BY <2>1 DEF CallbackHasASwapchain, WithSwapchain
  <2> QED
    BY <2>1, <2>2, <2>3, QueueUntouched, PresentsUntouched
<1>8. CASE Destroy
  <2>1. /\ UNCHANGED <<wait_queue, swapchain, waiter, maintenance1, app, presents, fences, image,
                       fence_index, blit_count, present_id_valid>>
        /\ callback.at = "destroy" /\ callback'.at = "drain_waiter"
        /\ maintenance1 => fences_drained
    BY <1>8 DEF Destroy, swapchain_drained, At, Goto, Orderly, Types, Callbacks, features, chain,
       display, fencing, blitting
  <2>2. PresentTypes'
    BY <2>1 DEF PresentTypes
  <2>3. CallbackHasASwapchain'
    BY <2>1 DEF CallbackHasASwapchain, WithSwapchain
  <2>4. FramesAreForTheSwapchain' /\ TheSentinelIsLast' /\ WaiterIsWhereItBelongs'
    BY <1>8, <2>1, QueueUntouched DEF Destroy
  <2> QED
    BY <2>1, <2>2, <2>3, <2>4, DrainedMeansShown, PresentsUntouched
<1>9. CASE DrainWaiter
  <2>1. /\ UNCHANGED <<wait_queue, waiter, maintenance1, app, presents, fences, fence_index,
                       blit_count>>
        /\ wait_queue = <<>> /\ swapchain' = NoSwapchain /\ image' = NoImage /\ ~present_id_valid'
        /\ callback.at = "drain_waiter" /\ callback'.at = callback.then
    BY <1>9 DEF DrainWaiter, waiter_drained, At, Goto, Orderly, Types, Callbacks, features, display,
       fencing, blitting
  <2>2. callback'.at \in {"create", "signal"}
    BY <2>1 DEF Orderly, CallbackInOrder, Working, Types, Callbacks
  <2>3. PresentTypes'
    BY <2>1 DEF PresentTypes
  <2>4. CallbackHasASwapchain'
    BY <2>1, <2>2 DEF CallbackHasASwapchain, WithSwapchain
  <2>5. FramesAreForTheSwapchain' /\ TheSentinelIsLast'
    BY <2>1 DEF FramesAreForTheSwapchain, TheSentinelIsLast
  <2>6. WaiterIsWhereItBelongs'
    BY <2>1 DEF WaiterIsWhereItBelongs, Orderly, WaiterHasAFrame
  <2>7. PresentsAreFenced'
    BY <2>1 DEF PresentsAreFenced
  <2> QED
    BY <2>3, <2>4, <2>5, <2>6, <2>7
<1>10. CASE Create
  <2>1. /\ UNCHANGED <<wait_queue, waiter, maintenance1, app, presents, fences, fence_index,
                       blit_count, present_id_valid>>
        /\ callback.at = "create" /\ image' \in {image, NoImage}
    BY <1>10 DEF Create, At, features, display, fencing, blitting, waiting
  <2>2. swapchain = NoSwapchain
    BY <2>1 DEF CallbackHasASwapchain
  <2>3. \/ swapchain' = swapchain /\ callback'.at = "signal"
        \/ swapchain'.id # 0 /\ callback'.at = "acquire"
    BY <1>10 DEF Create, Goto, Orderly, Types, Callbacks
  <2>4. swapchain'.id # 0 => swapchain' # NoSwapchain
    BY DEF NoSwapchain
  <2>5. PresentTypes'
    BY <2>1 DEF PresentTypes
  <2>6. CallbackHasASwapchain'
    BY <2>1, <2>2, <2>3, <2>4 DEF CallbackHasASwapchain, WithSwapchain
  <2>7. FramesAreForTheSwapchain' /\ TheSentinelIsLast' /\ WaiterIsWhereItBelongs'
    BY <2>1, <2>2
    DEF FramesAreForTheSwapchain, TheSentinelIsLast, WaiterIsWhereItBelongs
  <2>8. maintenance1 => presents = <<>>
    BY <2>2 DEF PresentsAreFenced
  <2>9. PresentsAreFenced'
    BY <2>1, <2>8 DEF PresentsAreFenced
  <2> QED
    BY <2>5, <2>6, <2>7, <2>9
<1>11. CASE TryAcquire \/ Reclaim \/ SubmitBlit
  <2>1. /\ UNCHANGED <<wait_queue, swapchain, waiter, maintenance1, app, presents, fences,
                       fence_index, present_id_valid, image>>
        /\ callback.at \in {"acquire", "reclaim", "blit"}
        /\ callback'.at \in {"done", "blit", "reclaim", "next_image", "present"}
    BY <1>11 DEF TryAcquire, Reclaim, SubmitBlit, At, Goto, Orderly, Types, Callbacks, features,
       chain, display, fencing, waiting
  <2>2. blit_count' \in Nat
    BY <1>11 DEF TryAcquire, Reclaim, SubmitBlit, ensure_unsignaled, PresentTypes
  <2>3. PresentTypes'
    BY <2>1, <2>2 DEF PresentTypes
  <2>4. CallbackHasASwapchain'
    BY <2>1 DEF CallbackHasASwapchain, WithSwapchain
  <2> QED
    BY <2>1, <2>3, <2>4, QueueUntouched, PresentsUntouched
<1>12. CASE AcquireNextImage
  <2>1. /\ UNCHANGED <<wait_queue, swapchain, waiter, maintenance1, app, presents, fences,
                       fence_index, present_id_valid, blit_count>>
        /\ callback.at = "next_image" /\ image' \in Images \cup {NoImage}
    BY <1>12 DEF AcquireNextImage, At, features, fencing, blitting, waiting, PresentTypes
  <2>2. callback'.at \in {"done", "blit", "destroy"}
    BY <1>12 DEF AcquireNextImage, Fail, Goto, Orderly, Types, Callbacks
  <2>3. PresentTypes'
    BY <2>1 DEF PresentTypes
  <2>4. CallbackHasASwapchain'
    BY <2>1, <2>2 DEF CallbackHasASwapchain, WithSwapchain
  <2> QED
    BY <2>1, <2>2, <2>3, <2>4, QueueUntouched, PresentsUntouched
<1>13. CASE QueuePresentKHR
  <2> DEFINE fence == (fence_index + 1) % Buffers
             new == [swapchain |-> swapchain.id, image |-> image, blit |-> blit_count,
                     id |-> IF use_present_id THEN next_present_id ELSE 0]
  <2>1. /\ UNCHANGED <<wait_queue, swapchain, waiter, maintenance1, app, blit_count>>
        /\ callback.at = "present"
        /\ maintenance1 => \A p \in InFlight : p.blit # fences[fence]
        /\ IF maintenance1
           THEN fence_index' = fence /\ fences' = [fences EXCEPT ![fence] = blit_count]
           ELSE UNCHANGED <<fences, fence_index>>
        /\ image' \in {image, NoImage}
        /\ presents' = presents \/ presents' = Append(presents, new)
    BY <1>13 DEF QueuePresentKHR, next_fence, fence_signalled, At, features, fencing, blitting,
       waiting
  <2>2. callback'.at \in {"signal", "destroy"}
    BY <1>13 DEF QueuePresentKHR, Fail, Goto, Orderly, Types, Callbacks
  <2>3. swapchain # NoSwapchain
    BY <2>1 DEF CallbackHasASwapchain, WithSwapchain
  <2>4. fence \in Slots
    BY DivisionWithRest DEF PresentTypes, Slots
  <2>5. new \in Presented
    BY DEF Presented, PresentTypes, Orderly, Types, next_present_id
  <2>6. app \notin {"join", "gone"}
    BY <2>1 DEF Orderly, CaughtUp
  <2> HIDE DEF fence, new
  <2>7. PresentTypes'
    <3>1. fences' \in [Slots -> Nat] /\ fence_index' \in Slots
      BY <2>1, <2>4 DEF PresentTypes
    <3>2. presents' \in Seq(Presented)
      <4>1. presents \in Seq(Presented)
        BY DEF PresentTypes
      <4> QED
        BY <2>1, <2>5, <4>1
    <3> QED
      BY <2>1, <3>1, <3>2 DEF PresentTypes
  <2>8. CallbackHasASwapchain'
    BY <2>1, <2>2, <2>3 DEF CallbackHasASwapchain, WithSwapchain
  <2>9. PresentsAreFenced'
    <3> SUFFICES ASSUME maintenance1 PROVE PresentsAreFenced'
      BY <2>1 DEF PresentsAreFenced
    <3>1. ASSUME NEW i \in DOMAIN presents
          PROVE  /\ presents[i].swapchain = swapchain'.id
                 /\ \E s \in Slots : fences'[s] = presents[i].blit
      <4>1. PICK s \in Slots : fences[s] = presents[i].blit
        BY DEF PresentsAreFenced
      <4>2. presents[i].blit # fences[fence]
        BY <2>1 DEF InFlight
      <4>3. fences'[s] = fences[s]
        BY <2>1, <2>4, <4>1, <4>2 DEF PresentTypes
      <4> QED
        BY <2>1, <4>1, <4>3 DEF PresentsAreFenced
    <3>2. fences'[fence] = blit_count
      BY <2>1, <2>4 DEF PresentTypes
    <3>3. ASSUME NEW i \in DOMAIN presents'
          PROVE  (i \in DOMAIN presents /\ presents'[i] = presents[i]) \/ presents'[i] = new
      BY <2>1 DEF PresentTypes
    <3>4. new.swapchain = swapchain'.id /\ new.blit = blit_count
      BY <2>1 DEF new
    <3>5. /\ swapchain' # NoSwapchain /\ callback'.at # "drain_waiter"
          /\ app' \notin {"join", "gone"}
      BY <2>1, <2>2, <2>3, <2>6
    <3> QED
      BY <2>4, <3>1, <3>2, <3>3, <3>4, <3>5 DEF PresentsAreFenced
  <2> QED
    BY <2>1, <2>7, <2>8, <2>9, QueueUntouched
<1>14. CASE FinishPresent
  <2> DEFINE frame == [count |-> present_count + 1, id |-> IF present_id_valid THEN present_id ELSE 0,
                       swapchain |-> swapchain.id]
  <2>1. /\ UNCHANGED <<swapchain, waiter, maintenance1, app, presents, fences, image, fence_index,
                       blit_count, present_id_valid>>
        /\ callback.at = "signal" /\ wait_queue' = Append(wait_queue, frame)
    BY <1>14 DEF FinishPresent, Push, At, features, chain, display, fencing, blitting
  <2>0. callback'.at \in {"idle", "done"} \/ (swapchain # NoSwapchain /\ callback'.at = "acquire")
    <3> DEFINE next == IF swapchain = NoSwapchain THEN "done" ELSE "acquire"
               eager == [Idle EXCEPT !.at = next, !.eager = TRUE]
    <3>1. callback' = Idle \/ callback' = eager
      BY <1>14 DEF FinishPresent
    <3>2. Idle.at = "idle"
      BY DEF Idle
    <3>3. eager.at = next
      BY DEF Idle
    <3>4. next = "done" \/ (swapchain # NoSwapchain /\ next = "acquire")
      OBVIOUS
    <3> HIDE DEF eager, next
    <3> QED
      BY <3>1, <3>2, <3>3, <3>4
  <2>2. app \notin {"join", "gone"}
    BY <2>1 DEF Orderly, CaughtUp
  <2>3. frame \in [count : Nat, id : Nat, swapchain : Nat]
    BY DEF Orderly, Types
  <2>4. frame.count # 0 /\ (frame.id # 0 => frame.swapchain = swapchain.id /\ swapchain # NoSwapchain)
    BY <2>1 DEF Orderly, Types, CallbackHasASwapchain
  <2> HIDE DEF frame
  <2>5. /\ wait_queue \in Seq([count : Nat, id : Nat, swapchain : Nat])
        /\ \A i \in DOMAIN wait_queue : wait_queue'[i] = wait_queue[i]
        /\ \A i \in DOMAIN wait_queue' :
             i \in DOMAIN wait_queue \/ wait_queue'[i] = frame
        /\ wait_queue # <<>> => Head(wait_queue') = Head(wait_queue)
        /\ wait_queue' # <<>>
    <3>1. wait_queue \in Seq([count : Nat, id : Nat, swapchain : Nat])
      BY DEF Orderly, Types
    <3>2. /\ Len(wait_queue') = Len(wait_queue) + 1
          /\ \A i \in DOMAIN wait_queue : wait_queue'[i] = wait_queue[i]
          /\ wait_queue'[Len(wait_queue) + 1] = frame
      BY <2>1, <2>3, <3>1
    <3>3. \A i \in DOMAIN wait_queue' : i \in DOMAIN wait_queue \/ i = Len(wait_queue) + 1
      <4>1. wait_queue' \in Seq([count : Nat, id : Nat, swapchain : Nat])
        BY <2>1, <2>3, <3>1
      <4>2. Len(wait_queue) \in Nat /\ DOMAIN wait_queue = 1..Len(wait_queue)
        BY <3>1
      <4>3. DOMAIN wait_queue' = 1..(Len(wait_queue) + 1)
        BY <3>2, <4>1
      <4> QED
        BY <4>2, <4>3
    <3>4. wait_queue # <<>> => Head(wait_queue') = Head(wait_queue)
      BY <2>1, <2>3, <3>1
    <3>5. wait_queue' # <<>>
      BY <2>1, <2>3, <3>1
    <3> QED
      BY <3>1, <3>2, <3>3, <3>4, <3>5
  <2>6. PresentTypes'
    BY <2>1 DEF PresentTypes
  <2>7. CallbackHasASwapchain'
    BY <2>0, <2>1 DEF CallbackHasASwapchain, WithSwapchain
  <2>8. FramesAreForTheSwapchain'
    BY <2>1, <2>4, <2>5 DEF FramesAreForTheSwapchain
  <2>9. TheSentinelIsLast'
    BY <2>1, <2>2, <2>4, <2>5 DEF TheSentinelIsLast
  <2>10. WaiterIsWhereItBelongs'
    BY <2>1, <2>5 DEF WaiterIsWhereItBelongs, Orderly, WaiterHasAFrame
  <2> QED
    BY <2>0, <2>1, <2>6, <2>7, <2>8, <2>9, <2>10, PresentsUntouched
<1>15. CASE SignalDoneEvent
  <2>1. /\ UNCHANGED <<wait_queue, swapchain, waiter, maintenance1, app, presents, fences, image,
                       fence_index, blit_count, present_id_valid>>
        /\ callback'.at = "idle"
    BY <1>15 DEF SignalDoneEvent, Idle, features, chain, waiting, display, fencing, blitting
  <2>2. PresentTypes'
    BY <2>1 DEF PresentTypes
  <2>3. CallbackHasASwapchain'
    BY <2>1 DEF CallbackHasASwapchain, WithSwapchain
  <2> QED
    BY <2>1, <2>2, <2>3, QueueUntouched, PresentsUntouched
<1>16. CASE Execute
  <2>1. UNCHANGED <<wait_queue, swapchain, waiter, maintenance1, app, presents, fences, image,
                    fence_index, blit_count, present_id_valid, callback>>
    BY <1>16 DEF Execute, features, chain, waiting, fencing, blitting
  <2>2. PresentTypes'
    BY <2>1 DEF PresentTypes
  <2>3. CallbackHasASwapchain'
    BY <2>1 DEF CallbackHasASwapchain
  <2> QED
    BY <2>1, <2>2, <2>3, QueueUntouched, PresentsUntouched
<1>17. CASE Show
  <2>1. /\ UNCHANGED <<wait_queue, swapchain, waiter, maintenance1, app, fences, image,
                       fence_index, blit_count, present_id_valid, callback>>
        /\ presents # <<>> /\ presents' = Tail(presents)
    BY <1>17 DEF Show, features, chain, waiting, fencing, blitting
  <2>2. /\ presents' \in Seq(Presented)
        /\ \A i \in DOMAIN presents' : i + 1 \in DOMAIN presents /\ presents'[i] = presents[i + 1]
    <3>1. presents \in Seq(Presented)
      BY DEF PresentTypes
    <3> QED
      BY <2>1, <3>1, TailFacts
  <2>3. PresentTypes'
    BY <2>1, <2>2 DEF PresentTypes
  <2>4. CallbackHasASwapchain'
    BY <2>1 DEF CallbackHasASwapchain
  <2>5. PresentsAreFenced'
    BY <2>1, <2>2 DEF PresentsAreFenced
  <2> QED
    BY <2>1, <2>3, <2>4, <2>5, QueueUntouched
<1>18. CASE Look \/ CheckSkipWaits \/ Wait
  <2>1. /\ UNCHANGED <<wait_queue, swapchain, maintenance1, app, presents, fences, image,
                       fence_index, blit_count, present_id_valid, callback>>
        /\ wait_queue \in Seq([count : Nat, id : Nat, swapchain : Nat]) /\ wait_queue # <<>>
    BY <1>18 DEF Look, CheckSkipWaits, Wait, features, chain, display, fencing, blitting, Orderly,
       WaiterHasAFrame, Types
  <2>2. PresentTypes'
    BY <2>1 DEF PresentTypes
  <2>3. CallbackHasASwapchain'
    BY <2>1 DEF CallbackHasASwapchain
  <2>4. FramesAreForTheSwapchain' /\ TheSentinelIsLast'
    BY <2>1 DEF FramesAreForTheSwapchain, TheSentinelIsLast
  <2>5. WaiterIsWhereItBelongs'
    <3>1. CASE Look
      BY <2>1, <3>1 DEF Look, WaiterGoto, WaiterIsWhereItBelongs
    <3>2. CASE CheckSkipWaits
      <4>1. 1 \in DOMAIN wait_queue /\ wait_queue[1].id # 0
        BY <2>1, <3>2 DEF CheckSkipWaits, WaiterIsWhereItBelongs
      <4>2. swapchain # NoSwapchain
        BY <4>1 DEF FramesAreForTheSwapchain
      <4> QED
        BY <2>1, <3>2, <4>2 DEF CheckSkipWaits, WaiterGoto, WaiterIsWhereItBelongs
    <3>3. CASE Wait
      BY <2>1, <3>3 DEF Wait, WaiterGoto, WaiterIsWhereItBelongs
    <3> QED
      BY <1>18, <3>1, <3>2, <3>3
  <2> QED
    BY <2>1, <2>2, <2>3, <2>4, <2>5, PresentsUntouched
<1>19. CASE ReleaseFrame
  <2>1. /\ UNCHANGED <<swapchain, maintenance1, app, presents, fences, image, fence_index,
                       blit_count, present_id_valid, callback>>
        /\ waiter.at = "release" /\ waiter'.at = "look" /\ wait_queue' = Tail(wait_queue)
    BY <1>19 DEF ReleaseFrame, WaiterGoto, features, chain, display, fencing, blitting
  <2>2. /\ wait_queue \in Seq([count : Nat, id : Nat, swapchain : Nat]) /\ wait_queue # <<>>
        /\ Len(wait_queue') = Len(wait_queue) - 1
        /\ \A i \in DOMAIN wait_queue' :
             i \in Nat /\ i + 1 \in DOMAIN wait_queue /\ wait_queue'[i] = wait_queue[i + 1]
    <3>1. wait_queue \in Seq([count : Nat, id : Nat, swapchain : Nat]) /\ wait_queue # <<>>
      BY <2>1 DEF Orderly, Types, WaiterHasAFrame
    <3> QED
      BY <2>1, <3>1, TailFacts
  <2>3. PresentTypes'
    BY <2>1 DEF PresentTypes
  <2>4. CallbackHasASwapchain'
    BY <2>1 DEF CallbackHasASwapchain
  <2>5. FramesAreForTheSwapchain'
    BY <2>1, <2>2 DEF FramesAreForTheSwapchain
  <2>6. TheSentinelIsLast'
    BY <2>1, <2>2 DEF TheSentinelIsLast
  <2>7. WaiterIsWhereItBelongs'
    BY <2>1 DEF WaiterIsWhereItBelongs
  <2> QED
    BY <2>1, <2>3, <2>4, <2>5, <2>6, <2>7, PresentsUntouched
<1> QED
  BY <1>1, <1>2, <1>3, <1>4, <1>5, <1>6, <1>7, <1>8, <1>9, <1>10, <1>11, <1>12, <1>13, <1>14,
     <1>15, <1>16, <1>17, <1>18, <1>19
  DEF Next, Call, AppStep, CallbackStep, WaiterStep

\* What the waiter uses and what is on its way to the display is the swapchain there is.
LEMMA LifetimesSuffice == Lifetimes => SwapchainsOutliveTheirUsers
<1> SUFFICES ASSUME Lifetimes PROVE SwapchainsOutliveTheirUsers
  OBVIOUS
<1>1. WaitsAreForTheSwapchain
  BY DEF Lifetimes, WaiterIsWhereItBelongs, FramesAreForTheSwapchain, WaitsAreForTheSwapchain
<1>2. PresentsAreForTheSwapchain
  BY DEF Lifetimes, PresentsAreFenced, PresentsAreForTheSwapchain, InFlight
<1> QED
  BY <1>1, <1>2 DEF SwapchainsOutliveTheirUsers

\* No VkSwapchainKHR is destroyed while the waiter waits for one of its presents or,
\* with VK_EXT_swapchain_maintenance1, while a present is on its way: by no resize,
\* change of mode, failed acquisition or present, and not by the Release.
THEOREM SwapchainsAlwaysOutliveTheirUsers == Spec => []SwapchainsOutliveTheirUsers
<1>1. Init => Orderly /\ Lifetimes
  BY OrderlyInit, LifetimesInit
<1>2. Orderly /\ Lifetimes /\ [Next]_vars => (Orderly /\ Lifetimes)'
  BY OrderlyStep, LifetimesStep
<1>3. Lifetimes => SwapchainsOutliveTheirUsers
  BY LifetimesSuffice
<1> QED
  BY <1>1, <1>2, <1>3, PTL DEF Spec

-----------------------------------------------------------------------------
(***************************************************************************)
(* The signals and waits of an acquire semaphore alternate, and nothing a  *)
(* submitted blit reads is freed.                                          *)
(***************************************************************************)

\* What is submitted to the GPU: the end of a frame, a wait for an acquire
\* semaphore, or a blit, which waits for one as well.
Submission ==
  [op : {"complete"}, value : Nat]
    \cup [op : {"wait"}, semaphore : Slots, value : Nat]
    \cup [op : {"blit"}, semaphore : Slots, value : Nat, from : Nat, view : Nat]

\* The submissions of a queue that wait for an acquire semaphore, and for this one.
WaitsIn(q) == {k \in DOMAIN q : q[k].op # "complete"}
WaitsFor(q, i) == {k \in WaitsIn(q) : q[k].semaphore = i}

\* They are numbered in order, after what is done and up to what was counted.
Numbered(q, done, count) ==
  /\ \A k \in WaitsIn(q) : done < q[k].value /\ q[k].value <= count
  /\ \A j, k \in WaitsIn(q) : j < k => q[j].value < q[k].value

\* No two of them wait for the same semaphore.
OneWaitEach(q) == \A j, k \in WaitsIn(q) : q[j].semaphore = q[k].semaphore => j = k

\* After the callbacks have ended the flags of the semaphores are not kept.
Leaving == {"drain_gpu", "join", "gone"}

\* The types of what acquiring and blitting keep.
AcquireTypes ==
  /\ semaphore_index \in Slots
  /\ signalled \in [Slots -> BOOLEAN] /\ consumed_at \in [Slots -> Nat]
  /\ blit_count \in Nat /\ blit_done \in Nat /\ complete \in Nat
  /\ user_images \in Nat /\ user_views \in Nat
  /\ acquired \subseteq Slots /\ vk_queue \in Seq(Submission)
  /\ image \in Images \cup {NoImage}

\* What is in the queue, and what is known of each semaphore: which comes next, and
\* when the last wait for it is done.
SemaphoresAreKnown ==
  /\ blit_done <= blit_count
  /\ Numbered(vk_queue, blit_done, blit_count)
  /\ OneWaitEach(vk_queue)
  /\ app \notin Leaving =>
       /\ \A k \in WaitsIn(vk_queue) : vk_queue[k].value = consumed_at[vk_queue[k].semaphore]
       /\ \A i \in Slots :
            /\ signalled[i] => WaitsFor(vk_queue, i) = {} /\ i \in acquired
            /\ ~signalled[i] => (i \in acquired <=> WaitsFor(vk_queue, i) # {})

\* An image that is to be blitted to has been acquired with the current semaphore,
\* and the next image is acquired with one that is free.
ImageIsAcquired ==
  /\ callback.at \in {"reclaim", "next_image", "create"} => image = NoImage
  /\ callback.at = "blit" => image # NoImage
  /\ image # NoImage /\ callback.at \notin {"present", "destroy", "drain_waiter"} =>
       signalled[semaphore_index]
  /\ callback.at = "next_image" =>
       ~signalled[semaphore_index] /\ WaitsFor(vk_queue, semaphore_index) = {}
  /\ swapchain = NoSwapchain /\ app # "gone" => image = NoImage

\* The inductive invariant, on top of Orderly and Lifetimes.
Acquisitions == AcquireTypes /\ SemaphoresAreKnown /\ ImageIsAcquired

\* The ends of frames in a queue are numbered in order, after what is done and up to
\* what was counted.
EndsIn(q) == {k \in DOMAIN q : q[k].op = "complete"}
EndsNumbered(q, done, count) ==
  /\ \A k \in EndsIn(q) : done < q[k].value /\ q[k].value <= count
  /\ \A j, k \in EndsIn(q) : j < k => q[j].value < q[k].value

\* The blits in a queue: each reads these buffers through these views, and is followed by
\* the end of its frame.
BlitsIn(q) == {k \in DOMAIN q : q[k].op = "blit"}
BlitsAreFrom(q, images, views) ==
  \A k \in BlitsIn(q) : q[k].from = images /\ q[k].view = views
BlitsAreEnded(q) == \A k \in BlitsIn(q) : \E j \in EndsIn(q) : k < j

\* Frames end on the GPU in order, only the callback's own frame has a blit and no end
\* there, and no blit reads buffers that were replaced or views that were destroyed.
FramesEndInOrder ==
  /\ complete <= present_count /\ present_count <= user_count
  /\ EndsNumbered(vk_queue, complete, present_count)
  /\ BlitsAreFrom(vk_queue, user_images, user_views)
  /\ ~Working => BlitsAreEnded(vk_queue)

\* What the application and its requests are bounded by.
CallsAreBounded ==
  /\ app \in {"idle", "latency", "event", "resize", "drain_queue", "drain_gpu", "join", "gone"}
  /\ user_count <= MaxPresents /\ events \in 0..MaxEvents
  /\ user_views \in Nat /\ user_images \in 0..user_views
  /\ user_views + (IF app = "resize" THEN 1 ELSE 0) <= events
  /\ request_ring \in [Slots -> [count : 0..MaxPresents, mode : Modes \cup {NoMode}]]
  /\ request \in [count : 0..MaxPresents, mode : Modes \cup {NoMode}]

\* What the callback and its swapchain are; the present ID is the frame's number at most.
ChainIsBounded ==
  /\ callback.retry \in 0..Retries /\ callback.then \in {"idle", "create", "signal"}
  /\ maintenance1 \in BOOLEAN /\ force \in BOOLEAN /\ surface_lost \in BOOLEAN
  /\ present_id_valid \in BOOLEAN
  /\ swapchain.id <= created
  /\ present_id <= present_count + 1
  /\ present_id = present_count + 1 =>
       Working /\ (present_id_valid \/ callback.at \in {"destroy", "drain_waiter"})

\* No semaphore, fence or command buffer waits for a blit that was not submitted.
BlitsAreCounted ==
  /\ blit_count \in Nat
  /\ consumed_at \in [Slots -> 0..blit_count] /\ fences \in [Slots -> 0..blit_count]
  /\ blit_timelines \in [Images -> 0..blit_count]

\* Where the waiter is, and the swapchains it may use.
WaiterIsBounded ==
  /\ skip_waits \in BOOLEAN
  /\ waiter.at \in {"look", "skip?", "present", "complete", "release", "ended"}
  /\ waiter.swapchain \in 0..created

\* The latency semaphore: without present wait nobody touches it, with it the waiter
\* does not end before its last entry, the sentinel, and one Present waits at a time.
LatencyIsBounded ==
  /\ ~supports_present_wait => latency = FrameLatency - 1 /\ wait_counts = 0
  /\ waiter.at \notin {"look", "ended"} => Head(wait_queue).count # 0
  /\ app \in {"join", "gone"} => wait_queue # <<>> /\ wait_queue[Len(wait_queue)].count = 0
  /\ supports_present_wait /\ app \in {"join", "gone"} =>
       latency - wait_counts + Len(wait_queue) + user_count = FrameLatency + present_count
  /\ app = "latency" => wait_counts <= 1 /\ user_count # 0

\* What a submission says.
LEMMA SubmissionFacts ==
  ASSUME NEW e \in Submission
  PROVE  /\ e.op \in {"complete", "wait", "blit"} /\ e.value \in Nat
         /\ e.op # "complete" => e.semaphore \in Slots
         /\ e.op = "blit" => e.from \in Nat /\ e.view \in Nat
BY DEF Submission

\* A queue with one more submission.
LEMMA SubmitFacts ==
  ASSUME NEW q \in Seq(Submission), NEW e \in Submission
  PROVE  /\ Append(q, e) \in Seq(Submission)
         /\ DOMAIN Append(q, e) = DOMAIN q \cup {Len(q) + 1}
         /\ Len(q) + 1 \notin DOMAIN q
         /\ \A k \in DOMAIN q : k \in Nat /\ k < Len(q) + 1 /\ Append(q, e)[k] = q[k]
         /\ Append(q, e)[Len(q) + 1] = e
<1>1. /\ Append(q, e) \in Seq(Submission) /\ Len(Append(q, e)) = Len(q) + 1 /\ Len(q) \in Nat
      /\ \A k \in 1..Len(q) : Append(q, e)[k] = q[k]
      /\ Append(q, e)[Len(q) + 1] = e
  OBVIOUS
<1>2. DOMAIN Append(q, e) = 1..(Len(q) + 1) /\ DOMAIN q = 1..Len(q)
  BY <1>1
<1> QED
  BY <1>1, <1>2

\* A submission at the end: numbers stay in order, and if it is the only one to
\* wait for its semaphore, waits stay single.
LEMMA SubmitKeepsOrder ==
  ASSUME NEW q \in Seq(Submission), NEW e \in Submission, NEW done \in Nat, NEW count \in Nat,
         done <= count, Numbered(q, done, count), OneWaitEach(q)
  PROVE  /\ e.op = "complete" =>
              /\ Numbered(Append(q, e), done, count) /\ OneWaitEach(Append(q, e))
              /\ WaitsIn(Append(q, e)) = WaitsIn(q)
              /\ \A i : WaitsFor(Append(q, e), i) = WaitsFor(q, i)
         /\ e.op # "complete" /\ e.value = count + 1 /\ WaitsFor(q, e.semaphore) = {} =>
              /\ Numbered(Append(q, e), done, count + 1) /\ OneWaitEach(Append(q, e))
              /\ WaitsIn(Append(q, e)) = WaitsIn(q) \cup {Len(q) + 1}
              /\ WaitsFor(Append(q, e), e.semaphore) = {Len(q) + 1}
              /\ \A i : i # e.semaphore => WaitsFor(Append(q, e), i) = WaitsFor(q, i)
<1> DEFINE r == Append(q, e)
           n == Len(q) + 1
<1>1. /\ DOMAIN r = DOMAIN q \cup {n} /\ n \notin DOMAIN q
      /\ \A k \in DOMAIN q : k \in Nat /\ k < n /\ r[k] = q[k]
      /\ r[n] = e /\ n \in Nat
  BY SubmitFacts
<1> HIDE DEF r, n
<1>2. \A k \in WaitsIn(q) : q[k].value \in Nat /\ k \in DOMAIN q /\ k \in Nat
  <2> TAKE k \in WaitsIn(q)
  <2>1. k \in DOMAIN q
    BY DEF WaitsIn
  <2>2. q[k] \in Submission /\ k \in Nat
    BY <2>1
  <2> QED
    BY <2>1, <2>2, SubmissionFacts
<1>3. ASSUME e.op = "complete"
      PROVE  /\ Numbered(r, done, count) /\ OneWaitEach(r) /\ WaitsIn(r) = WaitsIn(q)
             /\ \A i : WaitsFor(r, i) = WaitsFor(q, i)
  <2>1. WaitsIn(r) = WaitsIn(q) /\ \A k \in WaitsIn(q) : r[k] = q[k]
    BY <1>1, <1>3 DEF WaitsIn
  <2> QED
    BY <2>1 DEF Numbered, OneWaitEach, WaitsFor
<1>4. ASSUME e.op # "complete", e.value = count + 1, WaitsFor(q, e.semaphore) = {}
      PROVE  /\ Numbered(r, done, count + 1) /\ OneWaitEach(r) /\ WaitsIn(r) = WaitsIn(q) \cup {n}
             /\ WaitsFor(r, e.semaphore) = {n}
             /\ \A i : i # e.semaphore => WaitsFor(r, i) = WaitsFor(q, i)
  <2>1. WaitsIn(r) = WaitsIn(q) \cup {n} /\ \A k \in WaitsIn(q) : r[k] = q[k] /\ k < n
    BY <1>1, <1>4 DEF WaitsIn
  <2>2. \A k \in WaitsIn(q) : q[k].semaphore # e.semaphore
    BY <1>4 DEF WaitsFor
  <2>3. Numbered(r, done, count + 1)
    <3>1. \A k \in WaitsIn(q) : done < q[k].value /\ q[k].value <= count
      BY DEF Numbered
    <3>2. \A k \in WaitsIn(r) : done < r[k].value /\ r[k].value <= count + 1
      BY <1>1, <1>2, <1>4, <2>1, <3>1
    <3>3. ASSUME NEW j \in WaitsIn(r), NEW k \in WaitsIn(r), j < k
          PROVE  r[j].value < r[k].value
      <4>1. CASE k = n
        <5>1. j \in WaitsIn(q)
          BY <1>1, <2>1, <3>3, <4>1
        <5>2. r[j].value = q[j].value /\ q[j].value \in Nat /\ q[j].value <= count
          BY <1>2, <2>1, <3>1, <5>1
        <5>3. r[k].value = count + 1
          BY <1>1, <1>4, <4>1
        <5> QED
          BY <5>2, <5>3
      <4>2. CASE k \in WaitsIn(q)
        <5>1. j \in WaitsIn(q)
          BY <1>1, <1>2, <2>1, <3>3, <4>2
        <5> QED
          BY <2>1, <3>3, <4>2, <5>1 DEF Numbered
      <4> QED
        BY <2>1, <4>1, <4>2
    <3> QED
      BY <3>2, <3>3 DEF Numbered
  <2>4. OneWaitEach(r)
    BY <1>1, <2>1, <2>2 DEF OneWaitEach
  <2>5. WaitsFor(r, e.semaphore) = {n}
    BY <1>1, <2>1, <2>2 DEF WaitsFor
  <2>6. \A i : i # e.semaphore => WaitsFor(r, i) = WaitsFor(q, i)
    BY <1>1, <2>1 DEF WaitsFor
  <2> QED
    BY <2>1, <2>3, <2>4, <2>5, <2>6
<1> QED
  BY <1>3, <1>4 DEF r, n

\* A queue whose first submission is executed.
LEMMA ExecuteKeepsOrder ==
  ASSUME NEW q \in Seq(Submission), q # <<>>, NEW done \in Nat, NEW count \in Nat,
         NEW images, NEW views,
         Numbered(q, done, count), OneWaitEach(q)
  PROVE  /\ Head(q) \in Submission /\ Tail(q) \in Seq(Submission)
         /\ \A k \in WaitsIn(Tail(q)) :
              k + 1 \in WaitsIn(q) /\ Tail(q)[k] = q[k + 1] /\ k \in Nat /\ k + 1 # 1
         /\ OneWaitEach(Tail(q))
         /\ Head(q).op = "complete" =>
              /\ Numbered(Tail(q), done, count)
              /\ \A i : WaitsFor(Tail(q), i) = {} <=> WaitsFor(q, i) = {}
         /\ Head(q).op # "complete" =>
              /\ Numbered(Tail(q), Head(q).value, count)
              /\ Head(q).value <= count /\ done < Head(q).value
              /\ WaitsFor(Tail(q), Head(q).semaphore) = {}
              /\ WaitsFor(q, Head(q).semaphore) # {}
              /\ \A i : i # Head(q).semaphore =>
                   (WaitsFor(Tail(q), i) = {} <=> WaitsFor(q, i) = {})
<1> DEFINE t == Tail(q)
<1>1. /\ Head(q) = q[1] /\ t \in Seq(Submission) /\ Len(t) = Len(q) - 1 /\ Len(q) \in Nat \ {0}
      /\ Head(q) \in Submission
      /\ \A k \in 1..(Len(q) - 1) : t[k] = q[k + 1]
  OBVIOUS
<1>2. DOMAIN t = 1..(Len(q) - 1) /\ DOMAIN q = 1..Len(q)
  BY <1>1
<1> HIDE DEF t
<1>3. \A k \in WaitsIn(t) : k + 1 \in WaitsIn(q) /\ t[k] = q[k + 1] /\ k \in Nat /\ k + 1 # 1
  BY <1>1, <1>2 DEF WaitsIn
<1>4. \A k \in WaitsIn(q) : k = 1 \/ (k - 1 \in WaitsIn(t) /\ t[k - 1] = q[k] /\ k - 1 \in Nat)
  <2> TAKE k \in WaitsIn(q)
  <2>1. CASE k # 1
    <3>1. k \in 1..Len(q) /\ k - 1 \in 1..(Len(q) - 1) /\ (k - 1) + 1 = k /\ q[k].op # "complete"
      BY <1>1, <1>2, <2>1 DEF WaitsIn
    <3>2. t[k - 1] = q[k]
      BY <1>1, <3>1
    <3> QED
      BY <1>2, <3>1, <3>2 DEF WaitsIn
  <2> QED
    BY <2>1
<1>5. OneWaitEach(t)
  BY <1>3 DEF OneWaitEach
<1>6. \A k \in WaitsIn(q) : q[k].value \in Nat
  <2> TAKE k \in WaitsIn(q)
  <2>1. q[k] \in Submission
    BY <1>2 DEF WaitsIn
  <2> QED
    BY <2>1, SubmissionFacts
<1>7. ASSUME Head(q).op = "complete"
      PROVE  Numbered(t, done, count) /\ \A i : WaitsFor(t, i) = {} <=> WaitsFor(q, i) = {}
  <2>1. 1 \notin WaitsIn(q)
    BY <1>1, <1>7 DEF WaitsIn
  <2>2. Numbered(t, done, count)
    <3>1. \A j, k \in WaitsIn(t) : j < k => j + 1 < k + 1
      BY <1>3
    <3> QED
      BY <1>3, <3>1 DEF Numbered
  <2>3. \A i : WaitsFor(t, i) = {} <=> WaitsFor(q, i) = {}
    BY <1>3, <1>4, <2>1 DEF WaitsFor
  <2> QED
    BY <2>2, <2>3
<1>8. ASSUME Head(q).op # "complete"
      PROVE  /\ Numbered(t, Head(q).value, count)
             /\ Head(q).value <= count /\ done < Head(q).value
             /\ WaitsFor(t, Head(q).semaphore) = {}
             /\ WaitsFor(q, Head(q).semaphore) # {}
             /\ \A i : i # Head(q).semaphore => (WaitsFor(t, i) = {} <=> WaitsFor(q, i) = {})
  <2>1. 1 \in WaitsIn(q) /\ q[1] = Head(q)
    BY <1>1, <1>2, <1>8 DEF WaitsIn
  <2>2. \A k \in WaitsIn(t) : 1 < k + 1 /\ Head(q).value < t[k].value
    <3> TAKE k \in WaitsIn(t)
    <3>1. k + 1 \in WaitsIn(q) /\ t[k] = q[k + 1] /\ k \in Nat /\ k + 1 # 1
      BY <1>3
    <3>2. 1 < k + 1
      BY <3>1
    <3> QED
      BY <2>1, <3>1, <3>2 DEF Numbered
  <2>3. Numbered(t, Head(q).value, count)
    <3>1. \A j, k \in WaitsIn(t) : j < k => j + 1 < k + 1
      BY <1>3
    <3> QED
      BY <1>3, <2>2, <3>1 DEF Numbered
  <2>4. Head(q).value <= count /\ done < Head(q).value
    BY <2>1 DEF Numbered
  <2>5. \A k \in WaitsIn(t) : t[k].semaphore # Head(q).semaphore
    BY <1>3, <2>1 DEF OneWaitEach
  <2>6. WaitsFor(t, Head(q).semaphore) = {} /\ WaitsFor(q, Head(q).semaphore) # {}
    BY <2>1, <2>5 DEF WaitsFor
  <2>7. \A i : i # Head(q).semaphore => (WaitsFor(t, i) = {} <=> WaitsFor(q, i) = {})
    BY <1>3, <1>4, <2>1 DEF WaitsFor
  <2> QED
    BY <2>3, <2>4, <2>6, <2>7
<1> QED
  BY <1>1, <1>3, <1>5, <1>7, <1>8 DEF t

\* Waits for different semaphores that nobody waits for, numbered on from the count.
LastWaits(w, q, count) ==
  /\ w \in Seq(Submission)
  /\ \A k \in DOMAIN w :
       w[k].op = "wait" /\ w[k].value = count + k /\ WaitsFor(q, w[k].semaphore) = {}
  /\ \A j, k \in DOMAIN w : w[j].semaphore = w[k].semaphore => j = k

\* A queue to which a wait for each of some semaphores nobody waits for is added.
LEMMA LeaveFacts ==
  ASSUME NEW q \in Seq(Submission), NEW done \in Nat, NEW count \in Nat, done <= count,
         Numbered(q, done, count), OneWaitEach(q),
         NEW w, LastWaits(w, q, count), NEW total \in Nat, total = count + Len(w)
  PROVE  LET r == q \o w
         IN  r \in Seq(Submission) /\ Numbered(r, done, total) /\ OneWaitEach(r)
<1> DEFINE r == q \o w
           m == Len(q)
           n == Len(w)
<1>1. /\ m \in Nat /\ DOMAIN q = 1..m /\ w \in Seq(Submission) /\ n \in Nat /\ DOMAIN w = 1..n
      /\ total = count + n
  BY DEF LastWaits
<1>2. \A k \in 1..n :
        w[k].op = "wait" /\ w[k].value = count + k /\ WaitsFor(q, w[k].semaphore) = {}
  BY <1>1 DEF LastWaits
<1>3. \A j, k \in 1..n : w[j].semaphore = w[k].semaphore => j = k
  BY <1>1 DEF LastWaits
<1>4. /\ r \in Seq(Submission) /\ Len(r) = m + n /\ DOMAIN r = 1..(m + n)
      /\ \A k \in 1..m : r[k] = q[k]
      /\ \A k \in 1..n : r[m + k] = w[k]
  <2>1. r \in Seq(Submission) /\ Len(r) = m + Len(w)
    BY <1>1
  <2>2. /\ \A k \in 1..m : r[k] = q[k]
        /\ \A k \in 1..Len(w) : r[m + k] = w[k]
    <3>1. ASSUME NEW k \in 1..Len(w) PROVE r[m + k] = w[k]
      <4>1. m + k \in Int /\ m + k > m /\ m + k <= m + Len(w) /\ (m + k) - m = k
        BY <1>1
      <4> QED
        BY <4>1
    <3> QED
      BY <3>1
  <2>3. DOMAIN r = 1..(m + n)
    BY <2>1
  <2> QED
    BY <2>1, <2>2, <2>3
<1> HIDE DEF r, m, n
<1>5. \A k \in 1..(m + n) : k \in 1..m \/ (k - m \in 1..n /\ k = m + (k - m) /\ k > m)
  BY <1>1
<1>6. \A k \in WaitsIn(r) :
        \/ k \in WaitsIn(q) /\ r[k] = q[k] /\ k <= m
        \/ /\ k - m \in 1..n /\ k > m /\ r[k].semaphore = w[k - m].semaphore
           /\ r[k].value = count + (k - m)
  <2> TAKE k \in WaitsIn(r)
  <2>1. k \in 1..(m + n) /\ r[k].op # "complete"
    BY <1>4 DEF WaitsIn
  <2>2. CASE k \in 1..m
    BY <1>1, <1>4, <2>1, <2>2 DEF WaitsIn, m
  <2>3. CASE k - m \in 1..n /\ k = m + (k - m) /\ k > m
    BY <1>2, <1>4, <2>3
  <2> QED
    BY <1>5, <2>1, <2>2, <2>3
<1>7. \A k \in WaitsIn(q) :
        q[k].value \in Nat /\ done < q[k].value /\ q[k].value <= count /\ k \in 1..m
        /\ \A j \in 1..n : q[k].semaphore # w[j].semaphore
  <2> TAKE k \in WaitsIn(q)
  <2>1. k \in 1..m /\ q[k] \in Submission
    BY <1>1 DEF WaitsIn, m
  <2>2. \A j \in 1..n : q[k].semaphore # w[j].semaphore
    BY <1>2 DEF WaitsFor
  <2> QED
    BY <2>1, <2>2, SubmissionFacts DEF Numbered
<1>8. Numbered(r, done, total)
  <2>1. ASSUME NEW k \in WaitsIn(r) PROVE done < r[k].value /\ r[k].value <= total
    <3>1. CASE k \in WaitsIn(q) /\ r[k] = q[k]
      BY <1>7, <3>1
    <3>2. CASE k - m \in 1..n /\ r[k].value = count + (k - m)
      BY <1>1, <3>2
    <3> QED
      BY <1>6, <3>1, <3>2
  <2>2. ASSUME NEW j \in WaitsIn(r), NEW k \in WaitsIn(r), j < k
        PROVE  r[j].value < r[k].value
    <3>1. CASE k \in WaitsIn(q) /\ r[k] = q[k] /\ k <= m
      <4>1. j \in WaitsIn(q) /\ r[j] = q[j]
        <5>1. k \in 1..m /\ ~(j > m)
          BY <1>7, <2>2, <3>1, <1>1, <1>4 DEF WaitsIn, m
        <5> QED
          BY <1>6, <5>1
      <4> QED
        BY <2>2, <3>1, <4>1 DEF Numbered
    <3>2. CASE k - m \in 1..n /\ r[k].value = count + (k - m)
      <4>1. CASE j \in WaitsIn(q) /\ r[j] = q[j]
        <5>1. r[j].value \in Nat /\ r[j].value <= count
          BY <1>7, <4>1
        <5> QED
          BY <3>2, <5>1
      <4>2. CASE j - m \in 1..n /\ r[j].value = count + (j - m)
        <5>1. j \in Nat /\ k \in Nat /\ m \in Nat
          BY <1>1, <1>4 DEF WaitsIn, m
        <5> QED
          BY <2>2, <3>2, <4>2, <5>1
      <4> QED
        BY <1>6, <4>1, <4>2
    <3> QED
      BY <1>6, <3>1, <3>2
  <2> QED
    BY <2>1, <2>2 DEF Numbered
<1>9. OneWaitEach(r)
  <2> SUFFICES ASSUME NEW j \in WaitsIn(r), NEW k \in WaitsIn(r),
                      r[j].semaphore = r[k].semaphore
               PROVE  j = k
    BY DEF OneWaitEach
  <2>0. j \in Nat /\ k \in Nat /\ m \in Nat
    BY <1>1, <1>4 DEF WaitsIn, m
  <2>1. CASE j \in WaitsIn(q) /\ r[j] = q[j] /\ k \in WaitsIn(q) /\ r[k] = q[k]
    BY <2>1 DEF OneWaitEach
  <2>2. CASE /\ j - m \in 1..n /\ r[j].semaphore = w[j - m].semaphore
             /\ k - m \in 1..n /\ r[k].semaphore = w[k - m].semaphore
    <3>1. j - m = k - m
      BY <1>3, <2>2
    <3> QED
      BY <2>0, <3>1
  <2>3. \/ j \in WaitsIn(q) /\ r[j] = q[j]
        \/ j - m \in 1..n /\ r[j].semaphore = w[j - m].semaphore
    BY <1>6
  <2>4. \/ k \in WaitsIn(q) /\ r[k] = q[k]
        \/ k - m \in 1..n /\ r[k].semaphore = w[k - m].semaphore
    BY <1>6
  <2> QED
    BY <1>7, <2>1, <2>2, <2>3, <2>4
<1> QED
  BY <1>4, <1>8, <1>9 DEF r

\* Nothing is known anew in steps that leave the semaphores and the queue alone.
LEMMA SemaphoresUntouched ==
  ASSUME SemaphoresAreKnown, app' \notin Leaving => app \notin Leaving,
         UNCHANGED <<vk_queue, blit_done, blit_count, consumed_at, signalled, acquired>>
  PROVE  SemaphoresAreKnown'
BY DEF SemaphoresAreKnown, WaitsIn, WaitsFor, Numbered, OneWaitEach

\* A wait for a semaphore that is signalled, as a blit or for its own sake.
LEMMA WaitSubmitted ==
  ASSUME AcquireTypes, SemaphoresAreKnown, app \notin Leaving, app' = app,
         NEW i \in Slots, signalled[i], NEW e \in Submission,
         e.op # "complete", e.semaphore = i, e.value = blit_count + 1,
         vk_queue' = Append(vk_queue, e), blit_count' = blit_count + 1,
         consumed_at' = [consumed_at EXCEPT ![i] = blit_count + 1],
         signalled' = [signalled EXCEPT ![i] = FALSE],
         UNCHANGED <<acquired, blit_done>>
  PROVE  /\ SemaphoresAreKnown'
         /\ vk_queue' \in Seq(Submission) /\ blit_count' \in Nat
         /\ consumed_at' \in [Slots -> Nat] /\ signalled' \in [Slots -> BOOLEAN]
<1>1. WaitsFor(vk_queue, i) = {} /\ i \in acquired
  BY DEF SemaphoresAreKnown
<1>2. /\ vk_queue \in Seq(Submission) /\ blit_done \in Nat /\ blit_count \in Nat
      /\ consumed_at \in [Slots -> Nat] /\ signalled \in [Slots -> BOOLEAN]
  BY DEF AcquireTypes
<1>3. /\ Numbered(vk_queue', blit_done, blit_count + 1) /\ OneWaitEach(vk_queue')
      /\ WaitsIn(vk_queue') = WaitsIn(vk_queue) \cup {Len(vk_queue) + 1}
      /\ WaitsFor(vk_queue', i) = {Len(vk_queue) + 1}
      /\ \A j : j # i => WaitsFor(vk_queue', j) = WaitsFor(vk_queue, j)
  BY <1>1, <1>2, SubmitKeepsOrder DEF SemaphoresAreKnown
<1>4. blit_done' <= blit_count'
  BY <1>2 DEF SemaphoresAreKnown
<1>5. /\ vk_queue'[Len(vk_queue) + 1] = e
      /\ \A k \in DOMAIN vk_queue : vk_queue'[k] = vk_queue[k]
      /\ vk_queue' \in Seq(Submission)
  BY <1>2, SubmitFacts
<1>6. ASSUME NEW k \in WaitsIn(vk_queue')
      PROVE  vk_queue'[k].value = consumed_at'[vk_queue'[k].semaphore]
  <2>1. CASE k = Len(vk_queue) + 1
    BY <1>2, <1>5, <2>1
  <2>2. CASE k \in WaitsIn(vk_queue)
    <3>1. k \in DOMAIN vk_queue /\ vk_queue[k].op # "complete" /\ vk_queue[k] \in Submission
      BY <1>2, <2>2 DEF WaitsIn
    <3>2. vk_queue'[k] = vk_queue[k] /\ vk_queue[k].semaphore \in Slots
      BY <1>5, <3>1, SubmissionFacts
    <3>3. vk_queue[k].semaphore # i
      BY <1>1, <2>2 DEF WaitsFor
    <3>4. consumed_at'[vk_queue[k].semaphore] = consumed_at[vk_queue[k].semaphore]
      BY <1>2, <3>2, <3>3
    <3>5. vk_queue[k].value = consumed_at[vk_queue[k].semaphore]
      BY <2>2 DEF SemaphoresAreKnown
    <3> QED
      BY <3>2, <3>4, <3>5
  <2> QED
    BY <1>3, <2>1, <2>2
<1>7. ASSUME NEW j \in Slots
      PROVE  /\ signalled'[j] => WaitsFor(vk_queue', j) = {} /\ j \in acquired'
             /\ ~signalled'[j] => (j \in acquired' <=> WaitsFor(vk_queue', j) # {})
  <2>1. CASE j = i
    BY <1>1, <1>2, <1>3, <2>1
  <2>2. CASE j # i
    <3>1. signalled'[j] = signalled[j] /\ WaitsFor(vk_queue', j) = WaitsFor(vk_queue, j)
      BY <1>2, <1>3, <2>2
    <3> QED
      BY <3>1 DEF SemaphoresAreKnown
  <2> QED
    BY <2>1, <2>2
<1>8. SemaphoresAreKnown'
  BY <1>3, <1>4, <1>6, <1>7 DEF SemaphoresAreKnown
<1> QED
  BY <1>2, <1>5, <1>8

\* A semaphore that is signalled is waited for before it is used again.
LEMMA EnsureUnsignaledFacts ==
  ASSUME AcquireTypes, SemaphoresAreKnown, app \notin Leaving, app' = app,
         NEW i \in Slots, ensure_unsignaled(i), UNCHANGED <<acquired, blit_done>>
  PROVE  /\ SemaphoresAreKnown'
         /\ vk_queue' \in Seq(Submission) /\ blit_count' \in Nat
         /\ consumed_at' \in [Slots -> Nat] /\ signalled' \in [Slots -> BOOLEAN]
<1>1. CASE signalled[i]
  <2> DEFINE e == WaitSubmission(i, blit_count + 1)
  <2>1. e \in Submission /\ e.op # "complete" /\ e.semaphore = i /\ e.value = blit_count + 1
    BY DEF WaitSubmission, Submission, AcquireTypes
  <2>2. /\ vk_queue' = Append(vk_queue, e) /\ blit_count' = blit_count + 1
        /\ consumed_at' = [consumed_at EXCEPT ![i] = blit_count + 1]
        /\ signalled' = [signalled EXCEPT ![i] = FALSE]
    BY <1>1 DEF ensure_unsignaled
  <2> HIDE DEF e
  <2> QED
    BY <1>1, <2>1, <2>2, WaitSubmitted
<1>2. CASE ~signalled[i]
  <2>1. UNCHANGED <<vk_queue, blit_count, consumed_at, signalled>>
    BY <1>2 DEF ensure_unsignaled
  <2> QED
    BY <2>1, SemaphoresUntouched DEF AcquireTypes
<1> QED
  BY <1>1, <1>2

\* It holds at first: no semaphore has been used.
LEMMA AcquisitionsInit == Init => Acquisitions
<1> SUFFICES ASSUME Init PROVE Acquisitions
  OBVIOUS
<1> USE SwapchainAssumption DEF Init
<1>1. AcquireTypes
  BY DEF AcquireTypes, Slots
<1>2. SemaphoresAreKnown
  <2>1. WaitsIn(vk_queue) = {} /\ \A i : WaitsFor(vk_queue, i) = {}
    BY DEF WaitsIn, WaitsFor
  <2> QED
    BY <2>1 DEF SemaphoresAreKnown, Numbered, OneWaitEach
<1>3. ImageIsAcquired
  BY DEF ImageIsAcquired, Idle
<1> QED
  BY <1>1, <1>2, <1>3 DEF Acquisitions

\* Nor in steps of the application, the waiter and the window system that leave the
\* image and the callback alone too.
LEMMA AcquisitionsUntouched ==
  ASSUME Acquisitions, app' \notin Leaving => app \notin Leaving,
         UNCHANGED <<vk_queue, blit_done, blit_count, consumed_at, signalled, acquired,
                     semaphore_index, image, callback, complete>>,
         user_images' \in Nat, user_views' \in Nat,
         app' = "gone" \/ (swapchain' = swapchain /\ app # "gone") \/ UNCHANGED <<app, swapchain>>
  PROVE  Acquisitions'
<1>1. AcquireTypes'
  BY DEF Acquisitions, AcquireTypes
<1>2. SemaphoresAreKnown'
  BY SemaphoresUntouched DEF Acquisitions
<1>3. ImageIsAcquired'
  BY DEF Acquisitions, ImageIsAcquired, WaitsFor, WaitsIn
<1> QED
  BY <1>1, <1>2, <1>3 DEF Acquisitions

\* Every step preserves it: a semaphore is acquired with when no wait for it is left, and
\* its one wait is submitted before it is acquired with again.
LEMMA AcquisitionsStep ==
  ASSUME Orderly, Lifetimes, Acquisitions, [Next]_vars
  PROVE  Acquisitions'
<1> USE SwapchainAssumption DEF Acquisitions
<1>0. /\ callback.at # "idle" => app \notin Leaving
      /\ callback \in Callbacks /\ callback.at \in Places
      /\ \A where \in Places : [callback EXCEPT !.at = where].at = where
  BY GotoFacts DEF Orderly, Types, CaughtUp, Leaving, Callbacks
<1>1. CASE \/ \E mode \in Modes : Present(mode)
           \/ WaitInternalHandle \/ WaitDoneEvent \/ ChangeProperties \/ Release
  <2>1. /\ UNCHANGED <<vk_queue, blit_done, blit_count, consumed_at, signalled, acquired,
                       semaphore_index, image, callback, complete, user_images, user_views,
                       swapchain>>
        /\ app \notin Leaving
    BY <1>1 DEF Present, WaitInternalHandle, WaitDoneEvent, ChangeProperties, Release, user,
       chain, acquiring, blitting, gpu, display, Leaving
  <2> QED
    BY <2>1, AcquisitionsUntouched DEF AcquireTypes, Leaving
<1>2. CASE ReallocateUserBuffers
  <2>1. /\ UNCHANGED <<vk_queue, blit_done, blit_count, consumed_at, signalled, acquired,
                       semaphore_index, image, callback, complete, swapchain>>
        /\ user_images' \in {user_images, user_views + 1}
        /\ user_views' \in {user_views, user_views + 1} /\ app \notin Leaving
    BY <1>2 DEF ReallocateUserBuffers, acquiring, blitting, gpu, display, Leaving
  <2> QED
    BY <2>1, AcquisitionsUntouched DEF AcquireTypes, Leaving
<1>3. CASE DrainGpu \/ Cleanup
  <2>1. /\ UNCHANGED <<vk_queue, blit_done, blit_count, consumed_at, signalled, acquired,
                       semaphore_index, image, callback, complete, user_images, user_views>>
        /\ app' \in Leaving
        /\ app' = "gone" \/ (swapchain' = swapchain /\ app # "gone")
    BY <1>3 DEF DrainGpu, Cleanup, user, chain, acquiring, blitting, gpu, display, Leaving
  <2> QED
    BY <2>1, AcquisitionsUntouched DEF AcquireTypes
<1>4. CASE Show \/ Look \/ CheckSkipWaits \/ Wait \/ ReleaseFrame \/ UNCHANGED vars
  <2>1. UNCHANGED <<vk_queue, blit_done, blit_count, consumed_at, signalled, acquired,
                    semaphore_index, image, callback, complete, user_images, user_views,
                    swapchain, app>>
    BY <1>4 DEF Show, Look, CheckSkipWaits, Wait, ReleaseFrame, user, chain, acquiring, blitting,
       gpu, display, vars
  <2> QED
    BY <2>1, AcquisitionsUntouched DEF AcquireTypes
<1>5. CASE DrainQueue
  <2> DEFINE lingering == {i \in Slots : signalled[i]}
             n == Cardinality(lingering)
  <2>1. PICK order \in [1..n -> lingering] :
          /\ \A j, k \in DOMAIN order : j < k => order[j] < order[k]
          /\ vk_queue' = vk_queue \o
               [k \in DOMAIN order |-> WaitSubmission(order[k], blit_count + k)]
    BY <1>5 DEF DrainQueue
  <2>2. /\ UNCHANGED <<blit_done, consumed_at, signalled, acquired, semaphore_index, image,
                       callback, complete, user_images, user_views, swapchain>>
        /\ app = "drain_queue" /\ app' = "drain_gpu" /\ blit_count' = blit_count + n
    BY <1>5 DEF DrainQueue, user, chain, acquiring, display
  <2>3. n \in Nat
    <3>1. IsFiniteSet(Slots)
      BY FS_Interval DEF Slots
    <3> QED
      BY <3>1, FS_Subset, FS_CardinalityType
  <2>4. order \in [1..n -> Slots] /\ \A k \in 1..n : signalled[order[k]]
    BY <2>1
  <2>5. \A k \in 1..n : WaitsFor(vk_queue, order[k]) = {}
    BY <2>2, <2>4 DEF SemaphoresAreKnown, Leaving
  <2>6. \A j, k \in 1..n : j < k => order[j] < order[k]
    BY <2>1
  <2> HIDE DEF n
  <2> DEFINE total == blit_count + n
  <2>11. total \in Nat /\ blit_count' = total /\ total >= blit_count
    BY <2>2, <2>3 DEF AcquireTypes
  <2>7. /\ vk_queue' \in Seq(Submission) /\ Numbered(vk_queue', blit_done, total)
        /\ OneWaitEach(vk_queue')
    <3>1. /\ vk_queue \in Seq(Submission) /\ blit_done \in Nat /\ blit_count \in Nat
          /\ blit_done <= blit_count /\ Numbered(vk_queue, blit_done, blit_count)
          /\ OneWaitEach(vk_queue)
      BY DEF SemaphoresAreKnown, AcquireTypes
    <3> DEFINE w == [k \in DOMAIN order |-> WaitSubmission(order[k], blit_count + k)]
    <3>2. \A k \in 1..n :
            /\ w[k].op = "wait" /\ w[k].semaphore = order[k] /\ w[k].value = blit_count + k
            /\ w[k] \in Submission
      BY <2>4, <3>1 DEF WaitSubmission, Submission
    <3>3. w \in Seq(Submission) /\ Len(w) = n
      <4>1. w \in [1..n -> Submission]
        BY <2>4, <3>2
      <4> HIDE DEF w
      <4> QED
        BY <2>3, <4>1
    <3>4. vk_queue' = vk_queue \o w /\ total = blit_count + n
      BY <2>1
    <3> HIDE DEF w, total
    <3>5. LastWaits(w, vk_queue, blit_count)
      <4>1. DOMAIN w = 1..n
        BY <3>3
      <4>2. ASSUME NEW x \in 1..n, NEW y \in 1..n, order[x] = order[y] PROVE x = y
        <5>1. order[x] \in Int /\ order[y] \in Int
          BY <2>4 DEF Slots
        <5>2. ~(order[x] < order[y]) /\ ~(order[y] < order[x])
          BY <4>2, <5>1
        <5>3. ~(x < y) /\ ~(y < x)
          BY <2>6, <5>2
        <5> QED
          BY <2>3, <5>3
      <4>3. \A k \in 1..n : WaitsFor(vk_queue, w[k].semaphore) = {}
        BY <2>5, <3>2
      <4>4. \A j, k \in 1..n : w[j].semaphore = w[k].semaphore => j = k
        BY <3>2, <4>2
      <4>5. \A k \in DOMAIN w :
              /\ w[k].op = "wait" /\ w[k].value = blit_count + k
              /\ WaitsFor(vk_queue, w[k].semaphore) = {}
        BY <3>2, <4>1, <4>3
      <4> QED
        BY <3>3, <4>1, <4>4, <4>5 DEF LastWaits
    <3>6. LET r == vk_queue \o w
          IN  r \in Seq(Submission) /\ Numbered(r, blit_done, total) /\ OneWaitEach(r)
      BY <2>11, <3>1, <3>3, <3>4, <3>5, LeaveFacts
    <3> QED
      BY <3>4, <3>6
  <2> HIDE DEF total
  <2>8. AcquireTypes'
    BY <2>2, <2>11, <2>7 DEF AcquireTypes
  <2>9. SemaphoresAreKnown'
    BY <2>2, <2>11, <2>7 DEF SemaphoresAreKnown, AcquireTypes, Leaving
  <2>10. ImageIsAcquired'
    <3>1. callback.at = "idle"
      BY <1>5 DEF DrainQueue, callbacks_drained, Idle
    <3> QED
      BY <2>2, <3>1 DEF ImageIsAcquired
  <2> QED
    BY <2>8, <2>9, <2>10
<1>6. CASE TakeRequest
  <2>1. /\ UNCHANGED <<vk_queue, blit_done, blit_count, consumed_at, signalled, acquired,
                       semaphore_index, image, complete, user_images, user_views, swapchain, app>>
        /\ callback.at = "idle" /\ callback'.at \in {"create", "destroy", "acquire"}
        /\ callback'.at = "create" => swapchain = NoSwapchain
        /\ present_count < user_count
    BY <1>6 DEF TakeRequest, Idle, user, acquiring, blitting, gpu, display
  <2>2. app # "gone"
    BY <2>1 DEF Orderly, Types, CaughtUp
  <2>3. AcquireTypes'
    BY <2>1 DEF AcquireTypes
  <2>4. SemaphoresAreKnown'
    BY <2>1, SemaphoresUntouched
  <2>5. ImageIsAcquired'
    BY <2>1, <2>2 DEF ImageIsAcquired
  <2> QED
    BY <2>3, <2>4, <2>5
<1>7. CASE Destroy
  <2>1. /\ UNCHANGED <<vk_queue, blit_done, blit_count, consumed_at, signalled, acquired,
                       semaphore_index, image, complete, user_images, user_views, swapchain, app>>
        /\ callback' = [callback EXCEPT !.at = "drain_waiter"]
    BY <1>7 DEF Destroy, Goto, user, chain, acquiring, blitting, gpu, display
  <2>2. callback'.at = "drain_waiter"
    BY <1>0, <2>1 DEF Places
  <2>3. AcquireTypes'
    BY <2>1 DEF AcquireTypes
  <2>4. SemaphoresAreKnown'
    BY <2>1, SemaphoresUntouched
  <2>5. ImageIsAcquired'
    BY <2>1, <2>2 DEF ImageIsAcquired
  <2> QED
    BY <2>3, <2>4, <2>5
<1>8. CASE DrainWaiter
  <2>1. /\ UNCHANGED <<vk_queue, blit_done, blit_count, consumed_at, signalled, acquired,
                       semaphore_index, complete, user_images, user_views, app>>
        /\ callback' = [callback EXCEPT !.at = callback.then] /\ image' = NoImage
        /\ callback.at = "drain_waiter"
    BY <1>8 DEF DrainWaiter, At, Goto, user, acquiring, blitting, gpu, display
  <2>2. callback.then \in {"create", "signal"}
    BY <2>1 DEF Orderly, CallbackInOrder, Working
  <2>3. callback'.at \in {"create", "signal"}
    BY <1>0, <2>1, <2>2 DEF Places
  <2>4. AcquireTypes'
    BY <2>1 DEF AcquireTypes
  <2>5. SemaphoresAreKnown'
    BY <2>1, SemaphoresUntouched
  <2>6. ImageIsAcquired'
    BY <2>1, <2>3 DEF ImageIsAcquired
  <2> QED
    BY <2>4, <2>5, <2>6
<1>9. CASE Create
  <2>1. /\ UNCHANGED <<vk_queue, blit_done, blit_count, consumed_at, signalled, acquired,
                       semaphore_index, complete, user_images, user_views, app>>
        /\ callback.at = "create" /\ image' \in {image, NoImage}
        /\ \E where \in {"acquire", "signal"} : callback' = [callback EXCEPT !.at = where]
    BY <1>9 DEF Create, At, Goto, user, acquiring, blitting, gpu, display
  <2>2. image' = NoImage
    BY <2>1 DEF ImageIsAcquired
  <2>3. callback'.at \in {"acquire", "signal"}
    BY <1>0, <2>1 DEF Places
  <2>4. AcquireTypes'
    BY <2>1, <2>2 DEF AcquireTypes
  <2>5. SemaphoresAreKnown'
    BY <2>1, SemaphoresUntouched
  <2>6. ImageIsAcquired'
    BY <2>2, <2>3 DEF ImageIsAcquired
  <2> QED
    BY <2>4, <2>5, <2>6
<1>10. CASE TryAcquire
  <2>1. /\ UNCHANGED <<blit_done, acquired, image, complete, user_images, user_views, swapchain,
                       app>>
        /\ callback.at = "acquire" /\ app \notin Leaving
    BY <1>0, <1>10 DEF TryAcquire, At, user, chain, display
  <2>2. CASE image # NoImage
    <3>1. /\ UNCHANGED <<vk_queue, blit_count, semaphore_index, signalled, consumed_at>>
          /\ \E where \in {"done", "blit"} : callback' = [callback EXCEPT !.at = where]
      BY <1>10, <2>2 DEF TryAcquire, Goto, acquiring
    <3>2. callback'.at \in {"done", "blit"}
      BY <1>0, <3>1 DEF Places
    <3>3. AcquireTypes'
      BY <2>1, <3>1 DEF AcquireTypes
    <3>4. SemaphoresAreKnown'
      BY <2>1, <3>1, SemaphoresUntouched
    <3>5. ImageIsAcquired'
      BY <2>1, <2>2, <3>1, <3>2 DEF ImageIsAcquired
    <3> QED
      BY <3>3, <3>4, <3>5
  <2>3. CASE image = NoImage
    <3>1. /\ ensure_unsignaled(semaphore_index)
          /\ semaphore_index' = (semaphore_index + 1) % Buffers
          /\ callback' = [callback EXCEPT !.at = "reclaim"]
      BY <1>10, <2>3 DEF TryAcquire, Goto
    <3>2. callback'.at = "reclaim"
      BY <1>0, <3>1 DEF Places
    <3>3. semaphore_index' \in Slots
      <4>1. semaphore_index + 1 \in Nat
        BY DEF AcquireTypes, Slots
      <4> QED
        BY <3>1, <4>1, DivisionWithRest DEF Slots
    <3>4. /\ SemaphoresAreKnown'
          /\ vk_queue' \in Seq(Submission) /\ blit_count' \in Nat
          /\ consumed_at' \in [Slots -> Nat] /\ signalled' \in [Slots -> BOOLEAN]
      BY <2>1, <3>1, EnsureUnsignaledFacts DEF AcquireTypes
    <3>5. AcquireTypes'
      BY <2>1, <3>3, <3>4 DEF AcquireTypes
    <3>6. ImageIsAcquired'
      BY <2>1, <2>3, <3>2 DEF ImageIsAcquired
    <3> QED
      BY <3>4, <3>5, <3>6
  <2> QED
    BY <2>2, <2>3
<1>11. CASE Reclaim
  <2>1. /\ UNCHANGED <<blit_done, acquired, image, complete, user_images, user_views, swapchain,
                       app,
                       semaphore_index>>
        /\ callback.at = "reclaim" /\ app \notin Leaving
        /\ ensure_unsignaled(semaphore_index) /\ blit_done >= consumed_at[semaphore_index]
        /\ callback' = [callback EXCEPT
             !.at = IF signalled[semaphore_index] THEN "reclaim" ELSE "next_image"]
    BY <1>0, <1>11 DEF Reclaim, At, Goto, reclaimed, user, chain, display
  <2>2. /\ SemaphoresAreKnown'
        /\ vk_queue' \in Seq(Submission) /\ blit_count' \in Nat
        /\ consumed_at' \in [Slots -> Nat] /\ signalled' \in [Slots -> BOOLEAN]
    BY <2>1, EnsureUnsignaledFacts DEF AcquireTypes
  <2>3. AcquireTypes'
    BY <2>1, <2>2 DEF AcquireTypes
  <2>4. image = NoImage
    BY <2>1 DEF ImageIsAcquired
  <2>5. CASE signalled[semaphore_index]
    <3>1. callback'.at = "reclaim"
      BY <1>0, <2>1, <2>5 DEF Places
    <3> QED
      BY <2>1, <2>2, <2>3, <2>4, <3>1 DEF ImageIsAcquired
  <2>6. CASE ~signalled[semaphore_index]
    <3>1. callback'.at = "next_image" /\ UNCHANGED <<vk_queue, signalled>>
      BY <1>0, <2>1, <2>6 DEF Places, ensure_unsignaled
    <3>2. WaitsFor(vk_queue, semaphore_index) = {}
      <4> SUFFICES ASSUME NEW k \in WaitsFor(vk_queue, semaphore_index) PROVE FALSE
        OBVIOUS
      <4>1. k \in WaitsIn(vk_queue) /\ vk_queue[k].semaphore = semaphore_index
        BY DEF WaitsFor
      <4>2. /\ vk_queue[k].value = consumed_at[semaphore_index] /\ blit_done < vk_queue[k].value
        BY <2>1, <4>1 DEF SemaphoresAreKnown, Numbered
      <4>3. blit_done \in Nat /\ consumed_at[semaphore_index] \in Nat
        BY DEF AcquireTypes
      <4> QED
        BY <2>1, <4>2, <4>3
    <3>3. ImageIsAcquired'
      BY <2>1, <2>4, <2>6, <3>1, <3>2 DEF ImageIsAcquired, WaitsFor, WaitsIn
    <3> QED
      BY <2>2, <2>3, <3>3
  <2> QED
    BY <2>5, <2>6
<1>12. CASE AcquireNextImage
  <2>1. /\ UNCHANGED <<vk_queue, blit_done, blit_count, consumed_at, semaphore_index, complete,
                       user_images, user_views, swapchain, app>>
        /\ callback.at = "next_image" /\ app \notin Leaving /\ swapchain # NoSwapchain
    BY <1>0, <1>12 DEF AcquireNextImage, At, user, blitting, gpu, Lifetimes, CallbackHasASwapchain,
       WithSwapchain
  <2>2. CASE \E i \in Images :
               /\ image' = i /\ acquired' = acquired \cup {semaphore_index}
               /\ signalled' = [signalled EXCEPT ![semaphore_index] = TRUE]
               /\ Goto(IF callback.eager THEN "done" ELSE "blit")
    <3>1. /\ image' \in Images /\ acquired' = acquired \cup {semaphore_index}
          /\ signalled' = [signalled EXCEPT ![semaphore_index] = TRUE]
          /\ \E where \in {"done", "blit"} : callback' = [callback EXCEPT !.at = where]
      BY <2>2 DEF Goto
    <3>2. callback'.at \in {"done", "blit"}
      BY <1>0, <3>1 DEF Places
    <3>3. AcquireTypes'
      BY <2>1, <3>1 DEF AcquireTypes
    <3>4. WaitsFor(vk_queue, semaphore_index) = {}
      BY <2>1 DEF ImageIsAcquired
    <3>5. ASSUME NEW i \in Slots
          PROVE  /\ signalled'[i] => WaitsFor(vk_queue', i) = {} /\ i \in acquired'
                 /\ ~signalled'[i] => (i \in acquired' <=> WaitsFor(vk_queue', i) # {})
      <4>1. vk_queue' = vk_queue
        BY <2>1
      <4>2. CASE i = semaphore_index
        BY <3>1, <3>4, <4>1, <4>2 DEF AcquireTypes
      <4>3. CASE i # semaphore_index
        <5>1. signalled'[i] = signalled[i] /\ (i \in acquired' <=> i \in acquired)
          BY <3>1, <4>3 DEF AcquireTypes
        <5> QED
          BY <2>1, <4>1, <5>1 DEF SemaphoresAreKnown
      <4> QED
        BY <4>2, <4>3
    <3>6. SemaphoresAreKnown'
      <4>1. /\ blit_done' <= blit_count' /\ Numbered(vk_queue', blit_done', blit_count')
            /\ OneWaitEach(vk_queue')
            /\ \A k \in WaitsIn(vk_queue') :
                 vk_queue'[k].value = consumed_at'[vk_queue'[k].semaphore]
        BY <2>1 DEF SemaphoresAreKnown
      <4> QED
        BY <3>5, <4>1 DEF SemaphoresAreKnown
    <3>7. ImageIsAcquired'
      <4>1. signalled'[semaphore_index']
        BY <2>1, <3>1 DEF AcquireTypes
      <4>2. image' # NoImage
        BY <3>1
      <4> QED
        BY <2>1, <3>2, <4>1, <4>2 DEF ImageIsAcquired
    <3> QED
      BY <3>3, <3>6, <3>7
  <2>3. CASE /\ UNCHANGED <<image, acquired, signalled>>
             /\ (\E lost \in BOOLEAN : Fail(lost)) \/ Goto("done")
    <3>1. callback'.at \in {"destroy", "done"}
      <4>1. CASE Goto("done")
        BY <1>0, <4>1 DEF Goto, Places
      <4>2. CASE \E lost \in BOOLEAN : Fail(lost)
        BY <1>0, <4>2 DEF Fail, Callbacks
      <4> QED
        BY <2>3, <4>1, <4>2
    <3>2. AcquireTypes'
      BY <2>1, <2>3 DEF AcquireTypes
    <3>3. SemaphoresAreKnown'
      BY <2>1, <2>3, SemaphoresUntouched
    <3>4. image = NoImage
      <4>1. CASE image # NoImage
        BY <2>1, <4>1 DEF ImageIsAcquired
      <4> QED
        BY <4>1
    <3>5. ImageIsAcquired'
      BY <2>1, <2>3, <3>1, <3>4 DEF ImageIsAcquired
    <3> QED
      BY <3>2, <3>3, <3>5
  <2> QED
    BY <1>12, <2>2, <2>3 DEF AcquireNextImage
<1>13. CASE SubmitBlit
  <2> DEFINE e == [op |-> "blit", semaphore |-> semaphore_index,
                   value |-> blit_count + 1, from |-> user_images,
                   view |-> user_views]
  <2>1. /\ UNCHANGED <<blit_done, acquired, image, complete, user_images, user_views, swapchain,
                       app,
                       semaphore_index>>
        /\ callback.at = "blit" /\ app \notin Leaving
        /\ vk_queue' = Append(vk_queue, e) /\ blit_count' = blit_count + 1
        /\ consumed_at' = [consumed_at EXCEPT ![semaphore_index] = blit_count + 1]
        /\ signalled' = [signalled EXCEPT ![semaphore_index] = FALSE]
        /\ callback' = [callback EXCEPT !.at = "present"]
    BY <1>0, <1>13 DEF SubmitBlit, At, Goto, user, chain, display
  <2>2. image # NoImage /\ signalled[semaphore_index] /\ callback'.at = "present"
    BY <1>0, <2>1 DEF ImageIsAcquired, Places
  <2>3. /\ e \in Submission /\ e.op # "complete" /\ e.semaphore = semaphore_index
        /\ e.value = blit_count + 1
    BY DEF Submission, AcquireTypes
  <2> HIDE DEF e
  <2>4. /\ SemaphoresAreKnown'
        /\ vk_queue' \in Seq(Submission) /\ blit_count' \in Nat
        /\ consumed_at' \in [Slots -> Nat] /\ signalled' \in [Slots -> BOOLEAN]
    BY <2>1, <2>2, <2>3, WaitSubmitted DEF AcquireTypes
  <2>5. AcquireTypes'
    BY <2>1, <2>4 DEF AcquireTypes
  <2>6. ImageIsAcquired'
    BY <2>1, <2>2 DEF ImageIsAcquired
  <2> QED
    BY <2>4, <2>5, <2>6
<1>14. CASE QueuePresentKHR
  <2>1. /\ UNCHANGED <<vk_queue, blit_done, blit_count, consumed_at, signalled, acquired,
                       semaphore_index, complete, user_images, user_views, swapchain, app>>
        /\ image' \in {image, NoImage} /\ callback.at = "present"
        /\ \/ image' = NoImage /\ callback' = [callback EXCEPT !.at = "signal"]
           \/ \E lost \in BOOLEAN : Fail(lost)
    BY <1>14 DEF QueuePresentKHR, At, Goto, user, acquiring, blitting, gpu
  <2>2. (image' = NoImage /\ callback'.at = "signal") \/ callback'.at = "destroy"
    <3>1. CASE image' = NoImage /\ callback' = [callback EXCEPT !.at = "signal"]
      BY <1>0, <3>1 DEF Places
    <3>2. CASE \E lost \in BOOLEAN : Fail(lost)
      BY <1>0, <3>2 DEF Fail, Callbacks
    <3> QED
      BY <2>1, <3>1, <3>2
  <2>3. AcquireTypes'
    BY <2>1 DEF AcquireTypes
  <2>4. SemaphoresAreKnown'
    BY <2>1, SemaphoresUntouched
  <2>5. ImageIsAcquired'
    BY <2>1, <2>2 DEF ImageIsAcquired
  <2> QED
    BY <2>3, <2>4, <2>5
<1>15. CASE FinishPresent
  <2> DEFINE e == [op |-> "complete", value |-> present_count + 1]
  <2>1. /\ UNCHANGED <<blit_done, blit_count, consumed_at, signalled, acquired, image,
                       semaphore_index, complete, user_images, user_views, swapchain, app>>
        /\ callback.at = "signal" /\ vk_queue' = Append(vk_queue, e)
        /\ callback'.at \in {"idle", "done", "acquire"}
    BY <1>15 DEF FinishPresent, At, Idle, user, chain, acquiring, blitting, display
  <2>2. e \in Submission /\ e.op = "complete"
    BY DEF Submission, Orderly, Types
  <2> HIDE DEF e
  <2>3. vk_queue \in Seq(Submission) /\ blit_done \in Nat /\ blit_count \in Nat
    BY DEF AcquireTypes
  <2>4. /\ Numbered(vk_queue', blit_done, blit_count) /\ OneWaitEach(vk_queue')
        /\ WaitsIn(vk_queue') = WaitsIn(vk_queue)
        /\ \A i : WaitsFor(vk_queue', i) = WaitsFor(vk_queue, i)
    BY <2>1, <2>2, <2>3, SubmitKeepsOrder DEF SemaphoresAreKnown
  <2>5. \A k \in WaitsIn(vk_queue) : vk_queue'[k] = vk_queue[k]
    BY <2>1, <2>2, <2>3, SubmitFacts DEF WaitsIn
  <2>6. AcquireTypes'
    BY <2>1, <2>2 DEF AcquireTypes
  <2>7. SemaphoresAreKnown'
    BY <2>1, <2>4, <2>5 DEF SemaphoresAreKnown
  <2>8. ImageIsAcquired'
    BY <2>1 DEF ImageIsAcquired
  <2> QED
    BY <2>6, <2>7, <2>8
<1>16. CASE SignalDoneEvent
  <2>1. /\ UNCHANGED <<vk_queue, blit_done, blit_count, consumed_at, signalled, acquired,
                       semaphore_index, image, complete, user_images, user_views, swapchain, app>>
        /\ callback.at = "done" /\ callback'.at = "idle"
    BY <1>16 DEF SignalDoneEvent, At, Idle, user, chain, acquiring, blitting, gpu, display
  <2>2. AcquireTypes'
    BY <2>1 DEF AcquireTypes
  <2>3. SemaphoresAreKnown'
    BY <2>1, SemaphoresUntouched
  <2>4. ImageIsAcquired'
    BY <2>1 DEF ImageIsAcquired
  <2> QED
    BY <2>2, <2>3, <2>4
<1>17. CASE Execute
  <2> DEFINE e == Head(vk_queue)
  <2>1. /\ UNCHANGED <<blit_count, consumed_at, signalled, image, semaphore_index, user_images,
                       user_views,
                       swapchain, app, callback>>
        /\ vk_queue # <<>> /\ vk_queue' = Tail(vk_queue)
        /\ IF e.op = "complete"
           THEN complete' = e.value /\ UNCHANGED <<blit_done, acquired>>
           ELSE /\ e.semaphore \in acquired /\ acquired' = acquired \ {e.semaphore}
                /\ blit_done' = e.value /\ UNCHANGED complete
    BY <1>17 DEF Execute, executable, user, chain, acquiring, blitting
  <2>2. vk_queue \in Seq(Submission) /\ blit_done \in Nat /\ blit_count \in Nat
    BY DEF AcquireTypes
  <2>3. /\ e \in Submission /\ vk_queue' \in Seq(Submission)
        /\ \A k \in WaitsIn(vk_queue') :
             k + 1 \in WaitsIn(vk_queue) /\ vk_queue'[k] = vk_queue[k + 1]
        /\ OneWaitEach(vk_queue')
        /\ e.op = "complete" =>
             /\ Numbered(vk_queue', blit_done, blit_count)
             /\ \A i : WaitsFor(vk_queue', i) = {} <=> WaitsFor(vk_queue, i) = {}
        /\ e.op # "complete" =>
             /\ Numbered(vk_queue', e.value, blit_count) /\ e.value <= blit_count
             /\ WaitsFor(vk_queue', e.semaphore) = {} /\ WaitsFor(vk_queue, e.semaphore) # {}
             /\ \A i : i # e.semaphore =>
                  (WaitsFor(vk_queue', i) = {} <=> WaitsFor(vk_queue, i) = {})
    BY <2>1, <2>2, ExecuteKeepsOrder DEF SemaphoresAreKnown
  <2> HIDE DEF e
  <2>4. e.value \in Nat
    BY <2>3, SubmissionFacts
  <2>5. AcquireTypes'
    BY <2>1, <2>3, <2>4 DEF AcquireTypes
  <2>6. \A k \in WaitsIn(vk_queue') : app' \notin Leaving =>
          vk_queue'[k].value = consumed_at'[vk_queue'[k].semaphore]
    BY <2>1, <2>3 DEF SemaphoresAreKnown
  <2>7. CASE e.op = "complete"
    <3>1. SemaphoresAreKnown'
      BY <2>1, <2>3, <2>6, <2>7 DEF SemaphoresAreKnown
    <3>2. ImageIsAcquired'
      BY <2>1, <2>3, <2>7 DEF ImageIsAcquired
    <3> QED
      BY <2>5, <3>1, <3>2
  <2>8. CASE e.op # "complete"
    <3>1. ASSUME NEW i \in Slots, app' \notin Leaving
          PROVE  /\ signalled'[i] => WaitsFor(vk_queue', i) = {} /\ i \in acquired'
                 /\ ~signalled'[i] => (i \in acquired' <=> WaitsFor(vk_queue', i) # {})
      <4>1. /\ signalled[i] => WaitsFor(vk_queue, i) = {} /\ i \in acquired
            /\ ~signalled[i] => (i \in acquired <=> WaitsFor(vk_queue, i) # {})
        BY <2>1, <3>1 DEF SemaphoresAreKnown
      <4>2. CASE i = e.semaphore
        BY <2>1, <2>3, <2>8, <4>1, <4>2
      <4>3. CASE i # e.semaphore
        BY <2>1, <2>3, <2>8, <4>1, <4>3
      <4> QED
        BY <4>2, <4>3
    <3>2. SemaphoresAreKnown'
      BY <2>1, <2>3, <2>6, <2>8, <3>1 DEF SemaphoresAreKnown
    <3>3. \A i : WaitsFor(vk_queue, i) = {} => WaitsFor(vk_queue', i) = {}
      BY <2>3, <2>8
    <3>4. ImageIsAcquired'
      BY <2>1, <3>3 DEF ImageIsAcquired
    <3> QED
      BY <2>5, <3>2, <3>4
  <2> QED
    BY <2>7, <2>8
<1> QED
  BY <1>1, <1>2, <1>3, <1>4, <1>5, <1>6, <1>7, <1>8, <1>9, <1>10, <1>11, <1>12, <1>13, <1>14,
     <1>15, <1>16, <1>17
  DEF Next, Call, AppStep, CallbackStep, WaiterStep

\* The signals and waits of every acquire semaphore alternate: it is not acquired with
\* while a wait for it is left on the GPU, nor twice without a wait in between, whatever
\* acquisitions and presents fail and however often the swapchain is recreated.
THEOREM AcquireSemaphoresAlwaysAlternate == Spec => []AcquireSemaphoresAlternate
<1>1. Init => Orderly /\ Lifetimes /\ Acquisitions
  BY OrderlyInit, LifetimesInit, AcquisitionsInit
<1>2. Orderly /\ Lifetimes /\ Acquisitions /\ [Next]_vars
        => (Orderly /\ Lifetimes /\ Acquisitions)'
  BY OrderlyStep, LifetimesStep, AcquisitionsStep
<1>3. Acquisitions => AcquireSemaphoresAlternate
  <2> SUFFICES ASSUME Acquisitions, NEW i \in Slots
               PROVE  /\ Cardinality(Waiting(i)) <= 1
                      /\ app \notin Leaving =>
                           /\ signalled[i] => Waiting(i) = {} /\ i \in acquired
                           /\ ~signalled[i] => (i \in acquired <=> Waiting(i) # {})
    BY DEF AcquireSemaphoresAlternate, Leaving
  <2>1. Waiting(i) = WaitsFor(vk_queue, i)
    BY DEF Waiting, WaitsFor, WaitsIn
  <2>2. \A j, k \in Waiting(i) : j = k
    BY <2>1 DEF Acquisitions, SemaphoresAreKnown, OneWaitEach, WaitsFor
  <2>3. Cardinality(Waiting(i)) <= 1
    <3>1. CASE Waiting(i) = {}
      BY <3>1, FS_EmptySet
    <3>2. CASE Waiting(i) # {}
      <4>1. PICK k \in Waiting(i) : TRUE
        BY <3>2
      <4>2. Waiting(i) = {k}
        BY <2>2, <4>1
      <4> QED
        BY <4>2, FS_Singleton
    <3> QED
      BY <3>1, <3>2
  <2>4. app \notin Leaving =>
          /\ signalled[i] => Waiting(i) = {} /\ i \in acquired
          /\ ~signalled[i] => (i \in acquired <=> Waiting(i) # {})
    BY <2>1 DEF Acquisitions, SemaphoresAreKnown
  <2> QED
    BY <2>3, <2>4
<1> QED
  BY <1>1, <1>2, <1>3, PTL DEF Spec

-----------------------------------------------------------------------------
(* The buffers and views a blit reads.                                     *)

\* One more submission: an end of a frame, which ends every blit before it, a wait,
\* which ends none, or a blit of the buffers there are.
LEMMA SubmitKeepsFrames ==
  ASSUME NEW q \in Seq(Submission), NEW e \in Submission,
         NEW done \in Nat, NEW count \in Nat, NEW images, NEW views, done <= count,
         EndsNumbered(q, done, count), BlitsAreFrom(q, images, views)
  PROVE  /\ e.op = "complete" /\ e.value = count + 1 =>
              /\ EndsNumbered(Append(q, e), done, count + 1)
              /\ BlitsAreFrom(Append(q, e), images, views) /\ BlitsAreEnded(Append(q, e))
         /\ e.op # "complete" => EndsNumbered(Append(q, e), done, count)
         /\ e.op = "wait" =>
              /\ BlitsAreFrom(Append(q, e), images, views)
              /\ BlitsAreEnded(q) => BlitsAreEnded(Append(q, e))
         /\ e.op = "blit" /\ e.from = images /\ e.view = views =>
              BlitsAreFrom(Append(q, e), images, views)
<1> DEFINE r == Append(q, e)
           n == Len(q) + 1
<1>1. /\ DOMAIN r = DOMAIN q \cup {n} /\ n \notin DOMAIN q
      /\ \A k \in DOMAIN q : k \in Nat /\ k < n /\ r[k] = q[k]
      /\ r[n] = e /\ n \in Nat
  BY SubmitFacts
<1> HIDE DEF r, n
<1>2. \A k \in EndsIn(q) :
        k \in DOMAIN q /\ q[k].value \in Nat /\ done < q[k].value /\ q[k].value <= count
  <2> TAKE k \in EndsIn(q)
  <2>1. k \in DOMAIN q /\ q[k] \in Submission
    BY DEF EndsIn
  <2> QED
    BY <2>1, SubmissionFacts DEF EndsNumbered
<1>3. ASSUME e.op = "complete", e.value = count + 1
      PROVE  EndsNumbered(r, done, count + 1) /\ BlitsAreFrom(r, images, views) /\ BlitsAreEnded(r)
  <2>1. /\ EndsIn(r) = EndsIn(q) \cup {n} /\ BlitsIn(r) = BlitsIn(q)
        /\ \A k \in EndsIn(q) : r[k] = q[k] /\ k < n
        /\ \A k \in BlitsIn(q) : r[k] = q[k] /\ k < n
    BY <1>1, <1>3 DEF EndsIn, BlitsIn
  <2>2. \A k \in EndsIn(r) : done < r[k].value /\ r[k].value <= count + 1
    BY <1>1, <1>2, <1>3, <2>1
  <2>3. ASSUME NEW j \in EndsIn(r), NEW k \in EndsIn(r), j < k
        PROVE  r[j].value < r[k].value
    <3>1. CASE k = n
      <4>1. j \in EndsIn(q)
        BY <1>1, <2>1, <2>3, <3>1
      <4>2. r[j].value = q[j].value /\ q[j].value \in Nat /\ q[j].value <= count
        BY <1>2, <2>1, <4>1
      <4>3. r[k].value = count + 1
        BY <1>1, <1>3, <3>1
      <4> QED
        BY <4>2, <4>3
    <3>2. CASE k \in EndsIn(q)
      <4>1. j \in EndsIn(q)
        BY <1>1, <1>2, <2>1, <2>3, <3>2
      <4> QED
        BY <2>1, <2>3, <3>2, <4>1 DEF EndsNumbered
    <3> QED
      BY <2>1, <3>1, <3>2
  <2>4. EndsNumbered(r, done, count + 1)
    BY <2>2, <2>3 DEF EndsNumbered
  <2> QED
    BY <2>1, <2>4 DEF BlitsAreFrom, BlitsAreEnded
<1>4. ASSUME e.op # "complete" PROVE EndsNumbered(r, done, count) /\ EndsIn(r) = EndsIn(q)
  <2>1. EndsIn(r) = EndsIn(q) /\ \A k \in EndsIn(q) : r[k] = q[k]
    BY <1>1, <1>4 DEF EndsIn
  <2> QED
    BY <2>1 DEF EndsNumbered
<1>5. ASSUME e.op = "wait"
      PROVE  BlitsAreFrom(r, images, views) /\ (BlitsAreEnded(q) => BlitsAreEnded(r))
  <2>1. BlitsIn(r) = BlitsIn(q) /\ \A k \in BlitsIn(q) : r[k] = q[k]
    BY <1>1, <1>5 DEF BlitsIn
  <2> QED
    BY <1>4, <1>5, <2>1 DEF BlitsAreFrom, BlitsAreEnded
<1>6. ASSUME e.op = "blit", e.from = images, e.view = views
      PROVE  BlitsAreFrom(r, images, views)
  <2>1. BlitsIn(r) = BlitsIn(q) \cup {n} /\ \A k \in BlitsIn(q) : r[k] = q[k]
    BY <1>1, <1>6 DEF BlitsIn
  <2> QED
    BY <1>1, <1>6, <2>1 DEF BlitsAreFrom
<1> QED
  BY <1>3, <1>4, <1>5, <1>6 DEF r

\* What is in a queue to which waits are added.
LEMMA JoinFacts ==
  ASSUME NEW q \in Seq(Submission), NEW w \in Seq(Submission), \A k \in 1..Len(w) : w[k].op = "wait"
  PROVE  LET r == q \o w
         IN  /\ r \in Seq(Submission)
             /\ \A k \in DOMAIN q : k \in DOMAIN r /\ r[k] = q[k]
             /\ \A k \in DOMAIN r : k \in DOMAIN q \/ r[k].op = "wait"
<1> DEFINE r == q \o w
           m == Len(q)
           n == Len(w)
<1>1. r \in Seq(Submission) /\ Len(r) = m + n /\ m \in Nat /\ n \in Nat
  OBVIOUS
<1>2. DOMAIN r = 1..(m + n) /\ DOMAIN q = 1..m
  BY <1>1
<1>3. \A k \in 1..(m + n) : r[k] = IF k <= m THEN q[k] ELSE w[k - m]
  OBVIOUS
<1>4. \A k \in 1..n : w[k].op = "wait"
  OBVIOUS
<1> HIDE DEF r, m, n
<1>5. \A k \in 1..m : k \in 1..(m + n) /\ k <= m
  BY <1>1
<1>6. \A k \in 1..(m + n) : k \in 1..m \/ (~(k <= m) /\ k - m \in 1..n)
  BY <1>1
<1>7. \A k \in DOMAIN q : k \in DOMAIN r /\ r[k] = q[k]
  BY <1>2, <1>3, <1>5
<1>8. \A k \in DOMAIN r : k \in DOMAIN q \/ r[k].op = "wait"
  BY <1>2, <1>3, <1>4, <1>6
<1> QED
  BY <1>1, <1>7, <1>8 DEF r

\* The waits that the Release adds end no frame and are no blits.
LEMMA LeaveKeepsFrames ==
  ASSUME NEW q \in Seq(Submission), NEW r \in Seq(Submission), NEW done \in Nat, NEW count \in Nat,
         NEW images, NEW views, EndsNumbered(q, done, count), BlitsAreFrom(q, images, views),
         BlitsAreEnded(q),
         \A k \in DOMAIN q : k \in DOMAIN r /\ r[k] = q[k],
         \A k \in DOMAIN r : k \in DOMAIN q \/ r[k].op = "wait"
  PROVE  EndsNumbered(r, done, count) /\ BlitsAreFrom(r, images, views) /\ BlitsAreEnded(r)
<1>1. EndsIn(r) = EndsIn(q) /\ \A k \in EndsIn(q) : r[k] = q[k]
  BY DEF EndsIn
<1>2. BlitsIn(r) = BlitsIn(q) /\ \A k \in BlitsIn(q) : r[k] = q[k]
  BY DEF BlitsIn
<1> QED
  BY <1>1, <1>2 DEF EndsNumbered, BlitsAreFrom, BlitsAreEnded

\* The first submission is executed: if it ends a frame, it is the next one's turn.
LEMMA ExecuteKeepsFrames ==
  ASSUME NEW q \in Seq(Submission), q # <<>>, NEW done \in Nat, NEW count \in Nat,
         NEW images, NEW views,
         EndsNumbered(q, done, count), BlitsAreFrom(q, images, views)
  PROVE  /\ BlitsAreFrom(Tail(q), images, views)
         /\ BlitsAreEnded(q) => BlitsAreEnded(Tail(q))
         /\ Head(q).op # "complete" => EndsNumbered(Tail(q), done, count)
         /\ Head(q).op = "complete" =>
              EndsNumbered(Tail(q), Head(q).value, count) /\ Head(q).value <= count
<1> DEFINE t == Tail(q)
<1>1. /\ Head(q) = q[1] /\ t \in Seq(Submission) /\ Len(t) = Len(q) - 1 /\ Len(q) \in Nat \ {0}
      /\ \A k \in 1..(Len(q) - 1) : t[k] = q[k + 1]
  OBVIOUS
<1>2. DOMAIN t = 1..(Len(q) - 1) /\ DOMAIN q = 1..Len(q)
  BY <1>1
<1> HIDE DEF t
<1>3. \A k \in EndsIn(t) : k + 1 \in EndsIn(q) /\ t[k] = q[k + 1] /\ k \in Nat /\ 1 < k + 1
  BY <1>1, <1>2 DEF EndsIn
<1>4. \A k \in BlitsIn(t) : k + 1 \in BlitsIn(q) /\ t[k] = q[k + 1] /\ k \in Nat /\ k # 0
  BY <1>1, <1>2 DEF BlitsIn
<1>5. \A j, k \in EndsIn(t) : j < k => t[j].value < t[k].value
  <2>1. \A j, k \in EndsIn(t) : j < k => j + 1 < k + 1
    BY <1>3
  <2> QED
    BY <1>3, <2>1 DEF EndsNumbered
<1>6. BlitsAreFrom(t, images, views)
  BY <1>4 DEF BlitsAreFrom
<1>7. ASSUME BlitsAreEnded(q) PROVE BlitsAreEnded(t)
  <2> SUFFICES ASSUME NEW k \in BlitsIn(t) PROVE \E j \in EndsIn(t) : k < j
    BY DEF BlitsAreEnded
  <2>1. PICK j \in EndsIn(q) : k + 1 < j
    BY <1>4, <1>7 DEF BlitsAreEnded
  <2>2. /\ j \in 1..Len(q) /\ k \in Nat /\ q[j].op = "complete"
    BY <1>2, <1>4 DEF EndsIn
  <2>3. j - 1 \in 1..(Len(q) - 1) /\ (j - 1) + 1 = j /\ k < j - 1
    BY <1>1, <2>1, <2>2
  <2>4. t[j - 1] = q[j]
    BY <1>1, <2>3
  <2>5. j - 1 \in EndsIn(t)
    BY <1>2, <2>2, <2>3, <2>4 DEF EndsIn
  <2> QED
    BY <2>3, <2>5
<1>8. \A k \in EndsIn(t) : done < t[k].value /\ t[k].value <= count
  BY <1>3 DEF EndsNumbered
<1>9. ASSUME Head(q).op = "complete"
      PROVE  EndsNumbered(t, Head(q).value, count) /\ Head(q).value <= count
  <2>1. 1 \in EndsIn(q) /\ q[1] = Head(q)
    BY <1>1, <1>2, <1>9 DEF EndsIn
  <2>2. \A k \in EndsIn(t) : Head(q).value < t[k].value
    BY <1>3, <2>1 DEF EndsNumbered
  <2> QED
    BY <1>5, <1>8, <2>1, <2>2 DEF EndsNumbered
<1> QED
  BY <1>5, <1>6, <1>7, <1>8, <1>9 DEF t, EndsNumbered

\* A semaphore that is waited for without a blit keeps it.
LEMMA EnsureKeepsFrames ==
  ASSUME AcquireTypes, NEW i \in Slots, ensure_unsignaled(i), FramesEndInOrder,
         present_count \in Nat,
         UNCHANGED <<complete, present_count, user_count, user_images, user_views>>,
                     Working' <=> Working
  PROVE  FramesEndInOrder'
<1>1. CASE signalled[i]
  <2> DEFINE e == WaitSubmission(i, blit_count + 1)
  <2>1. e \in Submission /\ e.op = "wait" /\ vk_queue' = Append(vk_queue, e)
    BY <1>1 DEF WaitSubmission, Submission, AcquireTypes, ensure_unsignaled
  <2> HIDE DEF e
  <2>2. e.op # "complete" /\ vk_queue \in Seq(Submission) /\ complete \in Nat
    BY <2>1 DEF AcquireTypes
  <2>3. /\ EndsNumbered(vk_queue', complete, present_count)
        /\ BlitsAreFrom(vk_queue', user_images, user_views)
        /\ BlitsAreEnded(vk_queue) => BlitsAreEnded(vk_queue')
    BY <2>1, <2>2, SubmitKeepsFrames DEF FramesEndInOrder
  <2> QED
    BY <2>3 DEF FramesEndInOrder
<1>2. CASE ~signalled[i]
  <2>1. UNCHANGED vk_queue
    BY <1>2 DEF ensure_unsignaled
  <2> QED
    BY <2>1 DEF FramesEndInOrder
<1> QED
  BY <1>1, <1>2

\* Where the callback was and goes: most of its steps leave it at work, or not.
LEMMA WorkStays ==
  ASSUME callback \in Callbacks, callback.at # "idle",
         callback' \in Callbacks, callback'.at # "idle", callback'.eager = callback.eager
  PROVE  Working' <=> Working
  BY DEF Working

\* Every step preserves it: buffers are replaced when every frame has ended.
LEMMA FramesStep ==
  ASSUME Orderly, Acquisitions, FramesEndInOrder, [Next]_vars
  PROVE  FramesEndInOrder'
<1> USE SwapchainAssumption
<1>0. /\ callback \in Callbacks /\ user_count \in Nat /\ present_count \in Nat
      /\ complete \in Nat /\ vk_queue \in Seq(Submission) /\ AcquireTypes
      /\ complete <= present_count /\ present_count <= user_count
  BY DEF Orderly, Types, Acquisitions, AcquireTypes, FramesEndInOrder
<1>15. \A where \in Places : LET d == [callback EXCEPT !.at = where]
                            IN  d \in Callbacks /\ d.at = where /\ d.eager = callback.eager
  BY <1>0, GotoFacts
<1>1. CASE \E mode \in Modes : Present(mode)
  <2>1. /\ UNCHANGED <<vk_queue, complete, present_count, user_images, user_views, callback>>
        /\ user_count' = user_count + 1
    BY <1>1 DEF Present, gpu
  <2> QED
    BY <1>0, <2>1 DEF FramesEndInOrder, Working
<1>2. CASE \/ WaitInternalHandle \/ WaitDoneEvent \/ ChangeProperties \/ Release
           \/ DrainGpu \/ Cleanup
           \/ Show \/ Look \/ CheckSkipWaits \/ Wait \/ ReleaseFrame \/ UNCHANGED vars
  <2>1. UNCHANGED <<vk_queue, complete, present_count, user_count, user_images, user_views,
                    callback>>
    BY <1>2 DEF WaitInternalHandle, WaitDoneEvent, ChangeProperties, Release, DrainGpu, Cleanup,
       Show, Look, CheckSkipWaits, Wait, ReleaseFrame, user, gpu, vars
  <2> QED
    BY <2>1 DEF FramesEndInOrder, Working
<1>3. CASE ReallocateUserBuffers
  <2>1. /\ UNCHANGED <<vk_queue, complete, present_count, user_count, callback>>
        /\ complete >= user_count
    BY <1>3 DEF ReallocateUserBuffers, user_images_drained, gpu
  <2>2. ~Working
    BY <1>0, <2>1 DEF Orderly, CallbackInOrder
  <2>3. EndsIn(vk_queue) = {}
    <3> SUFFICES ASSUME NEW k \in EndsIn(vk_queue) PROVE FALSE
      OBVIOUS
    <3>1. vk_queue[k].value \in Nat
      <4>1. vk_queue[k] \in Submission
        BY <1>0 DEF EndsIn
      <4> QED
        BY <4>1, SubmissionFacts
    <3>2. complete < vk_queue[k].value /\ vk_queue[k].value <= present_count
      BY DEF FramesEndInOrder, EndsNumbered
    <3> QED
      BY <1>0, <2>1, <3>1, <3>2
  <2>4. BlitsIn(vk_queue) = {}
    BY <2>2, <2>3 DEF FramesEndInOrder, BlitsAreEnded
  <2> QED
    BY <2>1, <2>4 DEF FramesEndInOrder, BlitsAreFrom, Working
<1>4. CASE DrainQueue
  <2> DEFINE lingering == {i \in Slots : signalled[i]}
             n == Cardinality(lingering)
  <2>1. PICK order \in [1..n -> lingering] :
          vk_queue' = vk_queue \o [k \in DOMAIN order |-> WaitSubmission(order[k], blit_count + k)]
    BY <1>4 DEF DrainQueue
  <2>2. UNCHANGED <<complete, present_count, user_count, user_images, user_views, callback>>
        /\ callback.at = "idle"
    BY <1>4 DEF DrainQueue, callbacks_drained, user, Idle
  <2>3. n \in Nat
    <3>1. IsFiniteSet(Slots)
      BY FS_Interval DEF Slots
    <3> QED
      BY <3>1, FS_Subset, FS_CardinalityType
  <2> DEFINE w == [k \in DOMAIN order |-> WaitSubmission(order[k], blit_count + k)]
  <2>4. order \in [1..n -> Slots]
    BY <2>1
  <2> HIDE DEF n
  <2>5. \A k \in 1..n : w[k].op = "wait" /\ w[k] \in Submission
    BY <1>0, <2>4 DEF WaitSubmission, Submission, AcquireTypes
  <2>6. w \in Seq(Submission) /\ Len(w) = n
    <3>1. w \in [1..n -> Submission]
      BY <2>4, <2>5
    <3> HIDE DEF w
    <3> QED
      BY <2>3, <3>1
  <2> HIDE DEF w
  <2>7. vk_queue' = vk_queue \o w
    BY <2>1 DEF w
  <2>8. /\ vk_queue' \in Seq(Submission)
        /\ \A k \in DOMAIN vk_queue : k \in DOMAIN vk_queue' /\ vk_queue'[k] = vk_queue[k]
        /\ \A k \in DOMAIN vk_queue' : k \in DOMAIN vk_queue \/ vk_queue'[k].op = "wait"
    BY <1>0, <2>3, <2>5, <2>6, <2>7, JoinFacts
  <2>9. /\ EndsNumbered(vk_queue', complete, present_count)
        /\ BlitsAreFrom(vk_queue', user_images, user_views) /\ BlitsAreEnded(vk_queue')
    BY <1>0, <2>2, <2>8, LeaveKeepsFrames DEF FramesEndInOrder, Working
  <2> QED
    BY <2>2, <2>9 DEF FramesEndInOrder
<1>5. CASE TakeRequest
  <2>1. /\ UNCHANGED <<vk_queue, complete, present_count, user_count, user_images, user_views>>
        /\ callback.at = "idle"
    BY <1>5 DEF TakeRequest, Idle, user, gpu
  <2> QED
    BY <2>1 DEF FramesEndInOrder, Working
<1>6. CASE Destroy \/ Create
  <2>1. /\ UNCHANGED <<vk_queue, complete, present_count, user_count, user_images, user_views>>
        /\ callback.at # "idle"
        /\ \E where \in {"drain_waiter", "acquire", "signal"} :
             callback' = [callback EXCEPT !.at = where]
    BY <1>6 DEF Destroy, Create, At, Goto, user, gpu
  <2>2. callback' \in Callbacks /\ callback'.at # "idle" /\ callback'.eager = callback.eager
    BY <1>15, <2>1 DEF Places
  <2> QED
    BY <1>0, <2>1, <2>2, WorkStays DEF FramesEndInOrder
<1>7. CASE DrainWaiter
  <2>1. /\ UNCHANGED <<vk_queue, complete, present_count, user_count, user_images, user_views>>
        /\ callback.at = "drain_waiter" /\ callback' = [callback EXCEPT !.at = callback.then]
    BY <1>7 DEF DrainWaiter, At, Goto, user, gpu
  <2>2. callback.then \in {"create", "signal"}
    BY <2>1 DEF Orderly, CallbackInOrder, Working
  <2>3. callback' \in Callbacks /\ callback'.at # "idle" /\ callback'.eager = callback.eager
    BY <1>15, <2>1, <2>2 DEF Places
  <2> QED
    BY <1>0, <2>1, <2>3, WorkStays DEF FramesEndInOrder
<1>8. CASE TryAcquire
  <2>1. /\ UNCHANGED <<complete, present_count, user_count, user_images, user_views>>
        /\ callback.at = "acquire"
        /\ \E where \in {"done", "blit", "reclaim"} : callback' = [callback EXCEPT !.at = where]
    BY <1>8 DEF TryAcquire, At, Goto, user
  <2>2. callback' \in Callbacks /\ callback'.at # "idle" /\ callback'.eager = callback.eager
    BY <1>15, <2>1 DEF Places
  <2>3. Working' <=> Working
    BY <1>0, <2>1, <2>2, WorkStays
  <2>4. CASE image # NoImage
    <3>1. UNCHANGED vk_queue
      BY <1>8, <2>4 DEF TryAcquire
    <3> QED
      BY <2>1, <2>3, <3>1 DEF FramesEndInOrder
  <2>5. CASE image = NoImage
    <3>1. ensure_unsignaled(semaphore_index)
      BY <1>8, <2>5 DEF TryAcquire
    <3> QED
      BY <1>0, <2>1, <2>3, <3>1, EnsureKeepsFrames DEF AcquireTypes
  <2> QED
    BY <2>4, <2>5
<1>9. CASE Reclaim
  <2>1. /\ UNCHANGED <<complete, present_count, user_count, user_images, user_views>>
        /\ callback.at = "reclaim" /\ ensure_unsignaled(semaphore_index)
        /\ \E where \in {"reclaim", "next_image"} : callback' = [callback EXCEPT !.at = where]
    BY <1>9 DEF Reclaim, At, Goto, user
  <2>2. callback' \in Callbacks /\ callback'.at # "idle" /\ callback'.eager = callback.eager
    BY <1>15, <2>1 DEF Places
  <2>3. Working' <=> Working
    BY <1>0, <2>1, <2>2, WorkStays
  <2> QED
    BY <1>0, <2>1, <2>3, EnsureKeepsFrames DEF AcquireTypes
<1>10. CASE AcquireNextImage \/ QueuePresentKHR
  <2>1. /\ UNCHANGED <<vk_queue, complete, present_count, user_count, user_images, user_views>>
        /\ callback.at # "idle"
        /\ \/ \E where \in {"done", "blit", "signal"} : callback' = [callback EXCEPT !.at = where]
           \/ \E lost \in BOOLEAN : Fail(lost)
    BY <1>10 DEF AcquireNextImage, QueuePresentKHR, At, Goto, user, gpu
  <2>2. callback'.at # "idle" /\ callback'.eager = callback.eager
    <3>1. CASE \E where \in {"done", "blit", "signal"} : callback' = [callback EXCEPT !.at = where]
      BY <1>15, <3>1 DEF Places
    <3>2. CASE \E lost \in BOOLEAN : Fail(lost)
      BY <1>0, <3>2 DEF Fail, Callbacks
    <3> QED
      BY <2>1, <3>1, <3>2
  <2> QED
    BY <2>1, <2>2 DEF FramesEndInOrder, Working
<1>11. CASE SubmitBlit
  <2> DEFINE e == [op |-> "blit", semaphore |-> semaphore_index,
                   value |-> blit_count + 1, from |-> user_images,
                   view |-> user_views]
  <2>1. /\ UNCHANGED <<complete, present_count, user_count, user_images, user_views>>
        /\ callback.at = "blit" /\ vk_queue' = Append(vk_queue, e)
        /\ callback' = [callback EXCEPT !.at = "present"]
    BY <1>11 DEF SubmitBlit, At, Goto, user
  <2>2. Working'
    <3>1. ~callback.eager
      BY <2>1 DEF Orderly, CallbackInOrder
    <3>2. callback'.at = "present" /\ callback'.eager = callback.eager
      BY <1>15, <2>1 DEF Places
    <3> QED
      BY <3>1, <3>2 DEF Working
  <2>3. e \in Submission /\ e.op = "blit" /\ e.from = user_images /\ e.view = user_views
    BY <1>0 DEF Submission, AcquireTypes
  <2> HIDE DEF e
  <2>4. /\ EndsNumbered(vk_queue', complete, present_count)
        /\ BlitsAreFrom(vk_queue', user_images, user_views)
    BY <1>0, <2>1, <2>3, SubmitKeepsFrames DEF FramesEndInOrder
  <2> QED
    BY <2>1, <2>2, <2>4 DEF FramesEndInOrder
<1>12. CASE FinishPresent
  <2> DEFINE e == [op |-> "complete", value |-> present_count + 1]
  <2>1. /\ UNCHANGED <<complete, user_count, user_images, user_views>>
        /\ callback.at = "signal" /\ vk_queue' = Append(vk_queue, e)
        /\ present_count' = present_count + 1
    BY <1>12 DEF FinishPresent, At, user
  <2>2. present_count < user_count
    BY <2>1 DEF Orderly, CallbackInOrder, Working
  <2>3. e \in Submission /\ e.op = "complete" /\ e.value = present_count + 1
    BY <1>0 DEF Submission
  <2> HIDE DEF e
  <2>4. /\ EndsNumbered(vk_queue', complete, present_count + 1)
        /\ BlitsAreFrom(vk_queue', user_images, user_views) /\ BlitsAreEnded(vk_queue')
    BY <1>0, <2>1, <2>3, SubmitKeepsFrames DEF FramesEndInOrder
  <2> QED
    BY <1>0, <2>1, <2>2, <2>4 DEF FramesEndInOrder
<1>13. CASE SignalDoneEvent
  <2>1. /\ UNCHANGED <<vk_queue, complete, present_count, user_count, user_images, user_views>>
        /\ callback.at = "done"
    BY <1>13 DEF SignalDoneEvent, At, user, gpu
  <2>2. ~Working
    BY <2>1 DEF Orderly, CallbackInOrder, Working
  <2> QED
    BY <2>1, <2>2 DEF FramesEndInOrder
<1>14. CASE Execute
  <2> DEFINE e == Head(vk_queue)
  <2>1. /\ UNCHANGED <<present_count, user_count, user_images, user_views, callback>>
        /\ vk_queue # <<>> /\ vk_queue' = Tail(vk_queue)
        /\ e.op = "complete" => complete' = e.value
        /\ e.op # "complete" => UNCHANGED complete
    BY <1>14 DEF Execute, user
  <2>2. /\ BlitsAreFrom(vk_queue', user_images, user_views)
        /\ BlitsAreEnded(vk_queue) => BlitsAreEnded(vk_queue')
        /\ e.op # "complete" => EndsNumbered(vk_queue', complete, present_count)
        /\ e.op = "complete" =>
             EndsNumbered(vk_queue', e.value, present_count) /\ e.value <= present_count
    BY <1>0, <2>1, ExecuteKeepsFrames DEF FramesEndInOrder
  <2> HIDE DEF e
  <2> QED
    BY <1>0, <2>1, <2>2 DEF FramesEndInOrder, Working
<1> QED
  BY <1>1, <1>2, <1>3, <1>4, <1>5, <1>6, <1>7, <1>8, <1>9, <1>10, <1>11, <1>12, <1>13, <1>14
  DEF Next, Call, AppStep, CallbackStep, WaiterStep

\* ResizeBuffers, whether it succeeds or fails, frees no buffer and destroys no view that a
\* blit on the GPU has yet to read: a frame whose blit was submitted has an end to be waited
\* for, or a callback that is still to submit it.  What a blit recorded after a failure finds
\* is not promised.
THEOREM NothingIsEverFreedUnderABlit == Spec => []NothingIsFreedUnderABlit
<1>1. Init => Orderly /\ Lifetimes /\ Acquisitions /\ FramesEndInOrder
  <2>1. Init => FramesEndInOrder
    BY DEF Init, FramesEndInOrder, EndsNumbered, EndsIn, BlitsAreFrom, BlitsIn, BlitsAreEnded
  <2> QED
    BY <2>1, OrderlyInit, LifetimesInit, AcquisitionsInit
<1>2. Orderly /\ Lifetimes /\ Acquisitions /\ FramesEndInOrder /\ [Next]_vars
        => (Orderly /\ Lifetimes /\ Acquisitions /\ FramesEndInOrder)'
  BY OrderlyStep, LifetimesStep, AcquisitionsStep, FramesStep
<1>3. FramesEndInOrder => NothingIsFreedUnderABlit
  BY DEF FramesEndInOrder, BlitsAreFrom, BlitsIn, NothingIsFreedUnderABlit
<1> QED
  BY <1>1, <1>2, <1>3, PTL DEF Spec

-----------------------------------------------------------------------------
(* The types: every counter within its bounds.                             *)

\* The bounds hold at first.
LEMMA BoundsInit ==
  Init => /\ CallsAreBounded /\ ChainIsBounded /\ BlitsAreCounted /\ WaiterIsBounded
          /\ LatencyIsBounded
<1> SUFFICES ASSUME Init
             PROVE  /\ CallsAreBounded /\ ChainIsBounded /\ BlitsAreCounted /\ WaiterIsBounded
                    /\ LatencyIsBounded
  OBVIOUS
<1> USE SwapchainAssumption
<1>1. CallsAreBounded
  <2>1. NoRequest \in [count : 0..MaxPresents, mode : Modes \cup {NoMode}]
    BY DEF NoRequest
  <2> QED
    BY <2>1 DEF Init, CallsAreBounded
<1>2. ChainIsBounded
  <2>1. /\ callback.retry = 0 /\ callback.then = "idle" /\ swapchain.id = 0 /\ created = 0
        /\ present_id = 0 /\ present_count = 0
    BY DEF Init, Idle, NoSwapchain
  <2>2. /\ maintenance1 \in BOOLEAN /\ force \in BOOLEAN /\ surface_lost \in BOOLEAN
        /\ present_id_valid \in BOOLEAN
    BY DEF Init
  <2> QED
    BY <2>1, <2>2 DEF ChainIsBounded
<1>3. BlitsAreCounted
  BY DEF Init, BlitsAreCounted
<1>4. WaiterIsBounded
  <2>1. skip_waits \in BOOLEAN /\ waiter.at = "look" /\ waiter.swapchain = 0 /\ created = 0
    BY DEF Init
  <2> QED
    BY <2>1 DEF WaiterIsBounded
<1>5. LatencyIsBounded
  BY DEF Init, LatencyIsBounded
<1> QED
  BY <1>1, <1>2, <1>3, <1>4, <1>5

\* The application makes no more calls, and meets no more failures, than the bounds say.
LEMMA CallsStep ==
  ASSUME Orderly, CallsAreBounded, [Next]_vars
  PROVE  CallsAreBounded'
<1> USE SwapchainAssumption DEF CallsAreBounded
<1>0. /\ user_count \in Nat /\ present_count \in Nat /\ events \in Nat
      /\ user_images \in Nat /\ user_views \in Nat
      /\ MaxPresents \in Nat /\ MaxEvents \in Nat
  BY DEF Orderly, Types
<1>1. CASE \E mode \in Modes : Present(mode)
  <2>1. PICK mode \in Modes : Present(mode)
    BY <1>1
  <2>2. /\ UNCHANGED <<user_images, user_views, request>>
        /\ app = "idle" /\ app' \in {"latency", "event"}
        /\ user_count < MaxPresents /\ user_count' = user_count + 1
        /\ events' \in {events, events + 1} /\ events' <= MaxEvents
    <3>1. UNCHANGED <<user_images, user_views, request>> /\ app = "idle" /\ app' \in {"latency",
                      "event"}
          /\ user_count < MaxPresents /\ user_count' = user_count + 1
      BY <2>1 DEF Present
    <3>2. events' = events \/ (events < MaxEvents /\ events' = events + 1)
      BY <2>1 DEF Present
    <3> QED
      BY <1>0, <3>1, <3>2
  <2>3. request_ring' \in [Slots -> [count : 0..MaxPresents, mode : Modes \cup {NoMode}]]
    <3> DEFINE r == [count |-> user_count + 1, mode |-> mode]
    <3>1. request_ring' = [request_ring EXCEPT ![(user_count + 1) % Buffers] = r]
      BY <2>1 DEF Present
    <3>2. r \in [count : 0..MaxPresents, mode : Modes \cup {NoMode}]
      BY <1>0, <2>2
    <3> HIDE DEF r
    <3> QED
      BY <3>1, <3>2
  <2> QED
    BY <1>0, <2>2, <2>3
<1>2. CASE \/ WaitInternalHandle \/ WaitDoneEvent \/ Release \/ DrainQueue \/ DrainGpu \/ Cleanup
  <2>1. /\ UNCHANGED <<user_count, user_images, user_views, request_ring, events, request>>
        /\ app # "resize" /\ app' \in {"idle", "drain_queue", "drain_gpu", "join", "gone"}
    BY <1>2 DEF WaitInternalHandle, WaitDoneEvent, Release, DrainQueue, DrainGpu, Cleanup, user
  <2> QED
    BY <1>0, <2>1
<1>3. CASE ChangeProperties
  <2>1. /\ UNCHANGED <<user_count, user_images, user_views, request_ring, request>>
        /\ app = "idle" /\ app' = "resize" /\ events < MaxEvents /\ events' = events + 1
    BY <1>3 DEF ChangeProperties, user
  <2> QED
    BY <1>0, <2>1
<1>4. CASE ReallocateUserBuffers
  <2>1. /\ UNCHANGED <<user_count, request_ring, request>>
        /\ app = "resize" /\ app' = "idle"
        /\ \/ user_images' = user_views + 1 /\ user_views' = user_views + 1 /\ events' = events
           \/ /\ user_images' = user_images /\ user_views' \in {user_views, user_views + 1}
              /\ events < MaxEvents /\ events' = events + 1
    BY <1>4 DEF ReallocateUserBuffers
  <2> QED
    BY <1>0, <2>1
<1>5. CASE TakeRequest
  <2>1. /\ UNCHANGED <<app, user_count, user_images, user_views, request_ring, events>>
        /\ request' = request_ring[(present_count + 1) % Buffers]
    BY <1>5 DEF TakeRequest, user
  <2>2. (present_count + 1) % Buffers \in Slots
    BY <1>0, DivisionWithRest DEF Slots
  <2>3. request' \in [count : 0..MaxPresents, mode : Modes \cup {NoMode}]
    BY <2>1, <2>2
  <2> QED
    BY <2>1, <2>3
<1>6. CASE Create \/ AcquireNextImage \/ QueuePresentKHR
  <2>1. UNCHANGED <<app, user_count, user_images, user_views, request_ring, request>>
    BY <1>6 DEF Create, AcquireNextImage, QueuePresentKHR, user
  <2>2. events' = events \/ (events < MaxEvents /\ events' = events + 1)
    <3>1. CASE Create
      BY <3>1 DEF Create
    <3>2. CASE AcquireNextImage
      BY <3>2 DEF AcquireNextImage, Fail
    <3>3. CASE QueuePresentKHR
      BY <3>3 DEF QueuePresentKHR, Fail
    <3> QED
      BY <1>6, <3>1, <3>2, <3>3
  <2> QED
    BY <1>0, <2>1, <2>2
<1>7. CASE \/ Destroy \/ DrainWaiter \/ TryAcquire \/ Reclaim \/ SubmitBlit \/ FinishPresent
           \/ SignalDoneEvent \/ Execute \/ Show \/ Look \/ CheckSkipWaits \/ Wait
           \/ ReleaseFrame \/ UNCHANGED vars
  <2>1. UNCHANGED <<app, user_count, user_images, user_views, request_ring, request, events>>
    BY <1>7 DEF Destroy, DrainWaiter, TryAcquire, Reclaim, SubmitBlit, FinishPresent,
       SignalDoneEvent, Execute, Show, Look, CheckSkipWaits, Wait, ReleaseFrame, user, vars
  <2> QED
    BY <2>1
<1> QED
  BY <1>1, <1>2, <1>3, <1>4, <1>5, <1>6, <1>7
  DEF Next, Call, AppStep, CallbackStep, WaiterStep

\* A failed acquisition or present is retried no more often than Retries.
LEMMA FailFacts ==
  ASSUME callback \in Callbacks, callback.retry \in 0..Retries, Retries \in Nat,
         NEW lost \in BOOLEAN, Fail(lost)
  PROVE  /\ callback'.retry \in 0..Retries /\ callback'.then \in {"create", "signal"}
         /\ callback'.at = "destroy" /\ callback'.eager = callback.eager
         /\ force' = TRUE /\ (surface_lost \in BOOLEAN => surface_lost' \in BOOLEAN)
<1> DEFINE again == ~lost /\ callback.retry < Retries
           then  == IF again THEN "create" ELSE "signal"
           retry == IF again THEN callback.retry + 1 ELSE callback.retry
<1>1. callback' = [callback EXCEPT !.at = "destroy", !.then = then, !.retry = retry]
  BY DEF Fail
<1>2. then \in {"create", "signal"} /\ retry \in 0..Retries
  OBVIOUS
<1> HIDE DEF then, retry
<1>3. /\ callback'.retry = retry /\ callback'.then = then
      /\ callback'.at = "destroy" /\ callback'.eager = callback.eager
  BY <1>1 DEF Callbacks
<1> QED
  BY <1>2, <1>3 DEF Fail

\* The callback goes on as it is, and whatever is bounded stays so.
LEMMA ChainGoesOn ==
  ASSUME callback \in Callbacks, ChainIsBounded, present_count \in Nat, present_id \in Nat,
         NEW where \in Places \ {"idle"}, callback' = [callback EXCEPT !.at = where],
         callback.at \notin {"idle", "destroy", "drain_waiter"} \/ where = "drain_waiter",
         callback.at # "idle",
         UNCHANGED <<maintenance1, present_id_valid, present_id, present_count>>,
         force' \in BOOLEAN, surface_lost' \in BOOLEAN, swapchain'.id <= created'
  PROVE  ChainIsBounded'
<1>1. /\ callback'.at = where /\ callback'.eager = callback.eager
      /\ callback'.retry = callback.retry /\ callback'.then = callback.then
  BY DEF Callbacks, Places
<1> QED
  BY <1>1 DEF ChainIsBounded, Working

\* Every step of the callback keeps its bounds: a present ID is given to a frame once.
LEMMA ChainStep ==
  ASSUME Orderly, ChainIsBounded, [Next]_vars
  PROVE  ChainIsBounded'
<1> USE SwapchainAssumption
<1>0. /\ callback \in Callbacks /\ present_count \in Nat /\ present_id \in Nat
      /\ swapchain \in [id : Nat, mode : Modes \cup {NoMode}] /\ created \in Nat
      /\ Retries \in Nat
  BY DEF Orderly, Types
<1>1. CASE \/ \E mode \in Modes : Present(mode)
           \/ WaitInternalHandle \/ WaitDoneEvent \/ ChangeProperties \/ Release
           \/ DrainQueue \/ DrainGpu
  <2>1. UNCHANGED <<callback, maintenance1, force, surface_lost, present_id_valid, swapchain,
                    created, present_id, present_count>>
    BY <1>1 DEF Present, WaitInternalHandle, WaitDoneEvent, ChangeProperties, Release,
       DrainQueue, DrainGpu, features, chain
  <2> QED
    BY <2>1 DEF ChainIsBounded, Working
<1>2. CASE \/ Execute \/ Show \/ Look \/ CheckSkipWaits \/ Wait \/ ReleaseFrame \/ UNCHANGED vars
  <2>1. UNCHANGED <<callback, maintenance1, force, surface_lost, present_id_valid, swapchain,
                    created, present_id, present_count>>
    BY <1>2 DEF Execute, Show, Look, CheckSkipWaits, Wait, ReleaseFrame, features, chain, vars
  <2> QED
    BY <2>1 DEF ChainIsBounded, Working
<1>3. CASE ReallocateUserBuffers
  <2>1. /\ UNCHANGED <<callback, maintenance1, surface_lost, present_id_valid, swapchain,
                       created, present_id, present_count>>
        /\ force' = TRUE \/ force' = force
    BY <1>3 DEF ReallocateUserBuffers, features
  <2> QED
    BY <2>1 DEF ChainIsBounded, Working
<1>4. CASE Cleanup
  <2>1. /\ UNCHANGED <<callback, maintenance1, force, surface_lost, present_id_valid,
                       created, present_id, present_count>>
        /\ swapchain' = NoSwapchain
    BY <1>4 DEF Cleanup, features
  <2> QED
    BY <1>0, <2>1 DEF ChainIsBounded, Working, NoSwapchain
<1>5. CASE TakeRequest
  <2>1. /\ UNCHANGED <<maintenance1, surface_lost, swapchain, created, present_id, present_count>>
        /\ callback.at = "idle" /\ callback'.retry = 0 /\ callback'.then = "create"
        /\ present_id_valid' = FALSE
    BY <1>5 DEF TakeRequest, Idle, features
  <2>2. force' \in BOOLEAN
    BY <1>5 DEF TakeRequest
  <2>3. present_id <= present_count
    BY <1>0, <2>1 DEF ChainIsBounded, Working
  <2>4. /\ present_id' <= present_count' + 1 /\ present_id' # present_count' + 1
        /\ swapchain'.id <= created' /\ callback'.retry \in 0..Retries
    BY <1>0, <2>1, <2>3 DEF ChainIsBounded
  <2> QED
    BY <2>1, <2>2, <2>4 DEF ChainIsBounded
<1>6. CASE Destroy
  <2>1. /\ UNCHANGED <<maintenance1, force, surface_lost, present_id_valid, swapchain,
                       created, present_id, present_count>>
        /\ callback.at = "destroy" /\ callback' = [callback EXCEPT !.at = "drain_waiter"]
    BY <1>6 DEF Destroy, At, Goto, features, chain
  <2>2. /\ force' \in BOOLEAN /\ surface_lost' \in BOOLEAN /\ swapchain'.id <= created'
    BY <2>1 DEF ChainIsBounded
  <2>3. "drain_waiter" \in Places \ {"idle"}
    BY DEF Places
  <2> QED
    BY <1>0, <2>1, <2>2, <2>3, ChainGoesOn
<1>7. CASE DrainWaiter
  <2>1. /\ UNCHANGED <<maintenance1, surface_lost, created, present_count>>
        /\ swapchain' = NoSwapchain /\ force' = FALSE /\ present_id' = 0
        /\ present_id_valid' = FALSE
        /\ callback' = [callback EXCEPT !.at = callback.then]
    BY <1>7 DEF DrainWaiter, Goto, features
  <2>2. callback'.retry = callback.retry /\ callback'.then = callback.then
    BY <1>0, <2>1 DEF Callbacks
  <2>3. swapchain'.id = 0
    BY <2>1 DEF NoSwapchain
  <2>4. present_id' <= present_count' + 1 /\ present_id' # present_count' + 1
    BY <1>0, <2>1
  <2>5. swapchain'.id <= created'
    BY <1>0, <2>1, <2>3
  <2> QED
    BY <2>1, <2>2, <2>4, <2>5 DEF ChainIsBounded
<1>8. CASE Create
  <2>1. /\ UNCHANGED <<maintenance1, force, present_id_valid, present_id, present_count>>
        /\ callback.at = "create" /\ surface_lost' \in {surface_lost} \cup BOOLEAN
        /\ \/ UNCHANGED <<swapchain, created>>
           \/ created' = created + 1 /\ swapchain' = [id |-> created + 1, mode |-> request.mode]
        /\ \E where \in {"acquire", "signal"} : callback' = [callback EXCEPT !.at = where]
    BY <1>8 DEF Create, At, Goto, features
  <2>2. PICK where \in {"acquire", "signal"} : callback' = [callback EXCEPT !.at = where]
    BY <2>1
  <2>3. force' \in BOOLEAN /\ surface_lost' \in BOOLEAN /\ swapchain'.id <= created'
    BY <1>0, <2>1 DEF ChainIsBounded
  <2>4. where \in Places \ {"idle"}
    BY DEF Places
  <2> QED
    BY <1>0, <2>1, <2>2, <2>3, <2>4, ChainGoesOn
<1>9. CASE TryAcquire \/ Reclaim \/ SubmitBlit
  <2>1. /\ UNCHANGED <<maintenance1, force, surface_lost, present_id_valid, swapchain,
                       created, present_id, present_count>>
        /\ callback.at \in {"acquire", "reclaim", "blit"}
        /\ \E where \in {"done", "blit", "reclaim", "next_image", "present"} :
             callback' = [callback EXCEPT !.at = where]
    BY <1>9 DEF TryAcquire, Reclaim, SubmitBlit, At, Goto, features, chain
  <2>2. PICK where \in {"done", "blit", "reclaim", "next_image", "present"} :
          callback' = [callback EXCEPT !.at = where]
    BY <2>1
  <2>3. force' \in BOOLEAN /\ surface_lost' \in BOOLEAN /\ swapchain'.id <= created'
    BY <2>1 DEF ChainIsBounded
  <2>4. where \in Places \ {"idle"}
    BY DEF Places
  <2> QED
    BY <1>0, <2>1, <2>2, <2>3, <2>4, ChainGoesOn
<1>10. CASE AcquireNextImage
  <2>1. /\ UNCHANGED <<maintenance1, present_id_valid, swapchain, created, present_id,
                       present_count>>
        /\ callback.at = "next_image"
    BY <1>10 DEF AcquireNextImage, At, features
  <2>2. CASE /\ force' \in BOOLEAN /\ surface_lost' = surface_lost
             /\ \E where \in {"done", "blit"} : callback' = [callback EXCEPT !.at = where]
    <3>1. PICK where \in {"done", "blit"} : callback' = [callback EXCEPT !.at = where]
      BY <2>2
    <3>2. surface_lost' \in BOOLEAN /\ swapchain'.id <= created'
      BY <2>1, <2>2 DEF ChainIsBounded
    <3>3. where \in Places \ {"idle"}
      BY DEF Places
    <3> QED
      BY <1>0, <2>1, <2>2, <3>1, <3>2, <3>3, ChainGoesOn
  <2>3. CASE \E lost \in BOOLEAN : Fail(lost)
    <3>1. /\ callback'.retry \in 0..Retries /\ callback'.then \in {"create", "signal"}
          /\ callback'.at = "destroy" /\ callback'.eager = callback.eager
          /\ force' = TRUE /\ surface_lost' \in BOOLEAN
      BY <1>0, <2>3, FailFacts DEF ChainIsBounded
    <3> QED
      BY <2>1, <3>1 DEF ChainIsBounded, Working
  <2>4. \/ /\ force' \in BOOLEAN /\ surface_lost' = surface_lost
           /\ \E where \in {"done", "blit"} : callback' = [callback EXCEPT !.at = where]
        \/ \E lost \in BOOLEAN : Fail(lost)
    <3>1. force \in BOOLEAN
      BY DEF ChainIsBounded
    <3> QED
      BY <1>10, <3>1 DEF AcquireNextImage, Goto
  <2> QED
    BY <2>2, <2>3, <2>4
<1>11. CASE QueuePresentKHR
  <2>1. /\ UNCHANGED <<maintenance1, swapchain, created, present_count>>
        /\ callback.at = "present"
        /\ present_id' = IF use_present_id THEN next_present_id ELSE present_id
    BY <1>11 DEF QueuePresentKHR, At, features
  <2>2. /\ present_id' <= present_count + 1
        /\ use_present_id \/ present_id' = present_id
    BY <1>0, <2>1 DEF ChainIsBounded, use_present_id, next_present_id
  <2>3. ~callback.eager
    BY <2>1 DEF Orderly, CallbackInOrder
  <2>4. CASE \E lost \in BOOLEAN : Fail(lost) /\ UNCHANGED present_id_valid
    <3>1. /\ callback'.retry \in 0..Retries /\ callback'.then \in {"create", "signal"}
          /\ callback'.at = "destroy" /\ callback'.eager = callback.eager
          /\ force' = TRUE /\ surface_lost' \in BOOLEAN
      BY <1>0, <2>4, FailFacts DEF ChainIsBounded
    <3> QED
      BY <2>1, <2>2, <2>3, <2>4, <3>1 DEF ChainIsBounded, Working
  <2>5. CASE /\ force' \in BOOLEAN /\ surface_lost' = surface_lost
             /\ present_id_valid' = (present_id_valid \/ use_present_id)
             /\ callback' = [callback EXCEPT !.at = "signal"]
    <3>1. /\ callback'.at = "signal" /\ callback'.eager = callback.eager
          /\ callback'.retry = callback.retry /\ callback'.then = callback.then
      BY <1>0, <2>5 DEF Callbacks
    <3>2. Working'
      BY <2>3, <3>1 DEF Working
    <3>3. present_id' = present_count + 1 => present_id_valid'
      BY <2>1, <2>2, <2>5 DEF ChainIsBounded
    <3>4. present_id_valid' \in BOOLEAN
      BY <2>5
    <3> QED
      BY <2>1, <2>2, <2>5, <3>1, <3>2, <3>3, <3>4 DEF ChainIsBounded
  <2>6. \/ \E lost \in BOOLEAN : Fail(lost) /\ UNCHANGED present_id_valid
        \/ /\ force' \in BOOLEAN /\ surface_lost' = surface_lost
           /\ present_id_valid' = (present_id_valid \/ use_present_id)
           /\ callback' = [callback EXCEPT !.at = "signal"]
    <3>1. force \in BOOLEAN
      BY DEF ChainIsBounded
    <3> QED
      BY <1>11, <3>1 DEF QueuePresentKHR, Goto
  <2> QED
    BY <2>4, <2>5, <2>6
<1>12. CASE FinishPresent
  <2>1. /\ UNCHANGED <<maintenance1, force, surface_lost, present_id_valid, swapchain,
                       created, present_id>>
        /\ present_count' = present_count + 1
        /\ callback'.retry = 0 /\ callback'.then = "idle"
    BY <1>12 DEF FinishPresent, Idle, features, chain
  <2> QED
    BY <1>0, <2>1 DEF ChainIsBounded
<1>13. CASE SignalDoneEvent
  <2>1. /\ UNCHANGED <<maintenance1, force, surface_lost, present_id_valid, swapchain,
                       created, present_id, present_count>>
        /\ callback.at = "done" /\ callback'.retry = 0 /\ callback'.then = "idle"
    BY <1>13 DEF SignalDoneEvent, At, Idle, features, chain
  <2>2. ~Working
    BY <2>1 DEF Orderly, CallbackInOrder, Working
  <2> QED
    BY <1>0, <2>1, <2>2 DEF ChainIsBounded
<1> QED
  BY <1>1, <1>2, <1>3, <1>4, <1>5, <1>6, <1>7, <1>8, <1>9, <1>10, <1>11, <1>12, <1>13
  DEF Next, Call, AppStep, CallbackStep, WaiterStep

\* A function whose values are within a bound stays so when the bound grows, and when
\* it is given the bound at one place.
LEMMA StaysWithin ==
  ASSUME NEW S, NEW n \in Nat, NEW m \in Nat, n <= m, NEW f \in [S -> 0..n]
  PROVE  f \in [S -> 0..m] /\ \A i : [f EXCEPT ![i] = m] \in [S -> 0..m]
<1>1. \A x \in S : f[x] \in 0..m
  OBVIOUS
<1>2. f \in [S -> 0..m]
  BY <1>1
<1> HIDE <1>1
<1>3. ASSUME NEW i PROVE [f EXCEPT ![i] = m] \in [S -> 0..m]
  <2>1. m \in 0..m
    OBVIOUS
  <2> QED
    BY <1>2, <2>1
<1> QED
  BY <1>2, <1>3

\* What waits for a blit waits for one that was submitted.
LEMMA BlitsStep ==
  ASSUME AcquireTypes, BlitsAreCounted, [Next]_vars
  PROVE  BlitsAreCounted'
<1> USE SwapchainAssumption DEF BlitsAreCounted
<1>1. CASE \/ \E mode \in Modes : Present(mode)
           \/ WaitInternalHandle \/ WaitDoneEvent \/ ChangeProperties \/ Release
           \/ ReallocateUserBuffers \/ DrainGpu \/ Cleanup
  <2>1. UNCHANGED <<blit_count, consumed_at, fences, blit_timelines>>
    BY <1>1 DEF Present, WaitInternalHandle, WaitDoneEvent, ChangeProperties, Release,
       ReallocateUserBuffers, DrainGpu, Cleanup, acquiring, blitting, fencing
  <2> QED
    BY <2>1
<1>2. CASE \/ TakeRequest \/ Destroy \/ DrainWaiter \/ Create \/ AcquireNextImage
           \/ FinishPresent \/ SignalDoneEvent
  <2>1. UNCHANGED <<blit_count, consumed_at, fences, blit_timelines>>
    BY <1>2 DEF TakeRequest, Destroy, DrainWaiter, Create, AcquireNextImage, FinishPresent,
       SignalDoneEvent, acquiring, blitting, fencing
  <2> QED
    BY <2>1
<1>3. CASE \/ Execute \/ Show \/ Look \/ CheckSkipWaits \/ Wait \/ ReleaseFrame \/ UNCHANGED vars
  <2>1. UNCHANGED <<blit_count, consumed_at, fences, blit_timelines>>
    BY <1>3 DEF Execute, Show, Look, CheckSkipWaits, Wait, ReleaseFrame, acquiring, blitting,
       fencing, vars
  <2> QED
    BY <2>1
<1>4. CASE DrainQueue
  <2> DEFINE n == Cardinality({i \in Slots : signalled[i]})
  <2>1. UNCHANGED <<consumed_at, fences, blit_timelines>> /\ blit_count' = blit_count + n
    BY <1>4 DEF DrainQueue, acquiring, fencing
  <2>2. n \in Nat
    <3>1. IsFiniteSet(Slots)
      BY FS_Interval DEF Slots
    <3> QED
      BY <3>1, FS_Subset, FS_CardinalityType
  <2> HIDE DEF n
  <2>3. blit_count' \in Nat /\ blit_count <= blit_count'
    BY <2>1, <2>2
  <2> QED
    BY <2>1, <2>3, StaysWithin
<1>5. CASE TryAcquire \/ Reclaim
  <2>1. UNCHANGED <<fences, blit_timelines>>
    BY <1>5 DEF TryAcquire, Reclaim, fencing
  <2>2. \/ UNCHANGED <<blit_count, consumed_at>>
        \/ /\ blit_count' = blit_count + 1
           /\ consumed_at' = [consumed_at EXCEPT ![semaphore_index] = blit_count + 1]
    BY <1>5 DEF TryAcquire, Reclaim, ensure_unsignaled, acquiring
  <2>3. CASE /\ blit_count' = blit_count + 1
             /\ consumed_at' = [consumed_at EXCEPT ![semaphore_index] = blit_count + 1]
    <3>1. /\ blit_count' \in Nat /\ blit_count <= blit_count'
          /\ consumed_at' = [consumed_at EXCEPT ![semaphore_index] = blit_count']
      BY <2>3
    <3> QED
      BY <2>1, <3>1, StaysWithin
  <2> QED
    BY <2>1, <2>2, <2>3
<1>6. CASE SubmitBlit
  <2>1. /\ fences' = fences /\ blit_count' \in Nat /\ blit_count <= blit_count'
        /\ consumed_at' = [consumed_at EXCEPT ![semaphore_index] = blit_count']
        /\ blit_timelines' = [blit_timelines EXCEPT ![image] = blit_count']
    BY <1>6 DEF SubmitBlit, fencing
  <2> QED
    BY <2>1, StaysWithin
<1>7. CASE QueuePresentKHR
  <2>1. /\ UNCHANGED <<blit_count, consumed_at, blit_timelines>>
        /\ \/ fences' = fences
           \/ fences' = [fences EXCEPT ![(fence_index + 1) % Buffers] = blit_count]
    BY <1>7 DEF QueuePresentKHR, next_fence, acquiring, blitting, fencing
  <2>2. CASE fences' = [fences EXCEPT ![(fence_index + 1) % Buffers] = blit_count]
    <3>1. fences' \in [Slots -> 0..blit_count]
      BY <2>2, StaysWithin
    <3> QED
      BY <2>1, <3>1
  <2> QED
    BY <2>1, <2>2
<1> QED
  BY <1>1, <1>2, <1>3, <1>4, <1>5, <1>6, <1>7
  DEF Next, Call, AppStep, CallbackStep, WaiterStep

\* The waiter goes where its queue sends it, and waits for swapchains there were.
LEMMA WaiterStays ==
  ASSUME Orderly, ChainIsBounded, WaiterIsBounded, [Next]_vars
  PROVE  WaiterIsBounded'
<1> USE SwapchainAssumption DEF WaiterIsBounded
<1>0. created \in Nat /\ swapchain.id \in Nat /\ swapchain.id <= created
  BY DEF Orderly, Types, ChainIsBounded
<1>1. CASE \/ \E mode \in Modes : Present(mode)
           \/ WaitInternalHandle \/ WaitDoneEvent \/ ChangeProperties \/ Release
           \/ ReallocateUserBuffers \/ DrainQueue \/ DrainGpu \/ Cleanup
  <2>1. UNCHANGED <<waiter, skip_waits, created>>
    BY <1>1 DEF Present, WaitInternalHandle, WaitDoneEvent, ChangeProperties, Release,
       ReallocateUserBuffers, DrainQueue, DrainGpu, Cleanup, chain, waiting
  <2> QED
    BY <2>1
<1>2. CASE \/ TakeRequest \/ TryAcquire \/ Reclaim \/ AcquireNextImage \/ SubmitBlit
           \/ QueuePresentKHR \/ FinishPresent \/ SignalDoneEvent \/ Execute \/ Show
           \/ UNCHANGED vars
  <2>1. UNCHANGED <<waiter, skip_waits, created>>
    BY <1>2 DEF TakeRequest, TryAcquire, Reclaim, AcquireNextImage, SubmitBlit, QueuePresentKHR,
       FinishPresent, SignalDoneEvent, Execute, Show, chain, waiting, vars
  <2> QED
    BY <2>1
<1>3. CASE Destroy \/ DrainWaiter
  <2>1. UNCHANGED <<waiter, created>> /\ skip_waits' \in BOOLEAN
    BY <1>3 DEF Destroy, DrainWaiter, chain
  <2> QED
    BY <2>1
<1>4. CASE Create
  <2>1. UNCHANGED <<waiter, skip_waits>> /\ created' \in {created, created + 1}
    BY <1>4 DEF Create, waiting
  <2> QED
    BY <1>0, <2>1
<1>5. CASE CheckSkipWaits
  <2>1. /\ UNCHANGED <<skip_waits, created>>
        /\ \/ waiter' = [at |-> "release", swapchain |-> 0]
           \/ waiter' = [at |-> "present", swapchain |-> swapchain.id]
    BY <1>5 DEF CheckSkipWaits, WaiterGoto, chain
  <2> QED
    BY <1>0, <2>1
<1>6. CASE Look \/ Wait \/ ReleaseFrame
  <2>1. /\ UNCHANGED <<skip_waits, created>>
        /\ \E where \in {"look", "skip?", "complete", "release", "ended"} :
             waiter' = [at |-> where, swapchain |-> 0]
    BY <1>6 DEF Look, Wait, ReleaseFrame, WaiterGoto, chain
  <2> QED
    BY <1>0, <2>1
<1> QED
  BY <1>1, <1>2, <1>3, <1>4, <1>5, <1>6
  DEF Next, Call, AppStep, CallbackStep, WaiterStep

\* What is known of the latency semaphore does not depend on other steps.
LEMMA LatencyUntouched ==
  ASSUME LatencyIsBounded,
         UNCHANGED <<supports_present_wait, wait_counts, latency, wait_queue, waiter, user_count,
                     present_count>>,
         app' \in {"join", "gone"} => app \in {"join", "gone"},
         app' # "latency" \/ app = "latency"
  PROVE  LatencyIsBounded'
  BY DEF LatencyIsBounded

\* A queue with one more entry keeps its first one, and what is taken off is the first.
LEMMA EntryFacts ==
  ASSUME NEW S, NEW q \in Seq(S), NEW e \in S
  PROVE  /\ Len(q) \in Nat /\ Len(Append(q, e)) = Len(q) + 1 /\ Append(q, e) # <<>>
         /\ Append(q, e)[Len(q) + 1] = e
         /\ q # <<>> => Head(Append(q, e)) = Head(q)
         /\ q # <<>> /\ Head(q) # q[Len(q)] =>
              Tail(q) # <<>> /\ Tail(q)[Len(Tail(q))] = q[Len(q)]
         /\ q # <<>> => Len(Tail(q)) = Len(q) - 1
<1>1. Len(q) \in Nat /\ Len(Append(q, e)) = Len(q) + 1 /\ Append(q, e)[Len(q) + 1] = e
      /\ Append(q, e) # <<>>
  OBVIOUS
<1>2. ASSUME q # <<>> PROVE Head(Append(q, e)) = Head(q) /\ Len(Tail(q)) = Len(q) - 1
  BY <1>2
<1>3. ASSUME q # <<>>, Head(q) # q[Len(q)]
      PROVE  Tail(q) # <<>> /\ Tail(q)[Len(Tail(q))] = q[Len(q)]
  <2>1. Head(q) = q[1] /\ Len(q) \in Nat \ {0} /\ Len(q) # 1
    BY <1>3
  <2>2. Tail(q) \in Seq(S) /\ Len(Tail(q)) = Len(q) - 1 /\ Len(q) - 1 \in Nat \ {0}
    BY <1>3, <2>1
  <2>3. Len(Tail(q)) \in DOMAIN Tail(q)
    BY <2>2
  <2>4. Tail(q)[Len(Tail(q))] = q[Len(Tail(q)) + 1]
    BY <1>3, <2>3, TailFacts
  <2>5. Len(Tail(q)) + 1 = Len(q)
    BY <2>1, <2>2
  <2> QED
    BY <2>2, <2>4, <2>5
<1> QED
  BY <1>1, <1>2, <1>3

\* The first entry of a queue is one of its entries.
LEMMA HeadFacts ==
  ASSUME NEW S, NEW q \in Seq(S), q # <<>>
  PROVE  Head(q) \in S
  OBVIOUS

\* Every step keeps the bounds of the semaphore.
LEMMA LatencyStep ==
  ASSUME ~LowLatency, Orderly, LatencyIsBounded, [Next]_vars
  PROVE  LatencyIsBounded'
<1> USE SwapchainAssumption
<1> DEFINE Frame == [count : Nat, id : Nat, swapchain : Nat]
<1>0. /\ user_count \in Nat /\ present_count \in Nat /\ wait_counts \in Nat /\ latency \in Nat
      /\ wait_queue \in Seq(Frame) /\ supports_present_wait \in BOOLEAN
      /\ swapchain.id \in Nat /\ present_id \in Nat
      /\ FrameLatency \in Nat
  BY DEF Orderly, Types
<1>1. CASE \E mode \in Modes : Present(mode)
  <2>1. /\ UNCHANGED <<supports_present_wait, latency, wait_queue, waiter, present_count>>
        /\ app = "idle" /\ app' \in {"latency", "event"}
        /\ wait_counts' = IF supports_present_wait THEN wait_counts + 1 ELSE wait_counts
        /\ app' = IF supports_present_wait THEN "latency" ELSE "event"
        /\ user_count' = user_count + 1
    BY <1>1 DEF Present, features, waiting
  <2>2. app' = "latency" => wait_counts' <= 1
    <3>1. CASE supports_present_wait
      <4>1. wait_counts = 0
        BY <2>1, <3>1 DEF Orderly, ThrottledByWaiter
      <4> QED
        BY <2>1, <3>1, <4>1
    <3>2. CASE ~supports_present_wait
      BY <2>1, <3>2
    <3> QED
      BY <3>1, <3>2
  <2> QED
    BY <1>0, <2>1, <2>2 DEF LatencyIsBounded
<1>2. CASE WaitInternalHandle
  <2>1. /\ UNCHANGED <<supports_present_wait, wait_queue, waiter, present_count>>
        /\ app = "latency" /\ app' = "idle"
        /\ ~supports_present_wait => latency' = latency /\ wait_counts' = wait_counts
    <3>1. UNCHANGED <<supports_present_wait, wait_queue, waiter, present_count>>
          /\ app = "latency" /\ app' = "idle"
      BY <1>2 DEF WaitInternalHandle, features, waiting
    <3>2. ASSUME ~supports_present_wait PROVE latency' = latency /\ wait_counts' = wait_counts
      <4>1. wait_counts = 0
        BY <3>2 DEF LatencyIsBounded
      <4>2. CASE latency < wait_counts
        BY <1>0, <4>1, <4>2
      <4>3. CASE ~(latency < wait_counts)
        <5>1. latency' = latency - wait_counts /\ wait_counts' = wait_counts - wait_counts
          BY <1>2, <4>3 DEF WaitInternalHandle
        <5> QED
          BY <1>0, <4>1, <5>1
      <4> QED
        BY <4>2, <4>3
    <3> QED
      BY <3>1, <3>2
  <2> QED
    BY <2>1 DEF LatencyIsBounded
<1>3. CASE WaitDoneEvent \/ ChangeProperties \/ Release \/ ReallocateUserBuffers \/ DrainQueue
  <2>1. /\ UNCHANGED <<supports_present_wait, wait_counts, latency, wait_queue, waiter, user_count,
                       present_count>>
        /\ app' \in {"idle", "resize", "drain_queue", "drain_gpu"}
    BY <1>3 DEF WaitDoneEvent, ChangeProperties, Release, ReallocateUserBuffers, DrainQueue,
       features, user, throttle, waiting
  <2> QED
    BY <2>1, LatencyUntouched
<1>4. CASE Cleanup
  <2>1. /\ UNCHANGED <<supports_present_wait, wait_counts, latency, wait_queue, waiter, user_count,
                       present_count>>
        /\ app = "join" /\ app' = "gone"
    BY <1>4 DEF Cleanup, features, user, waiting
  <2> QED
    BY <2>1, LatencyUntouched
<1>5. CASE DrainGpu
  <2> DEFINE e == [count |-> 0, id |-> 0, swapchain |-> swapchain.id]
  <2>1. /\ UNCHANGED <<supports_present_wait, wait_counts, latency, waiter, user_count,
                       present_count>>
        /\ app = "drain_gpu" /\ app' = "join" /\ wait_queue' = Append(wait_queue, e)
    BY <1>5 DEF DrainGpu, Push, features, user, throttle
  <2>2. e \in Frame /\ e.count = 0
    BY <1>0
  <2> HIDE DEF e, Frame
  <2>3. /\ Len(wait_queue') = Len(wait_queue) + 1 /\ wait_queue' # <<>>
        /\ wait_queue'[Len(wait_queue')] = e /\ Len(wait_queue) \in Nat
        /\ wait_queue # <<>> => Head(wait_queue') = Head(wait_queue)
    BY <1>0, <2>1, <2>2, EntryFacts
  <2>4. supports_present_wait =>
          latency - wait_counts + Len(wait_queue) + user_count = FrameLatency - 1 + present_count
    BY <2>1 DEF Orderly, ThrottledByWaiter
  <2>5. supports_present_wait =>
          latency - wait_counts + Len(wait_queue') + user_count = FrameLatency + present_count
    BY <1>0, <2>3, <2>4
  <2>6. waiter.at \notin {"look", "ended"} => wait_queue # <<>>
    BY DEF Orderly, WaiterHasAFrame
  <2> QED
    BY <2>1, <2>2, <2>3, <2>5, <2>6 DEF LatencyIsBounded
<1>6. CASE FinishPresent
  <2> DEFINE e == [count |-> present_count + 1,
                   id |-> IF present_id_valid THEN present_id ELSE 0, swapchain |-> swapchain.id]
  <2>1. /\ UNCHANGED <<supports_present_wait, wait_counts, latency, waiter, user_count, app>>
        /\ callback.at = "signal" /\ wait_queue' = Append(wait_queue, e)
    BY <1>6 DEF FinishPresent, At, Push, features, user, throttle
  <2>2. e \in Frame
    BY <1>0
  <2>3. app \notin {"join", "gone"}
    BY <2>1 DEF Orderly, CaughtUp
  <2> HIDE DEF e, Frame
  <2>4. wait_queue # <<>> => Head(wait_queue') = Head(wait_queue)
    BY <1>0, <2>1, <2>2, EntryFacts
  <2>5. waiter.at \notin {"look", "ended"} => wait_queue # <<>>
    BY DEF Orderly, WaiterHasAFrame
  <2> QED
    BY <2>1, <2>3, <2>4, <2>5 DEF LatencyIsBounded
<1>7. CASE \/ TakeRequest \/ Destroy \/ DrainWaiter \/ Create \/ TryAcquire \/ Reclaim
           \/ AcquireNextImage \/ SubmitBlit \/ QueuePresentKHR
  <2>1. UNCHANGED <<supports_present_wait, wait_counts, latency, wait_queue, waiter, user_count,
                    present_count, app>>
    BY <1>7 DEF TakeRequest, Destroy, DrainWaiter, Create, TryAcquire, Reclaim,
       AcquireNextImage, SubmitBlit, QueuePresentKHR, features, user, throttle, waiting
  <2> QED
    BY <2>1, LatencyUntouched
<1>8. CASE SignalDoneEvent \/ Execute \/ Show \/ UNCHANGED vars
  <2>1. UNCHANGED <<supports_present_wait, wait_counts, latency, wait_queue, waiter, user_count,
                    present_count, app>>
    BY <1>8 DEF SignalDoneEvent, Execute, Show, features, user, throttle, waiting, vars
  <2> QED
    BY <2>1, LatencyUntouched
<1>9. CASE Look
  <2>1. /\ UNCHANGED <<supports_present_wait, wait_counts, latency, wait_queue, user_count,
                       present_count, app>>
        /\ waiter'.at \in {"look", "ended"} \/ Head(wait_queue).count # 0
    BY <1>9 DEF Look, WaiterGoto, features, user, throttle
  <2> QED
    BY <2>1 DEF LatencyIsBounded
<1>10. CASE CheckSkipWaits \/ Wait
  <2>1. /\ UNCHANGED <<supports_present_wait, wait_counts, latency, wait_queue, user_count,
                       present_count, app>>
        /\ waiter.at \notin {"look", "ended"}
    BY <1>10 DEF CheckSkipWaits, Wait, features, user, throttle
  <2> QED
    BY <2>1 DEF LatencyIsBounded
<1>11. CASE ReleaseFrame
  <2>1. /\ UNCHANGED <<supports_present_wait, wait_counts, user_count, present_count, app>>
        /\ latency' = IF supports_present_wait THEN latency + 1 ELSE latency
        /\ wait_queue' = Tail(wait_queue) /\ waiter.at = "release" /\ waiter'.at = "look"
    BY <1>11 DEF ReleaseFrame, WaiterGoto, features, user
  <2>2. wait_queue # <<>> /\ Head(wait_queue).count # 0
    BY <2>1 DEF Orderly, WaiterHasAFrame, LatencyIsBounded
  <2>3. Head(wait_queue) \in Frame
    BY <1>0, <2>2, HeadFacts
  <2> HIDE DEF Frame
  <2>4. /\ Len(wait_queue') = Len(wait_queue) - 1 /\ Len(wait_queue) \in Nat
        /\ Head(wait_queue) # wait_queue[Len(wait_queue)] =>
             wait_queue' # <<>> /\ wait_queue'[Len(wait_queue')] = wait_queue[Len(wait_queue)]
    BY <1>0, <2>1, <2>2, <2>3, EntryFacts
  <2>5. app \in {"join", "gone"} =>
          wait_queue' # <<>> /\ wait_queue'[Len(wait_queue')].count = 0
    BY <2>2, <2>4 DEF LatencyIsBounded
  <2>6. supports_present_wait /\ app \in {"join", "gone"} =>
          latency' - wait_counts + Len(wait_queue') + user_count = FrameLatency + present_count
    <3>1. supports_present_wait /\ app \in {"join", "gone"} =>
            latency - wait_counts + Len(wait_queue) + user_count = FrameLatency + present_count
      BY DEF LatencyIsBounded
    <3>2. ASSUME supports_present_wait, app \in {"join", "gone"}
          PROVE  latency' - wait_counts + Len(wait_queue') + user_count
                   = FrameLatency + present_count
      <4>1. /\ latency' = latency + 1 /\ Len(wait_queue') = Len(wait_queue) - 1
            /\ latency - wait_counts + Len(wait_queue) + user_count = FrameLatency + present_count
        BY <2>1, <2>4, <3>1, <3>2
      <4> QED
        BY <1>0, <2>4, <4>1
    <3> QED
      BY <3>2
  <2> QED
    BY <2>1, <2>5, <2>6 DEF LatencyIsBounded
<1> QED
  BY <1>1, <1>2, <1>3, <1>4, <1>5, <1>6, <1>7, <1>8, <1>9, <1>10, <1>11
  DEF Next, Call, AppStep, CallbackStep, WaiterStep

\* All that is known of presenting.
Presenting ==
  /\ Orderly /\ Lifetimes /\ Acquisitions /\ FramesEndInOrder
  /\ CallsAreBounded /\ ChainIsBounded /\ BlitsAreCounted /\ WaiterIsBounded /\ LatencyIsBounded

\* The latency semaphore holds no more than the frames that are in no other place.
LEMMA LatencyWithin ==
  ASSUME Presenting, ~LowLatency
  PROVE  latency \in 0..FrameLatency /\ wait_counts \in 0..MaxPresents
<1> USE SwapchainAssumption DEF Presenting
<1>0. /\ user_count \in Nat /\ present_count \in Nat /\ wait_counts \in Nat /\ latency \in Nat
      /\ Len(wait_queue) \in Nat /\ supports_present_wait \in BOOLEAN
      /\ FrameLatency \in Nat \ {0} /\ MaxPresents \in Nat
      /\ user_count <= MaxPresents /\ present_count <= user_count
  BY DEF Orderly, Types, CallsAreBounded, FramesEndInOrder
<1>1. CASE ~supports_present_wait
  BY <1>0, <1>1 DEF LatencyIsBounded
<1>2. CASE supports_present_wait
  <2>1. wait_counts <= 1 /\ (app # "latency" => wait_counts = 0)
    BY <1>2 DEF Orderly, ThrottledByWaiter, LatencyIsBounded
  <2>2. CASE app \in {"join", "gone"}
    <3>1. Len(wait_queue) # 0
      BY <2>2 DEF LatencyIsBounded, Orderly, Types
    <3>2. latency - wait_counts + Len(wait_queue) + user_count = FrameLatency + present_count
      BY <1>2, <2>2 DEF LatencyIsBounded
    <3> QED
      BY <1>0, <2>1, <2>2, <3>1, <3>2
  <2>3. CASE app \notin {"join", "gone"}
    <3>1. latency - wait_counts + Len(wait_queue) + user_count = FrameLatency - 1 + present_count
      BY <1>2, <2>3 DEF Orderly, ThrottledByWaiter
    <3>2. latency \in 0..FrameLatency
      BY <1>0, <2>1, <3>1
    <3>3. wait_counts <= MaxPresents
      <4>1. CASE MaxPresents = 0
        BY <1>0, <2>1, <4>1 DEF LatencyIsBounded
      <4>2. CASE MaxPresents # 0
        BY <1>0, <2>1, <4>2
      <4> QED
        BY <4>1, <4>2
    <3> QED
      BY <1>0, <3>2, <3>3
  <2> QED
    BY <2>2, <2>3
<1> QED
  BY <1>0, <1>1, <1>2

\* Every variable has its type and every counter stays within its bounds, in particular
\* the latency semaphore within FrameLatency; except in low latency mode, in which the
\* semaphore is not always waited for.
THEOREM TypeCorrect ==
  ASSUME ~LowLatency
  PROVE  Spec => []TypeOK
<1> USE SwapchainAssumption
<1>1. Init => Presenting
  <2>1. Init => FramesEndInOrder
    BY DEF Init, FramesEndInOrder, EndsNumbered, EndsIn, BlitsAreFrom, BlitsIn, BlitsAreEnded
  <2> QED
    BY <2>1, OrderlyInit, LifetimesInit, AcquisitionsInit, BoundsInit DEF Presenting
<1>2. Presenting /\ [Next]_vars => Presenting'
  <2> SUFFICES ASSUME Presenting, [Next]_vars PROVE Presenting'
    OBVIOUS
  <2>1. /\ Orderly /\ Lifetimes /\ Acquisitions /\ FramesEndInOrder
        /\ CallsAreBounded /\ ChainIsBounded /\ BlitsAreCounted /\ WaiterIsBounded
        /\ LatencyIsBounded /\ AcquireTypes
    BY DEF Presenting, Acquisitions
  <2>2. Orderly' /\ Lifetimes' /\ Acquisitions' /\ FramesEndInOrder'
    BY <2>1, OrderlyStep, LifetimesStep, AcquisitionsStep, FramesStep
  <2>3. CallsAreBounded' /\ ChainIsBounded' /\ BlitsAreCounted'
    BY <2>1, CallsStep, ChainStep, BlitsStep
  <2>4. WaiterIsBounded' /\ LatencyIsBounded'
    BY <2>1, WaiterStays, LatencyStep
  <2> QED
    BY <2>2, <2>3, <2>4 DEF Presenting
<1>3. Presenting => TypeOK
  <2> SUFFICES ASSUME Presenting PROVE TypeOK
    OBVIOUS
  <2>1. /\ Types /\ PresentTypes /\ AcquireTypes
        /\ CallsAreBounded /\ ChainIsBounded /\ BlitsAreCounted /\ WaiterIsBounded
    BY DEF Presenting, Orderly, Lifetimes, Acquisitions
  <2>2. present_count \in 0..MaxPresents /\ complete \in 0..user_count
        /\ user_count \in 0..MaxPresents
    BY <2>1 DEF Presenting, FramesEndInOrder, Types, AcquireTypes, CallsAreBounded
  <2>3. blit_done \in 0..blit_count
    BY <2>1 DEF Presenting, Acquisitions, SemaphoresAreKnown, AcquireTypes
  <2>4. {user_images, user_views} \subseteq 0..MaxEvents
    BY <2>1 DEF CallsAreBounded
  <2>5. present_id \in 0..MaxPresents
    <3>1. present_id = present_count + 1 => present_count < user_count
      BY <2>1 DEF Presenting, Orderly, CallbackInOrder, ChainIsBounded
    <3>2. present_id \in Nat /\ user_count \in Nat /\ present_count \in Nat
      BY <2>1 DEF Types
    <3>3. present_id <= present_count \/ present_id = present_count + 1
      BY <2>1, <3>2 DEF ChainIsBounded
    <3> QED
      BY <2>2, <3>1, <3>2, <3>3
  <2>6. swapchain \in [id : 0..created, mode : Modes \cup {NoMode}]
    BY <2>1 DEF Types, ChainIsBounded
  <2>7. /\ callback.at \in Places /\ callback.eager \in BOOLEAN
        /\ callback.retry \in 0..Retries /\ callback.then \in {"idle", "create", "signal"}
    BY <2>1 DEF Types, Callbacks, ChainIsBounded
  <2>8. latency \in 0..FrameLatency /\ wait_counts \in 0..MaxPresents
    BY LatencyWithin
  <2>9. /\ supports_present_wait \in BOOLEAN /\ maintenance1 \in BOOLEAN
        /\ done_event \in BOOLEAN /\ outstanding \in BOOLEAN
        /\ force \in BOOLEAN /\ surface_lost \in BOOLEAN /\ present_id_valid \in BOOLEAN
        /\ skip_waits \in BOOLEAN
    BY <2>1 DEF Types, ChainIsBounded, WaiterIsBounded
  <2>10. /\ created \in Nat /\ image \in Images \cup {NoImage} /\ semaphore_index \in Slots
         /\ signalled \in [Slots -> BOOLEAN] /\ fence_index \in Slots /\ blit_count \in Nat
         /\ acquired \subseteq Slots
    BY <2>1 DEF Types, PresentTypes, AcquireTypes
  <2>11. /\ consumed_at \in [Slots -> 0..blit_count] /\ fences \in [Slots -> 0..blit_count]
         /\ blit_timelines \in [Images -> 0..blit_count]
    BY <2>1 DEF BlitsAreCounted
  <2>12. /\ app \in {"idle", "latency", "event", "resize", "drain_queue", "drain_gpu", "join",
                     "gone"}
         /\ request_ring \in [Slots -> [count : 0..MaxPresents, mode : Modes \cup {NoMode}]]
         /\ request \in [count : 0..MaxPresents, mode : Modes \cup {NoMode}]
         /\ events \in 0..MaxEvents
    BY <2>1 DEF CallsAreBounded
  <2>13. /\ waiter.at \in {"look", "skip?", "present", "complete", "release", "ended"}
         /\ waiter.swapchain \in 0..created
    BY <2>1 DEF WaiterIsBounded
  <2> QED
    BY <2>2, <2>3, <2>4, <2>5, <2>6, <2>7, <2>8, <2>9, <2>10, <2>11, <2>12, <2>13
    DEF TypeOK, Places
<1> QED
  BY <1>1, <1>2, <1>3, PTL DEF Spec

-----------------------------------------------------------------------------
(***************************************************************************)
(* No call is stuck: when nobody else can go on, the GPU and the display   *)
(* are done, so the callback is, so the waiter is, so the application can. *)
(***************************************************************************)

\* Somewhere in a queue is a wait, or the end of a frame, of this number.
WaitIn(q, n) == \E k \in WaitsIn(q) : q[k].value = n
EndIn(q, n) == \E k \in EndsIn(q) : q[k].value = n

\* What the GPU has not done is in its queue, up to the last that was counted.
WorkIsQueued ==
  /\ blit_done < blit_count => WaitIn(vk_queue, blit_count)
  /\ complete < present_count => EndIn(vk_queue, present_count)

\* No submission waits for an acquire semaphore that will not be signalled.
WaitsAreSignalled == \A k \in WaitsIn(vk_queue) : vk_queue[k].semaphore \in acquired

\* No present waits for a blit, and no frame for an end, that was not submitted.
PresentsAreBlitted == \A i \in DOMAIN presents : presents[i].blit <= blit_count
FramesAreEnded == \A i \in DOMAIN wait_queue : wait_queue[i].count <= present_count

\* With present wait every frame is in one place, as ThrottledByWaiter has it, in low
\* latency mode too.
FramesAreSomewhere ==
  /\ app = "latency" => supports_present_wait
  /\ supports_present_wait /\ app \notin {"join", "gone"} =>
       latency - wait_counts + Len(wait_queue) + user_count = FrameLatency - 1 + present_count

\* The waiter finds the sentinel, and has no sentinel in hand.
WaiterIsTold ==
  /\ waiter.at \notin {"look", "ended"} => Head(wait_queue).count # 0
  /\ app \in {"join", "gone"} => wait_queue # <<>> /\ wait_queue[Len(wait_queue)].count = 0

\* When every callback has ended, the event that the application waits for is signalled.
EventIsSignalled ==
  app = "event" \/ outstanding =>
    /\ ~supports_present_wait
    /\ callback.at = "idle" /\ user_count = present_count => done_event

\* The inductive invariant, on top of the others.
Progress ==
  /\ WorkIsQueued /\ WaitsAreSignalled /\ PresentsAreBlitted /\ FramesAreEnded
  /\ FramesAreSomewhere /\ WaiterIsTold /\ EventIsSignalled

\* A queue with one more submission has what it had, and that.
LEMMA SubmitKeepsWork ==
  ASSUME NEW q \in Seq(Submission), NEW e \in Submission, NEW n
  PROVE  /\ WaitIn(q, n) => WaitIn(Append(q, e), n)
         /\ EndIn(q, n) => EndIn(Append(q, e), n)
         /\ e.op # "complete" /\ e.value = n => WaitIn(Append(q, e), n)
         /\ e.op = "complete" /\ e.value = n => EndIn(Append(q, e), n)
<1> DEFINE r == Append(q, e)
           m == Len(q) + 1
<1>1. /\ DOMAIN r = DOMAIN q \cup {m}
      /\ \A k \in DOMAIN q : r[k] = q[k]
      /\ r[m] = e
  BY SubmitFacts
<1> HIDE DEF r, m
<1>2. /\ WaitsIn(q) \subseteq WaitsIn(r) /\ EndsIn(q) \subseteq EndsIn(r)
      /\ \A k \in WaitsIn(q) \cup EndsIn(q) : r[k] = q[k]
  BY <1>1 DEF WaitsIn, EndsIn
<1>3. (e.op # "complete" => m \in WaitsIn(r)) /\ (e.op = "complete" => m \in EndsIn(r))
  BY <1>1 DEF WaitsIn, EndsIn
<1>4. (WaitIn(q, n) => WaitIn(r, n)) /\ (EndIn(q, n) => EndIn(r, n))
  BY <1>2 DEF WaitIn, EndIn
<1>5. /\ e.op # "complete" /\ e.value = n => WaitIn(r, n)
      /\ e.op = "complete" /\ e.value = n => EndIn(r, n)
  BY <1>1, <1>3 DEF WaitIn, EndIn
<1> QED
  BY <1>4, <1>5 DEF r

\* A queue whose first submission is executed has what it had, but that.
LEMMA ExecuteKeepsWork ==
  ASSUME NEW q \in Seq(Submission), q # <<>>, NEW n
  PROVE  /\ Head(q) \in Submission
         /\ WaitIn(q, n) /\ (Head(q).op = "complete" \/ Head(q).value # n) => WaitIn(Tail(q), n)
         /\ EndIn(q, n) /\ (Head(q).op # "complete" \/ Head(q).value # n) => EndIn(Tail(q), n)
<1> DEFINE t == Tail(q)
<1>1. /\ Head(q) = q[1] /\ t \in Seq(Submission) /\ Len(t) = Len(q) - 1 /\ Len(q) \in Nat \ {0}
      /\ \A k \in 1..(Len(q) - 1) : t[k] = q[k + 1]
  OBVIOUS
<1>2. DOMAIN t = 1..(Len(q) - 1) /\ DOMAIN q = 1..Len(q)
  BY <1>1
<1>3. Head(q) \in Submission
  BY <1>1, <1>2
<1> HIDE DEF t
<1>4. \A k \in DOMAIN q : k # 1 => k - 1 \in DOMAIN t /\ t[k - 1] = q[k]
  <2> TAKE k \in DOMAIN q
  <2> HAVE k # 1
  <2>1. k - 1 \in 1..(Len(q) - 1) /\ (k - 1) + 1 = k
    BY <1>1, <1>2
  <2> QED
    BY <1>1, <1>2, <2>1
<1>5. ASSUME WaitIn(q, n), Head(q).op = "complete" \/ Head(q).value # n PROVE WaitIn(t, n)
  <2>1. PICK k \in WaitsIn(q) : q[k].value = n
    BY <1>5 DEF WaitIn
  <2>2. k \in DOMAIN q /\ q[k].op # "complete" /\ k # 1
    BY <1>1, <1>5, <2>1 DEF WaitsIn
  <2>3. k - 1 \in WaitsIn(t) /\ t[k - 1].value = n
    BY <1>4, <2>1, <2>2 DEF WaitsIn
  <2> QED
    BY <2>3 DEF WaitIn
<1>6. ASSUME EndIn(q, n), Head(q).op # "complete" \/ Head(q).value # n PROVE EndIn(t, n)
  <2>1. PICK k \in EndsIn(q) : q[k].value = n
    BY <1>6 DEF EndIn
  <2>2. k \in DOMAIN q /\ q[k].op = "complete" /\ k # 1
    BY <1>1, <1>6, <2>1 DEF EndsIn
  <2>3. k - 1 \in EndsIn(t) /\ t[k - 1].value = n
    BY <1>4, <2>1, <2>2 DEF EndsIn
  <2> QED
    BY <2>3 DEF EndIn
<1> QED
  BY <1>3, <1>5, <1>6 DEF t

\* A queue to which submissions are added has what it had, and the last of them.
LEMMA JoinKeepsWork ==
  ASSUME NEW q \in Seq(Submission), NEW w \in Seq(Submission), NEW n,
         \A k \in 1..Len(w) : w[k].op # "complete"
  PROVE  /\ WaitIn(q, n) => WaitIn(q \o w, n)
         /\ EndIn(q, n) => EndIn(q \o w, n)
         /\ Len(w) # 0 /\ w[Len(w)].value = n => WaitIn(q \o w, n)
         /\ Len(w) = 0 => q \o w = q
<1> DEFINE r == q \o w
           l == Len(q)
           m == Len(w)
<1>1. r \in Seq(Submission) /\ Len(r) = l + m /\ l \in Nat /\ m \in Nat
  OBVIOUS
<1>2. DOMAIN r = 1..(l + m) /\ DOMAIN q = 1..l
  BY <1>1
<1>3. \A k \in 1..(l + m) : r[k] = IF k <= l THEN q[k] ELSE w[k - l]
  OBVIOUS
<1>4. m = 0 => r = q
  OBVIOUS
<1>5. \A k \in 1..m : w[k].op # "complete"
  OBVIOUS
<1> HIDE DEF r, l, m
<1>6. \A k \in 1..l : k \in 1..(l + m) /\ k <= l
  BY <1>1
<1>7. \A k \in DOMAIN q : k \in DOMAIN r /\ r[k] = q[k]
  BY <1>2, <1>3, <1>6
<1>8. (WaitIn(q, n) => WaitIn(r, n)) /\ (EndIn(q, n) => EndIn(r, n))
  BY <1>7 DEF WaitIn, EndIn, WaitsIn, EndsIn
<1>9. ASSUME m # 0, w[m].value = n PROVE WaitIn(r, n)
  <2>1. l + m \in 1..(l + m) /\ ~(l + m <= l) /\ (l + m) - l = m /\ m \in 1..m
    BY <1>1, <1>9
  <2>2. r[l + m] = w[m]
    BY <1>3, <2>1
  <2>3. l + m \in WaitsIn(r)
    BY <1>2, <1>5, <2>1, <2>2 DEF WaitsIn
  <2> QED
    BY <1>9, <2>2, <2>3 DEF WaitIn
<1> QED
  BY <1>4, <1>8, <1>9 DEF r, m

\* A semaphore that is waited for without a blit: the wait is in the queue.
LEMMA EnsureKeepsWork ==
  ASSUME AcquireTypes, NEW i \in Slots, ensure_unsignaled(i), WorkIsQueued,
         UNCHANGED <<blit_done, complete, present_count>>
  PROVE  WorkIsQueued'
<1>1. CASE signalled[i]
  <2> DEFINE e == WaitSubmission(i, blit_count + 1)
  <2>1. /\ e \in Submission /\ e.op = "wait" /\ e.value = blit_count'
        /\ vk_queue' = Append(vk_queue, e)
    BY <1>1 DEF WaitSubmission, Submission, AcquireTypes, ensure_unsignaled
  <2> HIDE DEF e
  <2>2. vk_queue \in Seq(Submission) /\ e.op # "complete"
    BY <2>1 DEF AcquireTypes
  <2>3. /\ WaitIn(vk_queue', blit_count')
        /\ EndIn(vk_queue, present_count) => EndIn(vk_queue', present_count)
    BY <2>1, <2>2, SubmitKeepsWork
  <2> QED
    BY <2>3 DEF WorkIsQueued
<1>2. CASE ~signalled[i]
  <2>1. UNCHANGED <<vk_queue, blit_count>>
    BY <1>2 DEF ensure_unsignaled
  <2> QED
    BY <2>1 DEF WorkIsQueued
<1> QED
  BY <1>1, <1>2

\* What is submitted is counted, and what is executed is in order.
LEMMA WorkStep ==
  ASSUME Orderly, Acquisitions, FramesEndInOrder, WorkIsQueued, [Next]_vars
  PROVE  WorkIsQueued'
<1> USE SwapchainAssumption
<1>0. /\ AcquireTypes /\ present_count \in Nat /\ complete \in Nat /\ blit_done \in Nat
      /\ blit_count \in Nat /\ semaphore_index \in Slots
      /\ vk_queue \in Seq(Submission)
  BY DEF Orderly, Types, Acquisitions, AcquireTypes
<1>1. CASE \/ \E mode \in Modes : Present(mode)
           \/ WaitInternalHandle \/ WaitDoneEvent \/ ChangeProperties \/ Release
           \/ ReallocateUserBuffers \/ DrainGpu \/ Cleanup
  <2>1. UNCHANGED <<vk_queue, blit_done, blit_count, complete, present_count>>
    BY <1>1 DEF Present, WaitInternalHandle, WaitDoneEvent, ChangeProperties, Release,
       ReallocateUserBuffers, DrainGpu, Cleanup, blitting, gpu
  <2> QED
    BY <2>1 DEF WorkIsQueued
<1>2. CASE \/ TakeRequest \/ Destroy \/ DrainWaiter \/ Create \/ AcquireNextImage
           \/ QueuePresentKHR \/ SignalDoneEvent
  <2>1. UNCHANGED <<vk_queue, blit_done, blit_count, complete, present_count>>
    BY <1>2 DEF TakeRequest, Destroy, DrainWaiter, Create, AcquireNextImage, QueuePresentKHR,
       SignalDoneEvent, blitting, gpu
  <2> QED
    BY <2>1 DEF WorkIsQueued
<1>3. CASE Show \/ Look \/ CheckSkipWaits \/ Wait \/ ReleaseFrame \/ UNCHANGED vars
  <2>1. UNCHANGED <<vk_queue, blit_done, blit_count, complete, present_count>>
    BY <1>3 DEF Show, Look, CheckSkipWaits, Wait, ReleaseFrame, blitting, gpu, vars
  <2> QED
    BY <2>1 DEF WorkIsQueued
<1>4. CASE DrainQueue
  <2> DEFINE lingering == {i \in Slots : signalled[i]}
             n == Cardinality(lingering)
  <2>1. PICK order \in [1..n -> lingering] :
          vk_queue' = vk_queue \o [k \in DOMAIN order |-> WaitSubmission(order[k], blit_count + k)]
    BY <1>4 DEF DrainQueue
  <2>2. UNCHANGED <<blit_done, complete, present_count>> /\ blit_count' = blit_count + n
    BY <1>4 DEF DrainQueue
  <2>3. n \in Nat
    <3>1. IsFiniteSet(Slots)
      BY FS_Interval DEF Slots
    <3> QED
      BY <3>1, FS_Subset, FS_CardinalityType
  <2> DEFINE w == [k \in DOMAIN order |-> WaitSubmission(order[k], blit_count + k)]
  <2>4. order \in [1..n -> Slots]
    BY <2>1
  <2> HIDE DEF n
  <2>5. \A k \in 1..n : /\ w[k].op # "complete" /\ w[k].value = blit_count + k
                        /\ w[k] \in Submission
    BY <1>0, <2>4 DEF WaitSubmission, Submission
  <2>6. w \in Seq(Submission) /\ Len(w) = n
    <3>1. w \in [1..n -> Submission]
      BY <2>4, <2>5
    <3> HIDE DEF w
    <3> QED
      BY <2>3, <3>1
  <2> HIDE DEF w
  <2>7. vk_queue' = vk_queue \o w
    BY <2>1 DEF w
  <2>8. n # 0 => w[Len(w)].value = blit_count'
    BY <2>2, <2>3, <2>5, <2>6
  <2>9. /\ n # 0 => WaitIn(vk_queue', blit_count')
        /\ n = 0 => vk_queue' = vk_queue
        /\ EndIn(vk_queue, present_count) => EndIn(vk_queue', present_count)
    BY <1>0, <2>5, <2>6, <2>7, <2>8, JoinKeepsWork
  <2> QED
    BY <1>0, <2>2, <2>9 DEF WorkIsQueued
<1>5. CASE TryAcquire \/ Reclaim
  <2>1. /\ UNCHANGED <<blit_done, complete, present_count>>
        /\ UNCHANGED <<vk_queue, blit_count>> \/ ensure_unsignaled(semaphore_index)
    BY <1>5 DEF TryAcquire, Reclaim
  <2>2. CASE UNCHANGED <<vk_queue, blit_count>>
    BY <2>1, <2>2 DEF WorkIsQueued
  <2>3. CASE ensure_unsignaled(semaphore_index)
    BY <1>0, <2>1, <2>3, EnsureKeepsWork
  <2> QED
    BY <2>1, <2>2, <2>3
<1>6. CASE SubmitBlit
  <2> DEFINE e == [op |-> "blit", semaphore |-> semaphore_index,
                   value |-> blit_count + 1, from |-> user_images,
                   view |-> user_views]
  <2>1. /\ UNCHANGED <<blit_done, complete, present_count>>
        /\ blit_count' = blit_count + 1 /\ vk_queue' = Append(vk_queue, e)
    BY <1>6 DEF SubmitBlit
  <2>2. e \in Submission /\ e.op # "complete" /\ e.value = blit_count'
    BY <1>0, <2>1 DEF Submission, AcquireTypes
  <2> HIDE DEF e
  <2>3. /\ WaitIn(vk_queue', blit_count')
        /\ EndIn(vk_queue, present_count) => EndIn(vk_queue', present_count)
    BY <1>0, <2>1, <2>2, SubmitKeepsWork
  <2> QED
    BY <2>1, <2>3 DEF WorkIsQueued
<1>7. CASE FinishPresent
  <2> DEFINE e == [op |-> "complete", value |-> present_count + 1]
  <2>1. /\ UNCHANGED <<blit_done, blit_count, complete>>
        /\ present_count' = present_count + 1 /\ vk_queue' = Append(vk_queue, e)
    BY <1>7 DEF FinishPresent, blitting
  <2>2. e \in Submission /\ e.op = "complete" /\ e.value = present_count'
    BY <1>0, <2>1 DEF Submission
  <2> HIDE DEF e
  <2>3. /\ EndIn(vk_queue', present_count')
        /\ WaitIn(vk_queue, blit_count) => WaitIn(vk_queue', blit_count)
    BY <1>0, <2>1, <2>2, SubmitKeepsWork
  <2> QED
    BY <2>1, <2>3 DEF WorkIsQueued
<1>8. CASE Execute
  <2> DEFINE e == Head(vk_queue)
  <2>1. /\ UNCHANGED <<blit_count, present_count>>
        /\ vk_queue # <<>> /\ vk_queue' = Tail(vk_queue)
        /\ e.op = "complete" => complete' = e.value /\ UNCHANGED blit_done
        /\ e.op # "complete" => blit_done' = e.value /\ UNCHANGED complete
    BY <1>8 DEF Execute, blitting
  <2>2. /\ e \in Submission
        /\ WaitIn(vk_queue, blit_count) /\ (e.op = "complete" \/ e.value # blit_count)
             => WaitIn(vk_queue', blit_count)
        /\ EndIn(vk_queue, present_count) /\ (e.op # "complete" \/ e.value # present_count)
             => EndIn(vk_queue', present_count)
    BY <1>0, <2>1, ExecuteKeepsWork
  <2>3. e.op # "complete" => blit_done < e.value /\ e.value <= blit_count
    <3>1. e.op # "complete" => 1 \in WaitsIn(vk_queue) /\ vk_queue[1] = e
      BY <1>0, <2>1 DEF WaitsIn
    <3> QED
      BY <3>1 DEF Acquisitions, SemaphoresAreKnown, Numbered
  <2>4. e.op = "complete" => complete < e.value /\ e.value <= present_count
    <3>1. e.op = "complete" => 1 \in EndsIn(vk_queue) /\ vk_queue[1] = e
      BY <1>0, <2>1 DEF EndsIn
    <3> QED
      BY <3>1 DEF FramesEndInOrder, EndsNumbered
  <2>5. e.value \in Nat
    BY <2>2, SubmissionFacts
  <2> HIDE DEF e
  <2>6. CASE e.op = "complete"
    <3>1. complete' < present_count => complete < present_count /\ e.value # present_count
      BY <1>0, <2>1, <2>4, <2>5, <2>6
    <3> QED
      BY <2>1, <2>2, <2>6, <3>1 DEF WorkIsQueued
  <2>7. CASE e.op # "complete"
    <3>1. blit_done' < blit_count => blit_done < blit_count /\ e.value # blit_count
      BY <1>0, <2>1, <2>3, <2>5, <2>7
    <3> QED
      BY <2>1, <2>2, <2>7, <3>1 DEF WorkIsQueued
  <2> QED
    BY <2>6, <2>7
<1> QED
  BY <1>1, <1>2, <1>3, <1>4, <1>5, <1>6, <1>7, <1>8
  DEF Next, Call, AppStep, CallbackStep, WaiterStep

\* Until the Release submits the last waits, the flags say what is signalled.
LEMMA WaitsSignalledBefore ==
  ASSUME Acquisitions, app \notin Leaving
  PROVE  WaitsAreSignalled
<1> SUFFICES ASSUME NEW k \in WaitsIn(vk_queue) PROVE vk_queue[k].semaphore \in acquired
  BY DEF WaitsAreSignalled
<1>1. vk_queue[k] \in Submission /\ vk_queue[k].op # "complete"
  BY DEF WaitsIn, Acquisitions, AcquireTypes
<1>2. vk_queue[k].semaphore \in Slots
  BY <1>1, SubmissionFacts
<1>3. k \in WaitsFor(vk_queue, vk_queue[k].semaphore)
  BY DEF WaitsFor
<1> QED
  BY <1>2, <1>3 DEF Acquisitions, SemaphoresAreKnown

\* After that nobody acquires, and each semaphore is waited for once.
LEMMA WaitsSignalledStep ==
  ASSUME Orderly, Lifetimes, Acquisitions, WaitsAreSignalled, [Next]_vars
  PROVE  WaitsAreSignalled'
<1> USE SwapchainAssumption
<1>0. /\ Acquisitions' /\ vk_queue \in Seq(Submission)
  BY AcquisitionsStep DEF Acquisitions, AcquireTypes
<1>1. CASE app' \notin Leaving
  <2>1. (Acquisitions /\ app \notin Leaving => WaitsAreSignalled)'
    BY WaitsSignalledBefore, PTL
  <2> QED
    BY <1>0, <1>1, <2>1
<1>2. CASE app \in Leaving
  <2>1. callback.at = "idle" /\ present_count = user_count
    BY <1>2 DEF Orderly, CaughtUp, Leaving
  <2>2. user_count \in Nat
    BY DEF Orderly, Types
  <2>3. CASE Execute
    <3>1. /\ vk_queue # <<>> /\ vk_queue' = Tail(vk_queue)
          /\ Head(vk_queue).op # "complete" => acquired' = acquired \ {Head(vk_queue).semaphore}
          /\ Head(vk_queue).op = "complete" => acquired' = acquired
      BY <2>3 DEF Execute
    <3> SUFFICES ASSUME NEW k \in WaitsIn(vk_queue') PROVE vk_queue'[k].semaphore \in acquired'
      BY DEF WaitsAreSignalled
    <3>2. k \in DOMAIN vk_queue' /\ vk_queue'[k].op # "complete"
      BY DEF WaitsIn
    <3>3. k \in Nat \ {0} /\ k + 1 \in DOMAIN vk_queue /\ vk_queue'[k] = vk_queue[k + 1]
      BY <1>0, <3>1, <3>2, TailFacts
    <3>4. k + 1 \in WaitsIn(vk_queue) /\ k + 1 # 1
      BY <3>2, <3>3 DEF WaitsIn
    <3>5. vk_queue'[k].semaphore \in acquired
      BY <3>3, <3>4 DEF WaitsAreSignalled
    <3>6. CASE Head(vk_queue).op # "complete"
      <4>1. 1 \in WaitsIn(vk_queue) /\ vk_queue[1] = Head(vk_queue)
        BY <1>0, <3>1, <3>6 DEF WaitsIn
      <4>2. vk_queue[k + 1].semaphore # Head(vk_queue).semaphore
        BY <3>4, <4>1 DEF Acquisitions, SemaphoresAreKnown, OneWaitEach
      <4> QED
        BY <3>1, <3>3, <3>5, <3>6, <4>2
    <3> QED
      BY <3>1, <3>5, <3>6
  <2>4. CASE UNCHANGED <<vk_queue, acquired>>
    BY <2>4 DEF WaitsAreSignalled
  <2>5. CASE Call \/ AppStep
    <3>1. CASE \/ \E mode \in Modes : Present(mode)
               \/ WaitInternalHandle \/ WaitDoneEvent \/ ChangeProperties \/ Release
               \/ ReallocateUserBuffers \/ DrainQueue
      BY <1>2, <3>1 DEF Present, WaitInternalHandle, WaitDoneEvent, ChangeProperties, Release,
         ReallocateUserBuffers, DrainQueue, Leaving
    <3>2. CASE DrainGpu \/ Cleanup
      BY <2>4, <3>2 DEF DrainGpu, Cleanup, gpu, display
    <3> QED
      BY <2>5, <3>1, <3>2 DEF Call, AppStep
  <2>6. CASE CallbackStep
    <3>1. ~TakeRequest
      BY <2>1, <2>2 DEF TakeRequest
    <3> QED
      BY <2>1, <2>6, <3>1 DEF CallbackStep, Destroy, DrainWaiter, Create, TryAcquire, Reclaim,
         AcquireNextImage, SubmitBlit, QueuePresentKHR, FinishPresent, SignalDoneEvent, At
  <2>7. CASE WaiterStep \/ Show \/ UNCHANGED vars
    BY <2>4, <2>7 DEF WaiterStep, Look, CheckSkipWaits, Wait, ReleaseFrame, Show, gpu, display, vars
  <2> QED
    BY <2>3, <2>5, <2>6, <2>7 DEF Next
<1>3. CASE app \notin Leaving /\ app' \in Leaving
  <2>1. DrainQueue
    <3>1. CASE Call \/ AppStep
      <4>1. CASE \/ \E mode \in Modes : Present(mode)
                 \/ WaitInternalHandle \/ WaitDoneEvent \/ ChangeProperties \/ Release
                 \/ ReallocateUserBuffers
        BY <1>3, <4>1 DEF Present, WaitInternalHandle, WaitDoneEvent, ChangeProperties, Release,
           ReallocateUserBuffers, Leaving
      <4>2. CASE DrainGpu \/ Cleanup
        BY <1>3, <4>2 DEF DrainGpu, Cleanup, Leaving
      <4> QED
        BY <3>1, <4>1, <4>2 DEF Call, AppStep
    <3>2. CASE CallbackStep
      BY <1>3, <3>2 DEF CallbackStep, TakeRequest, Destroy, DrainWaiter, Create, TryAcquire, Reclaim,
         AcquireNextImage, SubmitBlit, QueuePresentKHR, FinishPresent, SignalDoneEvent
    <3>3. CASE WaiterStep \/ Execute \/ Show \/ UNCHANGED vars
      BY <1>3, <3>3 DEF WaiterStep, Look, CheckSkipWaits, Wait, ReleaseFrame, Execute, Show, vars
    <3> QED
      BY <3>1, <3>2, <3>3 DEF Next
  <2> DEFINE lingering == {i \in Slots : signalled[i]}
             n == Cardinality(lingering)
  <2>2. PICK order \in [1..n -> lingering] :
          vk_queue' = vk_queue \o [k \in DOMAIN order |-> WaitSubmission(order[k], blit_count + k)]
    BY <2>1 DEF DrainQueue
  <2>3. acquired' = acquired
    BY <2>1 DEF DrainQueue, display
  <2>4. n \in Nat
    <3>1. IsFiniteSet(Slots)
      BY FS_Interval DEF Slots
    <3> QED
      BY <3>1, FS_Subset, FS_CardinalityType
  <2>5. \A k \in 1..n : order[k] \in Slots /\ order[k] \in acquired
    <3>1. \A k \in 1..n : order[k] \in Slots /\ signalled[order[k]]
      BY <2>2
    <3> QED
      BY <1>3, <3>1 DEF Acquisitions, SemaphoresAreKnown
  <2> DEFINE w == [k \in DOMAIN order |-> WaitSubmission(order[k], blit_count + k)]
  <2>6. DOMAIN order = 1..n
    BY <2>2
  <2> HIDE DEF n
  <2>7. \A k \in 1..n : w[k] \in Submission /\ w[k].semaphore \in acquired
    BY <2>5, <2>6 DEF WaitSubmission, Submission, Acquisitions, AcquireTypes
  <2>8. w \in Seq(Submission) /\ Len(w) = n
    <3>1. w \in [1..n -> Submission]
      BY <2>6, <2>7
    <3> HIDE DEF w
    <3> QED
      BY <2>4, <3>1
  <2> HIDE DEF w
  <2>9. vk_queue' = vk_queue \o w
    BY <2>2 DEF w
  <2>10. WaitsAreSignalled
    BY <1>3, WaitsSignalledBefore
  <2> SUFFICES ASSUME NEW k \in WaitsIn(vk_queue') PROVE vk_queue'[k].semaphore \in acquired
    BY <2>3 DEF WaitsAreSignalled
  <2> DEFINE l == Len(vk_queue)
  <2>11. /\ l \in Nat /\ DOMAIN vk_queue = 1..l /\ k \in 1..(l + n)
         /\ vk_queue'[k] = IF k <= l THEN vk_queue[k] ELSE w[k - l]
    BY <1>0, <2>4, <2>8, <2>9 DEF WaitsIn
  <2>12. vk_queue'[k].op # "complete"
    BY DEF WaitsIn
  <2> HIDE DEF l
  <2>13. CASE k <= l
    <3>1. k \in WaitsIn(vk_queue) /\ vk_queue'[k] = vk_queue[k]
      BY <2>11, <2>12, <2>13 DEF WaitsIn
    <3> QED
      BY <2>10, <3>1 DEF WaitsAreSignalled
  <2>14. CASE ~(k <= l)
    <3>1. k - l \in 1..n /\ vk_queue'[k] = w[k - l]
      BY <2>4, <2>11, <2>14
    <3> QED
      BY <2>7, <3>1
  <2> QED
    BY <2>13, <2>14
<1> QED
  BY <1>1, <1>2, <1>3

\* No present is queued, and no frame is handed to the waiter, before its blit and its end.
LEMMA PresentsStep ==
  ASSUME Orderly, Lifetimes, Acquisitions, PresentsAreBlitted, FramesAreEnded, [Next]_vars
  PROVE  PresentsAreBlitted' /\ FramesAreEnded'
<1> USE SwapchainAssumption
<1> DEFINE Frame == [count : Nat, id : Nat, swapchain : Nat]
<1>0. /\ presents \in Seq(Presented) /\ blit_count \in Nat /\ present_count \in Nat
      /\ wait_queue \in Seq(Frame) /\ swapchain.id \in Nat /\ present_id \in Nat
      /\ image \in Images \cup {NoImage}
  BY DEF Lifetimes, PresentTypes, Orderly, Types
<1>1. ASSUME UNCHANGED <<presents, wait_queue, present_count>>, blit_count <= blit_count'
      PROVE  PresentsAreBlitted' /\ FramesAreEnded'
  <2>1. \A i \in DOMAIN presents : presents[i].blit \in Nat
    <3>1. \A i \in DOMAIN presents : presents[i] \in Presented
      BY <1>0
    <3>2. \A p \in Presented : p.blit \in Nat
      BY DEF Presented
    <3> QED
      BY <3>1, <3>2
  <2>2. blit_count' \in Nat
    BY AcquisitionsStep DEF Acquisitions, AcquireTypes
  <2>3. PresentsAreBlitted'
    BY <1>0, <1>1, <2>1, <2>2 DEF PresentsAreBlitted
  <2>4. FramesAreEnded'
    BY <1>1 DEF FramesAreEnded
  <2> QED
    BY <2>3, <2>4
<1>2. CASE \/ \E mode \in Modes : Present(mode)
           \/ WaitInternalHandle \/ WaitDoneEvent \/ ChangeProperties \/ Release
           \/ ReallocateUserBuffers \/ Cleanup
  <2>1. UNCHANGED <<presents, wait_queue, present_count, blit_count>>
    BY <1>2 DEF Present, WaitInternalHandle, WaitDoneEvent, ChangeProperties, Release,
       ReallocateUserBuffers, Cleanup, blitting, display, waiting
  <2> QED
    BY <1>0, <1>1, <2>1
<1>3. CASE DrainQueue
  <2> DEFINE n == Cardinality({i \in Slots : signalled[i]})
  <2>1. UNCHANGED <<presents, wait_queue, present_count>> /\ blit_count' = blit_count + n
    BY <1>3 DEF DrainQueue, display, waiting
  <2>2. n \in Nat
    <3>1. IsFiniteSet(Slots)
      BY FS_Interval DEF Slots
    <3> QED
      BY <3>1, FS_Subset, FS_CardinalityType
  <2> HIDE DEF n
  <2> QED
    BY <1>0, <1>1, <2>1, <2>2
<1>4. CASE \/ TakeRequest \/ Destroy \/ DrainWaiter \/ Create \/ AcquireNextImage
           \/ SignalDoneEvent
  <2>1. UNCHANGED <<presents, wait_queue, present_count, blit_count>>
    BY <1>4 DEF TakeRequest, Destroy, DrainWaiter, Create, AcquireNextImage, SignalDoneEvent,
       blitting, display, waiting
  <2> QED
    BY <1>0, <1>1, <2>1
<1>5. CASE TryAcquire \/ Reclaim \/ SubmitBlit
  <2>1. /\ UNCHANGED <<presents, wait_queue, present_count>>
        /\ blit_count' \in {blit_count, blit_count + 1}
    BY <1>5 DEF TryAcquire, Reclaim, SubmitBlit, ensure_unsignaled, display, waiting
  <2> QED
    BY <1>0, <1>1, <2>1
<1>6. CASE Execute \/ Look \/ CheckSkipWaits \/ Wait \/ UNCHANGED vars
  <2>1. UNCHANGED <<presents, wait_queue, present_count, blit_count>>
    BY <1>6 DEF Execute, Look, CheckSkipWaits, Wait, blitting, display, waiting, vars
  <2> QED
    BY <1>0, <1>1, <2>1
<1>7. CASE QueuePresentKHR
  <2>1. UNCHANGED <<wait_queue, present_count, blit_count>>
    BY <1>7 DEF QueuePresentKHR, blitting, waiting
  <2>2. CASE presents' = presents
    BY <1>0, <1>1, <2>1, <2>2
  <2>3. CASE presents' # presents
    <3> DEFINE e == [swapchain |-> swapchain.id, image |-> image, blit |-> blit_count,
                     id |-> IF use_present_id THEN next_present_id ELSE 0]
    <3>1. presents' = Append(presents, e)
      BY <1>7, <2>3 DEF QueuePresentKHR
    <3>2. next_present_id \in Nat
      BY <1>0 DEF next_present_id
    <3>3. e \in Presented /\ e.blit = blit_count
      BY <1>0, <3>2 DEF Presented
    <3> HIDE DEF e
    <3>4. \A i \in DOMAIN presents' : i \in DOMAIN presents \/ i = Len(presents) + 1
      BY <1>0, <3>1, <3>3
    <3>5. presents'[Len(presents) + 1] = e
      BY <1>0, <3>1, <3>3
    <3>6. \A i \in DOMAIN presents : presents'[i] = presents[i]
      BY <1>0, <3>1, <3>3
    <3>7. blit_count <= blit_count
      BY <1>0
    <3>8. PresentsAreBlitted'
      BY <2>1, <3>3, <3>4, <3>5, <3>6, <3>7 DEF PresentsAreBlitted
    <3> QED
      BY <2>1, <3>8 DEF FramesAreEnded
  <2> QED
    BY <2>2, <2>3
<1>8. CASE Show
  <2>1. /\ UNCHANGED <<wait_queue, present_count, blit_count>>
        /\ presents # <<>> /\ presents' = Tail(presents)
    BY <1>8 DEF Show, blitting, waiting
  <2>2. \A i \in DOMAIN presents' : i + 1 \in DOMAIN presents /\ presents'[i] = presents[i + 1]
    BY <1>0, <2>1, TailFacts
  <2> QED
    BY <2>1, <2>2 DEF PresentsAreBlitted, FramesAreEnded
<1>9. CASE DrainGpu \/ FinishPresent
  <2> DEFINE f == [count |-> 0, id |-> 0, swapchain |-> swapchain.id]
             g == [count |-> present_count + 1,
                   id |-> IF present_id_valid THEN present_id ELSE 0, swapchain |-> swapchain.id]
  <2>1. /\ UNCHANGED <<presents, blit_count>>
        /\ \/ present_count' = present_count /\ wait_queue' = Append(wait_queue, f)
           \/ present_count' = present_count + 1 /\ wait_queue' = Append(wait_queue, g)
    BY <1>9 DEF DrainGpu, FinishPresent, Push, blitting, display
  <2>2. f \in Frame /\ f.count = 0 /\ g \in Frame /\ g.count = present_count + 1
    BY <1>0
  <2> HIDE DEF f, g
  <2>3. PICK e \in Frame : /\ wait_queue' = Append(wait_queue, e)
                           /\ e.count <= present_count'
    BY <1>0, <2>1, <2>2
  <2>4. present_count <= present_count' /\ present_count' \in Nat
    BY <1>0, <2>1
  <2>11. \A p \in Frame : p.count \in Nat
    OBVIOUS
  <2> HIDE DEF Frame
  <2>5. \A i \in DOMAIN wait_queue : wait_queue[i].count \in Nat
    <3>1. \A i \in DOMAIN wait_queue : wait_queue[i] \in Frame
      BY <1>0
    <3> QED
      BY <2>11, <3>1
  <2>6. \A i \in DOMAIN wait_queue' : i \in DOMAIN wait_queue \/ i = Len(wait_queue) + 1
    BY <1>0, <2>3
  <2>7. wait_queue'[Len(wait_queue) + 1] = e
    BY <1>0, <2>3
  <2>8. \A i \in DOMAIN wait_queue : wait_queue'[i] = wait_queue[i]
    BY <1>0, <2>3
  <2>9. \A i \in DOMAIN wait_queue : wait_queue[i].count <= present_count'
    BY <1>0, <2>4, <2>5 DEF FramesAreEnded
  <2>10. FramesAreEnded'
    BY <2>3, <2>6, <2>7, <2>8, <2>9 DEF FramesAreEnded
  <2> QED
    BY <2>1, <2>10 DEF PresentsAreBlitted
<1>10. CASE ReleaseFrame
  <2>1. /\ UNCHANGED <<presents, present_count, blit_count>>
        /\ waiter.at = "release" /\ wait_queue' = Tail(wait_queue)
    BY <1>10 DEF ReleaseFrame, blitting, display
  <2>2. wait_queue # <<>>
    BY <2>1 DEF Orderly, WaiterHasAFrame
  <2>3. \A i \in DOMAIN wait_queue' :
          i + 1 \in DOMAIN wait_queue /\ wait_queue'[i] = wait_queue[i + 1]
    BY <1>0, <2>1, <2>2, TailFacts
  <2> QED
    BY <2>1, <2>3 DEF PresentsAreBlitted, FramesAreEnded
<1> QED
  BY <1>2, <1>3, <1>4, <1>5, <1>6, <1>7, <1>8, <1>9, <1>10
  DEF Next, Call, AppStep, CallbackStep, WaiterStep

\* The frames, the sentinel and the event do not depend on other steps.
LEMMA ThrottleUntouched ==
  ASSUME FramesAreSomewhere, WaiterIsTold, EventIsSignalled,
         UNCHANGED <<supports_present_wait, wait_counts, latency, done_event, outstanding,
                     wait_queue, user_count, present_count, app>>,
         waiter'.at \in {"look", "ended"} \/ waiter.at \notin {"look", "ended"}
           \/ Head(wait_queue).count # 0,
         callback'.at = "idle" => callback.at = "idle"
  PROVE  FramesAreSomewhere' /\ WaiterIsTold' /\ EventIsSignalled'
<1>1. FramesAreSomewhere'
  BY DEF FramesAreSomewhere
<1>2. WaiterIsTold'
  BY DEF WaiterIsTold
<1>3. EventIsSignalled'
  BY DEF EventIsSignalled
<1> QED
  BY <1>1, <1>2, <1>3

\* What one end of the throttling does, the other is told.
LEMMA ThrottleStep ==
  ASSUME Orderly, Lifetimes, FramesAreSomewhere, WaiterIsTold, EventIsSignalled,
         present_count <= user_count, [Next]_vars
  PROVE  FramesAreSomewhere' /\ WaiterIsTold' /\ EventIsSignalled'
<1> USE SwapchainAssumption
<1> DEFINE Frame == [count : Nat, id : Nat, swapchain : Nat]
<1>0. /\ user_count \in Nat /\ present_count \in Nat /\ wait_counts \in Nat /\ latency \in Nat
      /\ wait_queue \in Seq(Frame) /\ supports_present_wait \in BOOLEAN
      /\ done_event \in BOOLEAN /\ outstanding \in BOOLEAN
      /\ swapchain.id \in Nat /\ present_id \in Nat /\ Len(wait_queue) \in Nat
      /\ FrameLatency \in Nat /\ callback \in Callbacks
  BY DEF Orderly, Types
<1>1. CASE \E mode \in Modes : Present(mode)
  <2>1. /\ UNCHANGED <<supports_present_wait, latency, wait_queue, waiter, present_count, callback>>
        /\ app = "idle" /\ ~outstanding'
        /\ wait_counts' = IF supports_present_wait THEN wait_counts + 1 ELSE wait_counts
        /\ app' = IF supports_present_wait THEN "latency" ELSE "event"
        /\ user_count' = user_count + 1
    BY <1>1 DEF Present, features, waiting
  <2>2. FramesAreSomewhere'
    <3>1. CASE supports_present_wait
      <4>1. latency - wait_counts + Len(wait_queue) + user_count = FrameLatency - 1 + present_count
        BY <2>1, <3>1 DEF FramesAreSomewhere
      <4>2. wait_counts' = wait_counts + 1
        BY <2>1, <3>1
      <4>3. latency - wait_counts' + Len(wait_queue) + user_count' = FrameLatency - 1 + present_count
        BY <1>0, <2>1, <4>1, <4>2
      <4> QED
        BY <2>1, <4>3 DEF FramesAreSomewhere
    <3>2. CASE ~supports_present_wait
      BY <2>1, <3>2 DEF FramesAreSomewhere
    <3> QED
      BY <3>1, <3>2
  <2>3. WaiterIsTold'
    BY <2>1 DEF WaiterIsTold
  <2>4. user_count' # present_count
    BY <1>0, <2>1
  <2>5. EventIsSignalled'
    BY <2>1, <2>4 DEF EventIsSignalled
  <2> QED
    BY <2>2, <2>3, <2>5
<1>2. CASE WaitInternalHandle
  <2>1. /\ UNCHANGED <<supports_present_wait, wait_queue, waiter, present_count, user_count,
                       callback, done_event, outstanding>>
        /\ app = "latency" /\ app' = "idle"
    BY <1>2 DEF WaitInternalHandle, features, user, waiting
  <2> DEFINE taken == IF latency < wait_counts THEN latency ELSE wait_counts
  <2>2. taken \in Nat /\ latency' = latency - taken /\ wait_counts' = wait_counts - taken
    BY <1>0, <1>2 DEF WaitInternalHandle
  <2> HIDE DEF taken
  <2>3. latency' - wait_counts' = latency - wait_counts
    BY <1>0, <2>2
  <2>4. FramesAreSomewhere'
    BY <2>1, <2>3 DEF FramesAreSomewhere
  <2>5. WaiterIsTold'
    BY <2>1 DEF WaiterIsTold
  <2>6. EventIsSignalled'
    BY <2>1 DEF EventIsSignalled
  <2> QED
    BY <2>4, <2>5, <2>6
<1>3. CASE WaitDoneEvent
  <2>1. /\ UNCHANGED <<supports_present_wait, wait_counts, latency, wait_queue, waiter,
                       present_count, user_count, callback>>
        /\ app = "event" /\ app' = "idle" /\ outstanding' = ~done_event
    BY <1>3 DEF WaitDoneEvent, features, user, waiting
  <2>2. FramesAreSomewhere' /\ WaiterIsTold'
    BY <2>1 DEF FramesAreSomewhere, WaiterIsTold
  <2>3. outstanding' => ~done_event
    BY <2>1, Zenon
  <2>4. EventIsSignalled'
    BY <2>1, <2>3 DEF EventIsSignalled
  <2> QED
    BY <2>2, <2>4
<1>4. CASE ChangeProperties \/ Release \/ ReallocateUserBuffers \/ DrainQueue
  <2>1. /\ UNCHANGED <<supports_present_wait, wait_counts, latency, done_event, outstanding,
                       wait_queue, waiter, user_count, present_count, callback>>
        /\ app' \in {"idle", "resize", "drain_queue", "drain_gpu"}
        /\ app \notin {"join", "gone"}
    BY <1>4 DEF ChangeProperties, Release, ReallocateUserBuffers, DrainQueue, features, user,
       throttle, waiting
  <2>2. FramesAreSomewhere' /\ WaiterIsTold'
    BY <2>1 DEF FramesAreSomewhere, WaiterIsTold
  <2>3. EventIsSignalled'
    BY <2>1 DEF EventIsSignalled
  <2> QED
    BY <2>2, <2>3
<1>5. CASE DrainGpu
  <2> DEFINE e == [count |-> 0, id |-> 0, swapchain |-> swapchain.id]
  <2>1. /\ UNCHANGED <<supports_present_wait, waiter, user_count, present_count, done_event,
                       outstanding, callback>>
        /\ app = "drain_gpu" /\ app' = "join" /\ wait_queue' = Append(wait_queue, e)
    BY <1>5 DEF DrainGpu, Push, features, user, throttle
  <2>2. e \in Frame /\ e.count = 0
    BY <1>0
  <2> HIDE DEF e, Frame
  <2>3. /\ Len(wait_queue') = Len(wait_queue) + 1 /\ wait_queue' # <<>>
        /\ wait_queue'[Len(wait_queue')] = e /\ Len(wait_queue) \in Nat
        /\ wait_queue # <<>> => Head(wait_queue') = Head(wait_queue)
    BY <1>0, <2>1, <2>2, EntryFacts
  <2>4. waiter.at \notin {"look", "ended"} => wait_queue # <<>>
    BY DEF Orderly, WaiterHasAFrame
  <2>5. WaiterIsTold'
    BY <2>1, <2>2, <2>3, <2>4 DEF WaiterIsTold
  <2>6. FramesAreSomewhere'
    BY <2>1 DEF FramesAreSomewhere
  <2>7. EventIsSignalled'
    BY <2>1 DEF EventIsSignalled
  <2> QED
    BY <2>5, <2>6, <2>7
<1>6. CASE Cleanup
  <2>1. /\ UNCHANGED <<supports_present_wait, waiter, wait_queue>>
        /\ app = "join" /\ app' = "gone" /\ ~outstanding'
    BY <1>6 DEF Cleanup, features, waiting
  <2> QED
    BY <2>1 DEF FramesAreSomewhere, WaiterIsTold, EventIsSignalled
<1>7. CASE \/ Destroy \/ DrainWaiter \/ Create \/ TryAcquire \/ Reclaim
           \/ AcquireNextImage \/ SubmitBlit \/ QueuePresentKHR
  <2>1. /\ UNCHANGED <<supports_present_wait, wait_counts, latency, done_event, outstanding,
                       wait_queue, waiter, user_count, present_count, app>>
        /\ callback.at # "idle"
    BY <1>7 DEF Destroy, DrainWaiter, Create, TryAcquire, Reclaim, AcquireNextImage, SubmitBlit,
       QueuePresentKHR, At, features, user, throttle, waiting
  <2>2. callback.then # "idle" \/ callback.at # "drain_waiter"
    BY <2>1 DEF Orderly, CallbackInOrder, Working
  <2>3. callback'.at # "idle"
    <3>1. CASE DrainWaiter
      BY <1>0, <2>2, <3>1 DEF DrainWaiter, Goto, At, Callbacks
    <3>2. CASE Destroy \/ Create \/ TryAcquire \/ Reclaim \/ SubmitBlit
      <4>1. \E where \in Places \ {"idle"} : callback' = [callback EXCEPT !.at = where]
        BY <3>2 DEF Destroy, Create, TryAcquire, Reclaim, SubmitBlit, Goto, Places
      <4> QED
        BY <1>0, <4>1, GotoFacts
    <3>3. CASE AcquireNextImage \/ QueuePresentKHR
      <4>1. \/ \E where \in Places \ {"idle"} : callback' = [callback EXCEPT !.at = where]
            \/ \E lost \in BOOLEAN : Fail(lost)
        BY <3>3 DEF AcquireNextImage, QueuePresentKHR, Goto, Places
      <4>2. CASE \E where \in Places \ {"idle"} : callback' = [callback EXCEPT !.at = where]
        BY <1>0, <4>2, GotoFacts
      <4>3. CASE \E lost \in BOOLEAN : Fail(lost)
        BY <1>0, <4>3 DEF Fail, Callbacks
      <4> QED
        BY <4>1, <4>2, <4>3
    <3> QED
      BY <1>7, <3>1, <3>2, <3>3
  <2> QED
    BY <2>1, <2>3, ThrottleUntouched
<1>8. CASE TakeRequest
  <2>1. /\ UNCHANGED <<supports_present_wait, wait_counts, latency, done_event, outstanding,
                       wait_queue, waiter, user_count, present_count, app>>
        /\ callback.at = "idle"
    BY <1>8 DEF TakeRequest, Idle, features, user, throttle, waiting
  <2> QED
    BY <2>1, ThrottleUntouched
<1>9. CASE FinishPresent
  <2> DEFINE e == [count |-> present_count + 1,
                   id |-> IF present_id_valid THEN present_id ELSE 0, swapchain |-> swapchain.id]
  <2>1. /\ UNCHANGED <<supports_present_wait, wait_counts, latency, waiter, user_count, app,
                       done_event, outstanding>>
        /\ callback.at = "signal" /\ wait_queue' = Append(wait_queue, e)
        /\ present_count' = present_count + 1
        /\ ~supports_present_wait => callback'.at # "idle"
    BY <1>9 DEF FinishPresent, At, Push, Idle, features, user, throttle
  <2>2. e \in Frame
    BY <1>0
  <2>3. app \notin {"join", "gone"}
    BY <2>1 DEF Orderly, CaughtUp
  <2> HIDE DEF e, Frame
  <2>4. /\ wait_queue # <<>> => Head(wait_queue') = Head(wait_queue)
        /\ Len(wait_queue') = Len(wait_queue) + 1
    BY <1>0, <2>1, <2>2, EntryFacts
  <2>5. waiter.at \notin {"look", "ended"} => wait_queue # <<>>
    BY DEF Orderly, WaiterHasAFrame
  <2>6. WaiterIsTold'
    BY <2>1, <2>3, <2>4, <2>5 DEF WaiterIsTold
  <2>7. FramesAreSomewhere'
    <3>1. supports_present_wait => latency - wait_counts + Len(wait_queue) + user_count
                                     = FrameLatency - 1 + present_count
      BY <2>3 DEF FramesAreSomewhere
    <3>2. supports_present_wait => latency - wait_counts + Len(wait_queue') + user_count
                                     = FrameLatency - 1 + present_count'
      BY <1>0, <2>1, <2>4, <3>1
    <3> QED
      BY <2>1, <3>2 DEF FramesAreSomewhere
  <2>8. EventIsSignalled'
    BY <2>1 DEF EventIsSignalled
  <2> QED
    BY <2>6, <2>7, <2>8
<1>10. CASE SignalDoneEvent
  <2>1. /\ UNCHANGED <<supports_present_wait, wait_counts, latency, outstanding,
                       wait_queue, waiter, user_count, present_count, app>>
        /\ done_event'
    BY <1>10 DEF SignalDoneEvent, features, user, waiting
  <2>2. FramesAreSomewhere' /\ WaiterIsTold'
    BY <2>1 DEF FramesAreSomewhere, WaiterIsTold
  <2>3. EventIsSignalled'
    BY <2>1 DEF EventIsSignalled
  <2> QED
    BY <2>2, <2>3
<1>11. CASE Execute \/ Show \/ UNCHANGED vars
  <2>1. UNCHANGED <<supports_present_wait, wait_counts, latency, done_event, outstanding,
                    wait_queue, waiter, user_count, present_count, app, callback>>
    BY <1>11 DEF Execute, Show, features, user, throttle, waiting, vars
  <2> QED
    BY <2>1, ThrottleUntouched
<1>12. CASE Look
  <2>1. /\ UNCHANGED <<supports_present_wait, wait_counts, latency, done_event, outstanding,
                       wait_queue, user_count, present_count, app, callback>>
        /\ waiter'.at \in {"look", "ended"} \/ Head(wait_queue).count # 0
    BY <1>12 DEF Look, WaiterGoto, features, user, throttle
  <2> QED
    BY <2>1, ThrottleUntouched
<1>13. CASE CheckSkipWaits \/ Wait
  <2>1. /\ UNCHANGED <<supports_present_wait, wait_counts, latency, done_event, outstanding,
                       wait_queue, user_count, present_count, app, callback>>
        /\ waiter.at \notin {"look", "ended"}
    BY <1>13 DEF CheckSkipWaits, Wait, features, user, throttle
  <2> QED
    BY <2>1, ThrottleUntouched
<1>14. CASE ReleaseFrame
  <2>1. /\ UNCHANGED <<supports_present_wait, wait_counts, user_count, present_count, app,
                       done_event, outstanding, callback>>
        /\ latency' = IF supports_present_wait THEN latency + 1 ELSE latency
        /\ wait_queue' = Tail(wait_queue) /\ waiter.at = "release" /\ waiter'.at = "look"
    BY <1>14 DEF ReleaseFrame, WaiterGoto, features, user
  <2>2. wait_queue # <<>> /\ Head(wait_queue).count # 0
    BY <2>1 DEF Orderly, WaiterHasAFrame, WaiterIsTold
  <2>3. Head(wait_queue) \in Frame
    BY <1>0, <2>2, HeadFacts
  <2> HIDE DEF Frame
  <2>4. /\ Len(wait_queue') = Len(wait_queue) - 1
        /\ Head(wait_queue) # wait_queue[Len(wait_queue)] =>
             wait_queue' # <<>> /\ wait_queue'[Len(wait_queue')] = wait_queue[Len(wait_queue)]
    BY <1>0, <2>1, <2>2, <2>3, EntryFacts
  <2>5. WaiterIsTold'
    BY <2>1, <2>2, <2>4 DEF WaiterIsTold
  <2>6. FramesAreSomewhere'
    <3>1. supports_present_wait /\ app \notin {"join", "gone"} =>
            latency - wait_counts + Len(wait_queue) + user_count = FrameLatency - 1 + present_count
      BY DEF FramesAreSomewhere
    <3>2. supports_present_wait => latency' = latency + 1
      BY <2>1
    <3>3. supports_present_wait /\ app \notin {"join", "gone"} =>
            latency' - wait_counts + Len(wait_queue') + user_count = FrameLatency - 1 + present_count
      BY <1>0, <2>4, <3>1, <3>2
    <3>4. app = "latency" => supports_present_wait
      BY DEF FramesAreSomewhere
    <3> QED
      BY <2>1, <3>3, <3>4 DEF FramesAreSomewhere
  <2>7. EventIsSignalled'
    BY <2>1 DEF EventIsSignalled
  <2> QED
    BY <2>5, <2>6, <2>7
<1> QED
  BY <1>1, <1>2, <1>3, <1>4, <1>5, <1>6, <1>7, <1>8, <1>9, <1>10, <1>11, <1>12, <1>13, <1>14
  DEF Next, Call, AppStep, CallbackStep, WaiterStep

\* All that is known of who waits for what.
Going ==
  /\ Orderly /\ Lifetimes /\ Acquisitions /\ FramesEndInOrder
  /\ CallsAreBounded /\ ChainIsBounded /\ BlitsAreCounted /\ WaiterIsBounded /\ Progress

\* With the GPU and the display not ready nothing is left to them.
LEMMA TheGpuIsDone ==
  ASSUME Going, ~GpuIsReady, ~DisplayIsReady
  PROVE  /\ vk_queue = <<>> /\ presents = <<>> /\ InFlight = {}
         /\ blit_done = blit_count /\ complete = present_count
<1> USE DEF Going, Progress
<1>0. /\ blit_done \in Nat /\ blit_count \in Nat /\ complete \in Nat /\ present_count \in Nat
      /\ blit_done <= blit_count /\ complete <= present_count
      /\ vk_queue \in Seq(Submission) /\ presents \in Seq(Presented)
  BY DEF Acquisitions, AcquireTypes, SemaphoresAreKnown, FramesEndInOrder, Orderly, Types,
     Lifetimes, PresentTypes
<1>1. vk_queue = <<>>
  <2> SUFFICES ASSUME vk_queue # <<>> PROVE executable
    BY DEF GpuIsReady
  <2>1. 1 \in DOMAIN vk_queue /\ Head(vk_queue) = vk_queue[1]
    BY <1>0
  <2>2. Head(vk_queue).op # "complete" => 1 \in WaitsIn(vk_queue)
    BY <2>1 DEF WaitsIn
  <2> QED
    BY <2>1, <2>2 DEF executable, WaitsAreSignalled
<1>2. WaitsIn(vk_queue) = {} /\ EndsIn(vk_queue) = {}
  BY <1>1 DEF WaitsIn, EndsIn
<1>3. blit_done = blit_count /\ complete = present_count
  BY <1>0, <1>2 DEF WorkIsQueued, WaitIn, EndIn
<1>4. presents = <<>>
  <2> SUFFICES ASSUME presents # <<>> PROVE showable
    BY DEF DisplayIsReady
  <2>1. 1 \in DOMAIN presents /\ Head(presents) = presents[1]
    BY <1>0
  <2> QED
    BY <1>3, <2>1 DEF showable, PresentsAreBlitted
<1>5. InFlight = {}
  BY <1>4 DEF InFlight
<1> QED
  BY <1>1, <1>3, <1>4, <1>5

\* Then the waiter has no frame to wait for.
LEMMA TheWaiterIsDone ==
  ASSUME Going, ~GpuIsReady, ~DisplayIsReady, ~WaiterIsReady
  PROVE  \/ waiter.at = "look" /\ wait_queue = <<>>
         \/ waiter.at = "ended" /\ app \in {"join", "gone"}
<1> USE DEF Going
<1>1. InFlight = {} /\ complete = present_count
  BY TheGpuIsDone
<1>2. waiter.at \in {"look", "skip?", "present", "complete", "release", "ended"}
  BY DEF WaiterIsBounded
<1>3. wait_queue \in Seq([count : Nat, id : Nat, swapchain : Nat])
  BY DEF Orderly, Types
<1>4. wait_queue # <<>> => 1 \in DOMAIN wait_queue /\ Head(wait_queue) = wait_queue[1]
  BY <1>3
<1>5. waiter.at # "present"
  BY <1>1 DEF WaiterIsReady, frame_shown
<1>6. waiter.at # "complete"
  <2> SUFFICES ASSUME waiter.at = "complete" PROVE frame_done
    BY DEF WaiterIsReady
  <2>1. wait_queue # <<>>
    BY DEF Orderly, WaiterHasAFrame
  <2>2. Head(wait_queue).count <= present_count
    BY <1>4, <2>1 DEF Progress, FramesAreEnded
  <2> QED
    BY <1>1, <2>2 DEF frame_done
<1>7. ASSUME waiter.at = "ended" PROVE app \in {"join", "gone"}
  <2>1. wait_queue # <<>> /\ Head(wait_queue).count = 0
    BY <1>7 DEF Lifetimes, WaiterIsWhereItBelongs
  <2> QED
    BY <1>4, <2>1 DEF Lifetimes, TheSentinelIsLast
<1> QED
  BY <1>2, <1>5, <1>6, <1>7 DEF WaiterIsReady

\* Then no callback waits, and there is none left to run.
LEMMA TheCallbackIsDone ==
  ASSUME Going, ~GpuIsReady, ~DisplayIsReady, ~WaiterIsReady, ~CallbackIsReady
  PROVE  callback = Idle /\ present_count = user_count
<1> USE SwapchainAssumption DEF Going
<1>0. /\ callback.at \in Places
      /\ blit_count \in Nat /\ present_count \in Nat /\ user_count \in Nat
      /\ present_count <= user_count /\ semaphore_index \in Slots
      /\ image \in Images \cup {NoImage}
  BY DEF Orderly, Types, Callbacks, Acquisitions, AcquireTypes, FramesEndInOrder
<1>1. /\ vk_queue = <<>> /\ InFlight = {} /\ blit_done = blit_count
  BY TheGpuIsDone
<1>2. callback.at # "destroy"
  BY <1>1 DEF CallbackIsReady, At, swapchain_drained, fences_drained
<1>3. callback.at # "drain_waiter"
  <2> SUFFICES ASSUME callback.at = "drain_waiter", wait_queue # <<>> PROVE FALSE
    BY DEF CallbackIsReady, At, waiter_drained
  <2>1. app \in {"join", "gone"}
    BY TheWaiterIsDone
  <2> QED
    BY <2>1 DEF Orderly, CaughtUp
<1>4. callback.at # "reclaim"
  <2>1. consumed_at[semaphore_index] \in 0..blit_count
    BY <1>0 DEF BlitsAreCounted
  <2>2. blit_done >= consumed_at[semaphore_index]
    BY <1>0, <1>1, <2>1
  <2> QED
    BY <2>2 DEF CallbackIsReady, At, reclaimed
<1>5. callback.at # "next_image"
  <2>1. \E i \in Images : Available(i)
    BY <1>1 DEF Available
  <2> QED
    BY <2>1 DEF CallbackIsReady, At
<1>6. callback.at # "blit"
  <2> SUFFICES ASSUME callback.at = "blit" PROVE command_buffer_free
    BY DEF CallbackIsReady, At
  <2>1. image \in Images
    BY <1>0 DEF Acquisitions, ImageIsAcquired
  <2>2. blit_timelines[image] \in 0..blit_count
    BY <2>1 DEF BlitsAreCounted
  <2> QED
    BY <1>0, <1>1, <2>2 DEF command_buffer_free
<1>7. callback.at # "present"
  BY <1>1 DEF CallbackIsReady, At, fence_signalled
<1>8. callback.at = "idle"
  BY <1>0, <1>2, <1>3, <1>4, <1>5, <1>6, <1>7 DEF Places, CallbackIsReady
<1>9. callback = Idle
  BY <1>8 DEF Orderly, CallbackInOrder
<1>10. ~(present_count < user_count)
  BY <1>9 DEF CallbackIsReady
<1> QED
  BY <1>0, <1>9, <1>10

\* Then the application does not wait, and the event it did not wait for is signalled.
LEMMA GoingSuffices == Going => NobodyIsStuck
<1> SUFFICES ASSUME Going, app \notin {"idle", "gone"} \/ (outstanding /\ ~done_event),
                    ~AppIsReady, ~CallbackIsReady, ~WaiterIsReady, ~GpuIsReady, ~DisplayIsReady
             PROVE  FALSE
  BY DEF NobodyIsStuck
<1> USE SwapchainAssumption DEF Going
<1>1. callback = Idle /\ callback.at = "idle" /\ present_count = user_count
  BY TheCallbackIsDone DEF Idle
<1>2. InFlight = {} /\ complete = user_count /\ user_count \in Nat
  BY <1>1, TheGpuIsDone DEF Orderly, Types
<1>3. app = "event" \/ outstanding => done_event
  BY <1>1 DEF Progress, EventIsSignalled
<1>4. app \in {"latency", "event", "resize", "drain_queue", "drain_gpu", "join"}
  BY <1>3 DEF CallsAreBounded
<1>5. app # "latency"
  <2> SUFFICES ASSUME app = "latency" PROVE frames_released
    BY DEF AppIsReady
  <2>1. wait_queue = <<>>
    BY TheWaiterIsDone
  <2>2. latency - wait_counts + Len(wait_queue) + user_count = FrameLatency - 1 + present_count
    BY DEF Progress, FramesAreSomewhere
  <2>3. Len(wait_queue) = 0
    BY <2>1
  <2>4. latency \in Nat /\ wait_counts \in Nat /\ FrameLatency \in Nat \ {0}
    BY DEF Orderly, Types
  <2>5. latency - wait_counts = FrameLatency - 1
    BY <1>1, <1>2, <2>2, <2>3, <2>4
  <2>6. wait_counts <= latency
    BY <2>4, <2>5
  <2> QED
    BY <2>6 DEF frames_released
<1>6. app # "event"
  BY DEF AppIsReady
<1>7. app # "resize"
  BY <1>2 DEF AppIsReady, user_images_drained
<1>8. app # "drain_queue"
  BY <1>1 DEF AppIsReady, callbacks_drained
<1>9. app # "drain_gpu"
  BY <1>2 DEF AppIsReady, gpu_drained, fences_drained
<1>10. app # "join"
  <2> SUFFICES ASSUME app = "join" PROVE waiter.at = "ended" /\ request_done
    BY DEF AppIsReady
  <2>1. wait_queue # <<>>
    BY DEF Progress, WaiterIsTold
  <2> QED
    BY <1>3, <2>1, TheWaiterIsDone DEF request_done
<1> QED
  BY <1>4, <1>5, <1>6, <1>7, <1>8, <1>9, <1>10

\* No call of the application is stuck, and no Present leaves an event behind that nobody
\* signals, whatever fails and in low latency mode too: as long as one waits, the GPU, the
\* display, the waiter, the callback or the application itself can take its next step.
THEOREM NobodyIsEverStuck == Spec => []NobodyIsStuck
<1> USE SwapchainAssumption
<1>1. Init => Going
  <2> SUFFICES ASSUME Init PROVE Going
    OBVIOUS
  <2>1. FramesEndInOrder
    BY DEF Init, FramesEndInOrder, EndsNumbered, EndsIn, BlitsAreFrom, BlitsIn, BlitsAreEnded
  <2>2. WorkIsQueued /\ WaitsAreSignalled /\ PresentsAreBlitted /\ FramesAreEnded
    BY DEF Init, WorkIsQueued, WaitsAreSignalled, PresentsAreBlitted, FramesAreEnded, WaitsIn
  <2>3. FramesAreSomewhere
    <3>1. /\ latency = FrameLatency - 1 /\ wait_counts = 0 /\ Len(wait_queue) = 0
          /\ user_count = 0 /\ present_count = 0 /\ app = "idle" /\ FrameLatency \in Int
      BY DEF Init
    <3> QED
      BY <3>1 DEF FramesAreSomewhere
  <2>4. WaiterIsTold /\ EventIsSignalled
    BY DEF Init, WaiterIsTold, EventIsSignalled
  <2>5. Progress
    BY <2>2, <2>3, <2>4 DEF Progress
  <2> QED
    BY <2>1, <2>5, OrderlyInit, LifetimesInit, AcquisitionsInit, BoundsInit DEF Going
<1>2. Going /\ [Next]_vars => Going'
  <2> SUFFICES ASSUME Going, [Next]_vars PROVE Going'
    OBVIOUS
  <2>1. /\ Orderly /\ Lifetimes /\ Acquisitions /\ FramesEndInOrder
        /\ CallsAreBounded /\ ChainIsBounded /\ BlitsAreCounted /\ WaiterIsBounded
        /\ AcquireTypes /\ present_count <= user_count
        /\ WorkIsQueued /\ WaitsAreSignalled /\ PresentsAreBlitted /\ FramesAreEnded
        /\ FramesAreSomewhere /\ WaiterIsTold /\ EventIsSignalled
    BY DEF Going, Acquisitions, FramesEndInOrder, Progress
  <2>2. Orderly' /\ Lifetimes' /\ Acquisitions' /\ FramesEndInOrder'
    BY <2>1, OrderlyStep, LifetimesStep, AcquisitionsStep, FramesStep
  <2>3. CallsAreBounded' /\ ChainIsBounded' /\ BlitsAreCounted' /\ WaiterIsBounded'
    BY <2>1, CallsStep, ChainStep, BlitsStep, WaiterStays
  <2>4. WorkIsQueued' /\ WaitsAreSignalled' /\ PresentsAreBlitted' /\ FramesAreEnded'
    BY <2>1, WorkStep, WaitsSignalledStep, PresentsStep
  <2>5. FramesAreSomewhere' /\ WaiterIsTold' /\ EventIsSignalled'
    BY <2>1, ThrottleStep
  <2> QED
    BY <2>2, <2>3, <2>4, <2>5 DEF Going, Progress
<1>3. Going => NobodyIsStuck
  BY GoingSuffices
<1> QED
  BY <1>1, <1>2, <1>3, PTL DEF Spec
=============================================================================
