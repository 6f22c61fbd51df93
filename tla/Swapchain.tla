------------------------------ MODULE Swapchain ------------------------------
(***************************************************************************)
(* Presenting (src/libs/vkd3d/swapchain.c, the build for native windows).  *)
(*                                                                         *)
(* The application thread calls Present, ResizeBuffers and Release.  A     *)
(* Present writes a request into a ring and queues a callback; the thread  *)
(* of the command queue runs the callbacks in order: each blits a user     *)
(* buffer to a swapchain image and presents that.  A thread of the         *)
(* swapchain's own, the waiter, finds out when frames are done and         *)
(* releases the latency semaphore, on which Present throttles the          *)
(* application.                                                            *)
(*                                                                         *)
(* With VK_KHR_present_wait the waiter waits for the present itself.       *)
(* Without it, it waits for the blit, and Present waits (for a while) for  *)
(* its callback to have acquired the next image.                           *)
(***************************************************************************)
EXTENDS Integers, Sequences, FiniteSets

CONSTANTS
  Buffers,      \* DXGI_MAX_SWAP_CHAIN_BUFFERS, the length of every ring
  Images,       \* indices of the images of a VkSwapchainKHR
  NoImage,      \* UINT32_MAX, as current_backbuffer_index
  Modes,        \* what a request asks the VkSwapchainKHR to be
  Paced,        \* the modes whose presents wait for the display
  NoMode,       \* what a request that was never written asks for
  FrameLatency, \* frame_latency_internal
  Retries,      \* how often a present iteration is retried
  LowLatency,   \* whether the application enabled low latency mode
  MaxPresents,  \* bound: calls of Present
  MaxEvents     \* bound: calls of ResizeBuffers, changes of mode and failures

ASSUME SwapchainAssumption ==
  /\ Buffers \in Nat \ {0}
  /\ FrameLatency \in 1..Buffers
  /\ Images # {} /\ NoImage \notin Images
  /\ Paced \subseteq Modes /\ NoMode \notin Modes
  /\ LowLatency \in BOOLEAN
  /\ {Retries, MaxPresents, MaxEvents} \subseteq Nat

VARIABLES
  supports_present_wait, \* wait_thread.supports_present_wait
  maintenance1,          \* swapchain_maintenance1
  app,                   \* where the application thread is
  user_count,            \* user.present_count, and user.blit_count
  user_images,           \* user.backbuffers: the reallocation they are from
  user_views,            \* user.vk_image_views: the reallocation that left them
  request_ring,
  wait_counts,           \* frame_latency_event_internal_wait_counts
  latency,               \* the count of frame_latency_event_internal
  done_event,            \* present_request_done_event is signalled
  outstanding,           \* outstanding_present_request
  callback,              \* where the callback is; see Idle
  request,               \* the request it works on
  present_count,         \* present.present_count
  force,                 \* force_swapchain_recreation
  surface_lost,          \* is_surface_lost
  swapchain,             \* vk_swapchain: which one, and its mode
  created,               \* history: how many VkSwapchainKHR there were
  image,                 \* current_backbuffer_index
  present_id,
  present_id_valid,
  semaphore_index,       \* acquire_semaphore_index
  signalled,             \* acquire_semaphore_signalled
  consumed_at,           \* acquire_semaphore_consumed_at_blit
  fences,                \* per swapchain fence: the blit whose present signals it
  fence_index,           \* swapchain_fence_index
  blit_count,            \* internal_blit_count
  blit_timelines,        \* backbuffer_blit_timelines
  vk_queue,              \* submissions the GPU has yet to execute
  blit_done,             \* the counter of vk_internal_blit_semaphore
  complete,              \* the counter of vk_complete_semaphore
  acquired,              \* acquire semaphores the window system has signalled, or will
  presents,              \* presents not on the display yet, in order
  events,                \* bound: what MaxEvents counts, so far
  wait_queue,
  skip_waits,
  waiter                 \* where the waiter is, and the VkSwapchainKHR it uses

features == <<supports_present_wait, maintenance1>>
user == <<user_count, user_images, user_views, request_ring>>
throttle == <<wait_counts, latency, done_event, outstanding>>
chain == <<force, surface_lost, swapchain, created, image, present_id, present_id_valid>>
acquiring == <<semaphore_index, signalled, consumed_at>>
blitting == <<blit_count, blit_timelines>>
fencing == <<fences, fence_index>>
gpu == <<vk_queue, blit_done, complete>>
display == <<acquired, presents>>
waiting == <<wait_queue, skip_waits, waiter>>
vars == <<features, app, user, throttle, callback, request, present_count, chain, acquiring,
          blitting, fencing, gpu, display, events, waiting>>

Slots == 0..(Buffers - 1)

NoSwapchain == [id |-> 0, mode |-> NoMode]
NoRequest == [count |-> 0, mode |-> NoMode]

\* retry: retry_counter; then: what a destroyed swapchain is destroyed for;
\* eager: it acquires the image of the next frame, after its present.
Idle == [at |-> "idle", retry |-> 0, then |-> "idle", eager |-> FALSE]

\* The semaphore starts with one frame less than it may: every Present acquires
\* after it has queued its frame.
Init ==
  /\ supports_present_wait \in BOOLEAN /\ maintenance1 \in BOOLEAN
  /\ app = "idle" /\ user_count = 0 /\ user_images = 0 /\ user_views = 0
  /\ request_ring = [i \in Slots |-> NoRequest]
  /\ wait_counts = 0 /\ latency = FrameLatency - 1
  /\ done_event = FALSE /\ outstanding = FALSE
  /\ callback = Idle /\ request = NoRequest /\ present_count = 0
  /\ force = FALSE /\ surface_lost = FALSE
  /\ swapchain = NoSwapchain /\ created = 0
  \* The structure is zeroed: the index is set when a swapchain is created.
  /\ image = NoImage
  /\ present_id = 0 /\ present_id_valid = FALSE
  /\ semaphore_index = 0
  /\ signalled = [i \in Slots |-> FALSE] /\ consumed_at = [i \in Slots |-> 0]
  /\ fences = [i \in Slots |-> 0] /\ fence_index = 0
  /\ blit_count = 0 /\ blit_timelines = [i \in Images |-> 0]
  /\ vk_queue = <<>> /\ blit_done = 0 /\ complete = 0
  /\ acquired = {} /\ presents = <<>> /\ events = 0
  /\ wait_queue = <<>> /\ skip_waits = FALSE
  /\ waiter = [at |-> "look", swapchain |-> 0]

At(where) == callback.at = where
Goto(where) == callback' = [callback EXCEPT !.at = where]

InFlight == {presents[i] : i \in DOMAIN presents}

-----------------------------------------------------------------------------
(* The application thread.                                                 *)

\* The event of an earlier Present that did not wait for it long enough.
request_done == outstanding => done_event

\* Present: the request goes into the ring, and its callback to the command queue.
Present(mode) ==
  /\ app = "idle" /\ user_count < MaxPresents
  /\ LET change == user_count > 0 /\ mode # request_ring[user_count % Buffers].mode
     IN /\ change => events < MaxEvents
        /\ events' = IF change THEN events + 1 ELSE events
  /\ request_done
  /\ done_event' = (done_event /\ ~outstanding) /\ outstanding' = FALSE
  /\ user_count' = user_count + 1
  /\ request_ring' = [request_ring EXCEPT ![(user_count + 1) % Buffers] =
                        [count |-> user_count + 1, mode |-> mode]]
  /\ wait_counts' = IF supports_present_wait THEN wait_counts + 1 ELSE wait_counts
  /\ app' = IF supports_present_wait THEN "latency" ELSE "event"
  /\ UNCHANGED <<features, user_images, user_views, latency, callback, request, present_count,
                 chain, acquiring, blitting, fencing, gpu, display, waiting>>

\* Mutant: it never has to wait for the waiter.
blocking_never == FALSE

\* In low latency mode the semaphore is only polled if the GPU lags behind.
blocking == ~LowLatency \/ complete + 2 >= user_count

\* The semaphore has all that Present wants of it, or Present does not insist.
frames_released == blocking => wait_counts <= latency

\* dxgi_vk_swap_chain_wait_internal_handle.
WaitInternalHandle ==
  LET taken == IF latency < wait_counts THEN latency ELSE wait_counts IN
  /\ app = "latency" /\ frames_released
  /\ latency' = latency - taken /\ wait_counts' = wait_counts - taken
  /\ app' = "idle"
  /\ UNCHANGED <<features, user, done_event, outstanding, callback, request, present_count, chain,
                 acquiring, blitting, fencing, gpu, display, events, waiting>>

\* present_request_done_event, with its timeout.
WaitDoneEvent ==
  /\ app = "event"
  /\ outstanding' = ~done_event
  /\ done_event' = FALSE
  /\ app' = "idle"
  /\ UNCHANGED <<features, user, wait_counts, latency, callback, request, present_count, chain,
                 acquiring, blitting, fencing, gpu, display, events, waiting>>

\* ResizeBuffers to another size: dxgi_vk_swap_chain_ChangeProperties.
ChangeProperties ==
  /\ app = "idle" /\ events < MaxEvents
  /\ events' = events + 1
  /\ app' = "resize"
  /\ UNCHANGED <<features, user, throttle, callback, request, present_count, chain, acquiring,
                 blitting, fencing, gpu, display, waiting>>

\* Mutant: only the callbacks are waited for, not the GPU.
user_images_drained_on_the_CPU == present_count = user_count

\* dxgi_vk_swap_chain_drain_user_images returns.
user_images_drained == complete >= user_count

\* The views are destroyed first and the old buffers last, when the new ones and
\* their views are there.  Where that fails the old buffers are put back, but no
\* views of them: those left are NULL, or of new buffers that are freed again,.
\* A call that asks for too many buffers fails before all this.
ReallocateUserBuffers ==
  /\ app = "resize" /\ user_images_drained
  /\ app' = "idle"
  /\ \/ /\ user_views' = user_views + 1 /\ user_images' = user_views + 1
        /\ force' = TRUE /\ events' = events
     \/ /\ events < MaxEvents /\ events' = events + 1
        /\ user_views' \in {user_views, user_views + 1}
        /\ UNCHANGED <<user_images, force>>
  /\ UNCHANGED <<features, user_count, request_ring, throttle, callback, request,
                 present_count, surface_lost, swapchain, created, image, present_id,
                 present_id_valid, acquiring, blitting, fencing, gpu, display, waiting>>

\* The last Release.
Release ==
  /\ app = "idle"
  /\ app' = "drain_queue"
  /\ UNCHANGED <<features, user, throttle, callback, request, present_count, chain, acquiring,
                 blitting, fencing, gpu, display, events, waiting>>

\* A submission that waits for an acquire semaphore and does nothing else.
WaitSubmission(semaphore, value) == [op |-> "wait", semaphore |-> semaphore, value |-> value]

\* The thread of the queue has drained, which vkd3d_acquire_vk_queue waits for.
callbacks_drained == present_count = user_count /\ callback = Idle

\* dxgi_vk_swap_chain_drain_queue: when every callback has run, acquire
\* semaphores that nobody waited for are waited for, on the GPU.
DrainQueue ==
  LET lingering == {i \in Slots : signalled[i]} IN
  /\ app = "drain_queue" /\ callbacks_drained
  /\ \E order \in [1..Cardinality(lingering) -> lingering] :
       /\ \A j, k \in DOMAIN order : j < k => order[j] < order[k]
       /\ vk_queue' = vk_queue \o
            [k \in DOMAIN order |-> WaitSubmission(order[k], blit_count + k)]
  /\ blit_count' = blit_count + Cardinality(lingering)
  /\ app' = "drain_gpu"
  /\ UNCHANGED <<features, user, throttle, callback, request, present_count, chain, acquiring,
                 blit_timelines, fencing, blit_done, complete, display, events, waiting>>

\* dxgi_vk_swap_chain_drain_swapchain_fences returns.
fences_drained ==
  \A p \in InFlight : \A i \in Slots : p.blit # fences[i]

\* The frames are done and, where fences tell, shown.
gpu_drained == complete >= user_count /\ (maintenance1 => fences_drained)

\* Mutant: a frame that was not presented is not pushed.
Push_presents_only(count, id) ==
  wait_queue' = IF id # 0 \/ count = 0
                THEN Append(wait_queue, [count |-> count, id |-> id, swapchain |-> swapchain.id])
                ELSE wait_queue

\* dxgi_vk_swap_chain_push_present_id; which swapchain it is for is history.
Push(count, id) ==
  wait_queue' = Append(wait_queue, [count |-> count, id |-> id, swapchain |-> swapchain.id])

\* The rest of it, and the entry that ends the waiter.
DrainGpu ==
  /\ app = "drain_gpu" /\ gpu_drained
  /\ Push(0, 0)
  /\ app' = "join"
  /\ UNCHANGED <<features, user, throttle, callback, request, present_count, chain, acquiring,
                 blitting, fencing, gpu, display, events, skip_waits, waiter>>

\* dxgi_vk_swap_chain_cleanup, once the waiter has ended.
Cleanup ==
  /\ app = "join" /\ waiter.at = "ended" /\ request_done
  /\ outstanding' = FALSE /\ done_event' = (done_event /\ ~outstanding)
  /\ swapchain' = NoSwapchain
  /\ app' = "gone"
  /\ UNCHANGED <<features, user, wait_counts, latency, callback, request, present_count, force,
                 surface_lost, created, image, present_id, present_id_valid, acquiring, blitting,
                 fencing, gpu, display, events, waiting>>

-----------------------------------------------------------------------------
(* The callback: dxgi_vk_swap_chain_present_callback, in the queue's thread. *)

\* A request that differs from the one before it needs another swapchain, as do
\* problems with the one there is; dxgi_vk_swap_chain_present_iteration begins.
\* The destruction returns at once if there is no swapchain, and then resets nothing.
TakeRequest ==
  LET next == request_ring[(present_count + 1) % Buffers] IN
  /\ callback = Idle /\ present_count < user_count
  /\ force' = (force \/ next.mode # request.mode)
  /\ request' = next
  /\ present_id_valid' = FALSE
  /\ callback' = [Idle EXCEPT
       !.at = CASE swapchain = NoSwapchain -> "create"
                [] swapchain # NoSwapchain /\ force' -> "destroy"
                [] OTHER -> "acquire",
       !.then = "create"]
  /\ UNCHANGED <<features, app, user, throttle, present_count, surface_lost, swapchain, created,
                 image, present_id, acquiring, blitting, fencing, gpu, display, events, waiting>>

\* The presents, or at least the blits, are waited for.
swapchain_drained == IF maintenance1 THEN fences_drained ELSE vk_queue = <<>>

\* The waiter is told not to wait any longer.
Destroy ==
  /\ At("destroy") /\ swapchain_drained
  /\ skip_waits' = TRUE
  /\ Goto("drain_waiter")
  /\ UNCHANGED <<features, app, user, throttle, request, present_count, chain, acquiring,
                 blitting, fencing, gpu, display, events, wait_queue, waiter>>

\* Mutant: the waiter is not waited for.
waiter_drained_always == TRUE

\* dxgi_vk_swap_chain_drain_waiter returns.
waiter_drained == wait_queue = <<>>

DrainWaiter ==
  /\ At("drain_waiter") /\ waiter_drained
  /\ skip_waits' = FALSE
  /\ swapchain' = NoSwapchain /\ image' = NoImage
  /\ force' = FALSE /\ present_id' = 0 /\ present_id_valid' = FALSE
  /\ Goto(callback.then)
  /\ UNCHANGED <<features, app, user, throttle, request, present_count, surface_lost, created,
                 acquiring, blitting, fencing, gpu, display, events, wait_queue, waiter>>

\* dxgi_vk_swap_chain_recreate_swapchain_in_present_task after that.  There may
\* be no swapchain to be had, for now or, without a surface, for good.
Create ==
  /\ At("create")
  /\ \/ /\ ~surface_lost
        /\ created' = created + 1
        /\ swapchain' = [id |-> created + 1, mode |-> request.mode]
        /\ image' = NoImage
        /\ Goto("acquire")
        /\ UNCHANGED <<surface_lost, events>>
     \/ /\ surface_lost
        /\ Goto("signal")
        /\ UNCHANGED <<surface_lost, created, swapchain, image, events>>
     \/ /\ ~surface_lost /\ events < MaxEvents
        /\ events' = events + 1
        /\ surface_lost' \in BOOLEAN
        /\ Goto("signal")
        /\ UNCHANGED <<created, swapchain, image>>
  /\ UNCHANGED <<features, app, user, throttle, request, present_count, force, present_id,
                 present_id_valid, acquiring, blitting, fencing, gpu, display, waiting>>

\* dxgi_vk_swap_chain_ensure_unsignaled_acquire_semaphore: wait on the GPU for
\* one that nobody waited for.
ensure_unsignaled(i) ==
  IF signalled[i]
  THEN /\ vk_queue' = Append(vk_queue, WaitSubmission(i, blit_count + 1))
       /\ blit_count' = blit_count + 1
       /\ consumed_at' = [consumed_at EXCEPT ![i] = blit_count + 1]
       /\ signalled' = [signalled EXCEPT ![i] = FALSE]
  ELSE UNCHANGED <<vk_queue, blit_count, consumed_at, signalled>>

\* dxgi_vk_swap_chain_try_acquire_next_image: the image may be there already;
\* otherwise leave this semaphore for the next one.
TryAcquire ==
  /\ At("acquire")
  /\ IF image # NoImage
     THEN /\ Goto(IF callback.eager THEN "done" ELSE "blit")
          /\ UNCHANGED <<vk_queue, blit_count, acquiring>>
     ELSE /\ ensure_unsignaled(semaphore_index)
          /\ semaphore_index' = (semaphore_index + 1) % Buffers
          /\ Goto("reclaim")
  /\ UNCHANGED <<features, app, user, throttle, request, present_count, chain, blit_timelines,
                 fencing, blit_done, complete, display, events, waiting>>

\* Mutant: a wait that is still pending is not waited for.
reclaimed_early(i) == TRUE

\* Any pending wait for the semaphore is satisfied.
reclaimed(i) == blit_done >= consumed_at[i]

Reclaim ==
  /\ At("reclaim") /\ reclaimed(semaphore_index)
  /\ ensure_unsignaled(semaphore_index)
  /\ Goto(IF signalled[semaphore_index] THEN "reclaim" ELSE "next_image")
  /\ UNCHANGED <<features, app, user, throttle, request, present_count, chain, semaphore_index,
                 blit_timelines, fencing, blit_done, complete, display, events, waiting>>

\* The image is free when it has been acquired and presented and shown.
Available(i) == \A p \in InFlight : p.image # i \/ p.swapchain # swapchain.id

\* Mutant: one retry too many.
Fail_retries_more(lost) ==
  /\ events < MaxEvents /\ events' = events + 1
  /\ force' = TRUE
  /\ surface_lost' = (surface_lost \/ lost)
  /\ LET again == ~lost /\ callback.retry <= Retries
     IN callback' = [callback EXCEPT !.at = "destroy",
                                     !.then = IF again THEN "create" ELSE "signal",
                                     !.retry = IF again THEN @ + 1 ELSE @]

\* What becomes of an iteration whose acquire or present failed.
Fail(lost) ==
  /\ events < MaxEvents /\ events' = events + 1
  /\ force' = TRUE
  /\ surface_lost' = (surface_lost \/ lost)
  /\ LET again == ~lost /\ callback.retry < Retries
     IN callback' = [callback EXCEPT !.at = "destroy",
                                     !.then = IF again THEN "create" ELSE "signal",
                                     !.retry = IF again THEN @ + 1 ELSE @]

\* vkAcquireNextImageKHR: success, VK_SUBOPTIMAL_KHR, VK_ERROR_OUT_OF_DATE_KHR
\* or VK_ERROR_SURFACE_LOST_KHR.  When it acquires for the next frame, nobody
\* looks at the result.
AcquireNextImage ==
  /\ At("next_image")
  /\ \/ \E i \in Images, suboptimal \in BOOLEAN :
          /\ Available(i)
          /\ suboptimal => events < MaxEvents
          /\ events' = IF suboptimal THEN events + 1 ELSE events
          /\ force' = (force \/ (suboptimal /\ ~callback.eager))
          /\ image' = i
          /\ acquired' = acquired \cup {semaphore_index}
          /\ signalled' = [signalled EXCEPT ![semaphore_index] = TRUE]
          /\ Goto(IF callback.eager THEN "done" ELSE "blit")
          /\ UNCHANGED surface_lost
     \/ /\ ~callback.eager
        /\ \E lost \in BOOLEAN : Fail(lost)
        /\ UNCHANGED <<image, acquired, signalled>>
     \/ /\ callback.eager /\ events < MaxEvents
        /\ events' = events + 1
        /\ Goto("done")
        /\ UNCHANGED <<image, acquired, signalled, force, surface_lost>>
  /\ UNCHANGED <<features, app, user, throttle, request, present_count, swapchain, created,
                 present_id, present_id_valid, semaphore_index, consumed_at, blitting, fencing,
                 gpu, presents, waiting>>

\* The command buffer is free again.
command_buffer_free == blit_done >= blit_timelines[image]

\* dxgi_vk_swap_chain_submit_blit.  A blit copies the buffer, or draws it through
\* its view where the sizes differ; every one is taken for one that draws, which
\* reads both.
SubmitBlit ==
  /\ At("blit") /\ command_buffer_free
  /\ blit_count' = blit_count + 1
  /\ vk_queue' = Append(vk_queue, [op |-> "blit", semaphore |-> semaphore_index,
                                   value |-> blit_count + 1, from |-> user_images,
                                   view |-> user_views])
  /\ blit_timelines' = [blit_timelines EXCEPT ![image] = blit_count + 1]
  /\ consumed_at' = [consumed_at EXCEPT ![semaphore_index] = blit_count + 1]
  /\ signalled' = [signalled EXCEPT ![semaphore_index] = FALSE]
  /\ Goto("present")
  /\ UNCHANGED <<features, app, user, throttle, request, present_count, chain, semaphore_index,
                 fencing, blit_done, complete, display, events, waiting>>

\* Present IDs are for presents that wait for the display, one for each request.
use_present_id ==
  /\ supports_present_wait /\ ~present_id_valid
  /\ swapchain.mode \in Paced \/ LowLatency

next_present_id ==
  IF present_count + 1 > present_id + 1 THEN present_count + 1 ELSE present_id + 1

\* The fence after the current one, and that the present it was used for is shown.
next_fence == (fence_index + 1) % Buffers
fence_signalled == maintenance1 => \A p \in InFlight : p.blit # fences[next_fence]

\* vkQueuePresentKHR, with the same results.
QueuePresentKHR ==
  /\ At("present") /\ fence_signalled
  /\ IF maintenance1
     THEN fence_index' = next_fence /\ fences' = [fences EXCEPT ![next_fence] = blit_count]
     ELSE UNCHANGED fencing
  /\ present_id' = IF use_present_id THEN next_present_id ELSE present_id
  /\ \/ \E suboptimal \in BOOLEAN :
          /\ suboptimal => events < MaxEvents
          /\ events' = IF suboptimal THEN events + 1 ELSE events
          /\ force' = (force \/ suboptimal)
          /\ presents' = Append(presents,
               [swapchain |-> swapchain.id, image |-> image, blit |-> blit_count,
                id |-> IF use_present_id THEN next_present_id ELSE 0])
          /\ image' = NoImage
          /\ present_id_valid' = (present_id_valid \/ use_present_id)
          /\ Goto("signal")
          /\ UNCHANGED surface_lost
     \/ /\ \E lost \in BOOLEAN : Fail(lost)
        /\ UNCHANGED <<presents, image, present_id_valid>>
  /\ UNCHANGED <<features, app, user, throttle, request, present_count, swapchain, created,
                 acquiring, blitting, gpu, acquired, waiting>>

\* The GPU is to signal the complete semaphore, the waiter to signal the frame, and
\* the request is done.  Without present wait the next image is acquired now, if
\* there is a swapchain.
FinishPresent ==
  /\ At("signal")
  /\ vk_queue' = Append(vk_queue, [op |-> "complete", value |-> present_count + 1])
  /\ Push(present_count + 1, IF present_id_valid THEN present_id ELSE 0)
  /\ present_count' = present_count + 1
  /\ callback' = IF supports_present_wait THEN Idle
                 ELSE [Idle EXCEPT !.at = IF swapchain = NoSwapchain THEN "done" ELSE "acquire",
                                   !.eager = TRUE]
  /\ UNCHANGED <<features, app, user, throttle, request, chain, acquiring, blitting, fencing,
                 blit_done, complete, display, events, skip_waits, waiter>>

SignalDoneEvent ==
  /\ At("done")
  /\ done_event' = TRUE
  /\ callback' = Idle
  /\ UNCHANGED <<features, app, user, wait_counts, latency, outstanding, request, present_count,
                 chain, acquiring, blitting, fencing, gpu, display, events, waiting>>

-----------------------------------------------------------------------------
(* The GPU, the window system and the waiter.                              *)

\* The first submission waits for nothing, or for a semaphore that is or will be signalled.
executable == Head(vk_queue).op # "complete" => Head(vk_queue).semaphore \in acquired

\* The queue executes what was submitted, in order and in its own time; what waits
\* for an acquire semaphore unsignals it.
Execute ==
  /\ vk_queue # <<>> /\ executable
  /\ LET first == Head(vk_queue) IN
       IF first.op = "complete"
       THEN complete' = first.value /\ UNCHANGED <<blit_done, acquired>>
       ELSE /\ acquired' = acquired \ {first.semaphore}
            /\ blit_done' = first.value
            /\ UNCHANGED complete
  /\ vk_queue' = Tail(vk_queue)
  /\ UNCHANGED <<features, app, user, throttle, callback, request, present_count, chain, acquiring,
                 blitting, fencing, presents, events, waiting>>

\* The first present waits for its blit.
showable == Head(presents).blit <= blit_done

\* A present is shown in its turn.
Show ==
  /\ presents # <<>> /\ showable
  /\ presents' = Tail(presents)
  /\ UNCHANGED <<features, app, user, throttle, callback, request, present_count, chain, acquiring,
                 blitting, fencing, gpu, acquired, events, waiting>>

WaiterGoto(where) == waiter' = [at |-> where, swapchain |-> 0]

\* dxgi_vk_swap_chain_wait_worker: the first entry stays until it is done.
Look ==
  /\ waiter.at = "look" /\ wait_queue # <<>>
  /\ WaiterGoto(CASE Head(wait_queue).count = 0 -> "ended"
                  [] Head(wait_queue).count # 0 /\ Head(wait_queue).id = 0 -> "complete"
                  [] OTHER -> "skip?")
  /\ UNCHANGED <<features, app, user, throttle, callback, request, present_count, chain, acquiring,
                 blitting, fencing, gpu, display, events, wait_queue, skip_waits>>

\* skip_waits is read without the lock.
CheckSkipWaits ==
  /\ waiter.at = "skip?"
  /\ IF skip_waits THEN WaiterGoto("release")
     ELSE waiter' = [at |-> "present", swapchain |-> swapchain.id]
  /\ UNCHANGED <<features, app, user, throttle, callback, request, present_count, chain, acquiring,
                 blitting, fencing, gpu, display, events, wait_queue, skip_waits>>

\* The present with this ID is shown, or the frame is done.
frame_shown == \A p \in InFlight :
  p.swapchain = waiter.swapchain /\ p.id # 0 => p.id > Head(wait_queue).id
frame_done == complete >= Head(wait_queue).count

\* vkWaitForPresentKHR, or the wait for the blit, returns.
Wait ==
  /\ \/ waiter.at = "present" /\ frame_shown
     \/ waiter.at = "complete" /\ frame_done
  /\ WaiterGoto("release")
  /\ UNCHANGED <<features, app, user, throttle, callback, request, present_count, chain, acquiring,
                 blitting, fencing, gpu, display, events, wait_queue, skip_waits>>

ReleaseFrame ==
  /\ waiter.at = "release"
  /\ latency' = IF supports_present_wait THEN latency + 1 ELSE latency
  /\ wait_queue' = Tail(wait_queue)
  /\ WaiterGoto("look")
  /\ UNCHANGED <<features, app, user, wait_counts, done_event, outstanding, callback, request,
                 present_count, chain, acquiring, blitting, fencing, gpu, display, events,
                 skip_waits>>

-----------------------------------------------------------------------------
\* What the application does of its own accord.
Call == (\E mode \in Modes : Present(mode)) \/ ChangeProperties \/ Release

AppStep ==
  \/ WaitInternalHandle \/ WaitDoneEvent
  \/ ReallocateUserBuffers
  \/ DrainQueue \/ DrainGpu \/ Cleanup

CallbackStep ==
  \/ TakeRequest \/ Destroy \/ DrainWaiter \/ Create
  \/ TryAcquire \/ Reclaim \/ AcquireNextImage \/ SubmitBlit \/ QueuePresentKHR
  \/ FinishPresent \/ SignalDoneEvent

WaiterStep == Look \/ CheckSkipWaits \/ Wait \/ ReleaseFrame

Next == Call \/ AppStep \/ CallbackStep \/ WaiterStep \/ Execute \/ Show

Spec == Init /\ [][Next]_vars

-----------------------------------------------------------------------------
(* Properties.                                                             *)

\* The variables have the types their declarations in struct dxgi_vk_swap_chain
\* give them; the latency semaphore never exceeds FrameLatency.
TypeOK ==
  /\ supports_present_wait \in BOOLEAN /\ maintenance1 \in BOOLEAN
  /\ app \in {"idle", "latency", "event", "resize", "drain_queue", "drain_gpu",
              "join", "gone"}
  /\ user_count \in 0..MaxPresents /\ {user_images, user_views} \subseteq 0..MaxEvents
  /\ request_ring \in [Slots -> [count : 0..MaxPresents, mode : Modes \cup {NoMode}]]
  /\ wait_counts \in 0..MaxPresents /\ latency \in 0..FrameLatency
  /\ done_event \in BOOLEAN /\ outstanding \in BOOLEAN
  /\ callback.at \in {"idle", "destroy", "drain_waiter", "create", "acquire", "reclaim",
                      "next_image", "blit", "present", "signal", "done"}
  /\ callback.retry \in 0..Retries /\ callback.eager \in BOOLEAN
  /\ callback.then \in {"idle", "create", "signal"}
  /\ request \in [count : 0..MaxPresents, mode : Modes \cup {NoMode}]
  /\ present_count \in 0..MaxPresents
  /\ force \in BOOLEAN /\ surface_lost \in BOOLEAN
  /\ created \in Nat /\ swapchain \in [id : 0..created, mode : Modes \cup {NoMode}]
  /\ image \in Images \cup {NoImage}
  /\ present_id \in 0..MaxPresents /\ present_id_valid \in BOOLEAN
  /\ semaphore_index \in Slots
  /\ signalled \in [Slots -> BOOLEAN] /\ consumed_at \in [Slots -> 0..blit_count]
  /\ fences \in [Slots -> 0..blit_count] /\ fence_index \in Slots
  /\ blit_count \in Nat /\ blit_timelines \in [Images -> 0..blit_count]
  /\ blit_done \in 0..blit_count /\ complete \in 0..user_count
  /\ acquired \subseteq Slots
  /\ events \in 0..MaxEvents /\ skip_waits \in BOOLEAN
  /\ waiter.at \in {"look", "skip?", "present", "complete", "release", "ended"}
  /\ waiter.swapchain \in 0..created

\* A request stays in the ring until its callback has picked it up: the ring has
\* no count of its own, only the throttling of Present protects it.
RequestsAreKept ==
  /\ \A n \in (present_count + 1)..user_count :
       \/ request_ring[n % Buffers].count = n
       \/ callback # Idle /\ n = present_count + 1
  /\ callback # Idle /\ ~callback.eager => request.count = present_count + 1

\* The waiter waits for a present on the VkSwapchainKHR that present went to,
\* while it exists: it reads vk_swapchain without a lock, whatever resizes, mode
\* changes, failed presents and the Release do to it meanwhile.
WaitsAreForTheSwapchain ==
  /\ waiter.at = "present" => waiter.swapchain = swapchain.id /\ swapchain # NoSwapchain
  /\ \A i \in DOMAIN wait_queue :
       wait_queue[i].id # 0 => wait_queue[i].swapchain = swapchain.id

\* With VK_EXT_swapchain_maintenance1 no VkSwapchainKHR is destroyed before its
\* presents are through with it.
PresentsAreForTheSwapchain ==
  maintenance1 => \A p \in InFlight : p.swapchain = swapchain.id

\* Both of those who use a VkSwapchainKHR after the callback that presented are
\* done with it when it is destroyed.
SwapchainsOutliveTheirUsers == WaitsAreForTheSwapchain /\ PresentsAreForTheSwapchain

Waiting(i) == {k \in DOMAIN vk_queue : vk_queue[k].op # "complete" /\ vk_queue[k].semaphore = i}

\* Signals and waits of an acquire semaphore alternate, as a binary semaphore
\* needs, and acquire_semaphore_signalled knows which is next; until Release
\* submits the last waits, and leaves the flags as they are.
AcquireSemaphoresAlternate ==
  \A i \in Slots :
    /\ Cardinality(Waiting(i)) <= 1
    /\ app \notin {"drain_gpu", "join", "gone"} =>
         /\ signalled[i] => Waiting(i) = {} /\ i \in acquired
         /\ ~signalled[i] => (i \in acquired <=> Waiting(i) # {})

\* ResizeBuffers, also one that fails, frees no buffer and destroys no view that a
\* blit the GPU has not done was recorded with.  It does not say that the view a
\* blit is recorded with is any good: after a reallocation that failed user_views
\* and user_images differ, and until one succeeds a blit that draws is recorded
\* with a view that is NULL or of a freed buffer.
NothingIsFreedUnderABlit ==
  \A k \in DOMAIN vk_queue :
    vk_queue[k].op = "blit" =>
      vk_queue[k].from = user_images /\ vk_queue[k].view = user_views

\* Who can go on: each party with the condition it waits for, where it waits for any.
AppIsReady ==
  \/ app = "latency" /\ frames_released
  \/ app = "event"
  \/ app = "resize" /\ user_images_drained
  \/ app = "drain_queue" /\ callbacks_drained
  \/ app = "drain_gpu" /\ gpu_drained
  \/ app = "join" /\ waiter.at = "ended" /\ request_done

CallbackIsReady ==
  \/ callback = Idle /\ present_count < user_count
  \/ callback.at \in {"create", "acquire", "signal", "done"}
  \/ At("destroy") /\ swapchain_drained
  \/ At("drain_waiter") /\ waiter_drained
  \/ At("reclaim") /\ reclaimed(semaphore_index)
  \/ At("next_image") /\ \E i \in Images : Available(i)
  \/ At("blit") /\ command_buffer_free
  \/ At("present") /\ fence_signalled

WaiterIsReady ==
  \/ waiter.at = "look" /\ wait_queue # <<>>
  \/ waiter.at \in {"skip?", "release"}
  \/ waiter.at = "present" /\ frame_shown
  \/ waiter.at = "complete" /\ frame_done

GpuIsReady == vk_queue # <<>> /\ executable
DisplayIsReady == presents # <<>> /\ showable

\* No call is stuck, whatever the window system fails: presents that show nothing
\* release the application like others, and no thread waits for a thread that
\* waits for it.  (Every step but a call uses up work, so some end is reached.)
NobodyIsStuck ==
  (app \notin {"idle", "gone"} \/ (outstanding /\ ~done_event)) =>
    AppIsReady \/ CallbackIsReady \/ WaiterIsReady \/ GpuIsReady \/ DisplayIsReady
=============================================================================
