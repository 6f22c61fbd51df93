--------------------------- MODULE MultiFenceEvent ---------------------------
(***************************************************************************)
(* One call of SetEventOnMultipleFenceCompletion                           *)
(* (src/libs/vkd3d/device.c) and the fences it is registered with          *)
(* (src/libs/vkd3d/command.c).  The fences share a payload word: a counter *)
(* of those that have yet to process the wait, and a bit that says that    *)
(* the event may still be signalled.  Each fence works on it under its own *)
(* mutex only, the caller that gives up under none.                        *)
(***************************************************************************)
EXTENDS Integers, FiniteSets

CONSTANTS
  Fences,
  MaxValue,   \* bound: fence values
  FenceCount, \* entries of the call; one entry is SetEventOnCompletion
  Waits       \* the arrays of (fence, value) an application may pass

Value == 0 .. MaxValue
Entry == 1 .. FenceCount

ASSUME MultiFenceAssumption ==
  /\ MaxValue \in Nat
  /\ FenceCount \in Nat /\ FenceCount > 1
  /\ Waits \subseteq [Entry -> [fence : Fences, value : Value]]

OutOfMemory == "E_OUTOFMEMORY"

VARIABLES
  request, \* the arguments: type, whether event is NULL, and the waits
  caller,  \* where the calling thread is
  next,    \* the entry it is registering
  hr,      \* what it returns
  value,   \* virtual value of each fence
  at,      \* where each entry is
  payload, \* signal bit and counter
  freed,   \* the payload has been freed
  signals, \* times the event was signalled (or the latch set)
  latch,   \* of a caller that blocks inside d3d12_fence
  open     \* the event's handle has not been closed by this call

vars == <<request, caller, next, hr, value, at, payload, freed, signals, latch, open>>

(***************************************************************************)
(* An entry's fence has taken it off its list when it is due.  The rest is *)
(* vkd3d_waiting_event_signal.  With MULTI_ANY: saw_bit, the bit was set   *)
(* when it was read; won (lost), this was (was not) the thread that        *)
(* cleared it.  signalling: do_signal is true and the counter is done with.*)
(***************************************************************************)
InFlight == {"due", "saw_bit", "won", "lost", "signalling"}

EntryState == {"unregistered", "listed", "done"} \cup InFlight

CallerState ==
  {"registering", \* about to lock the fence of entry next
   "inline",      \* holds that lock, the value is visible already
   "blocked",     \* in pthread_cond_wait on null_event_cond
   "failed",      \* entry next could not be listed
   "cancelled",   \* the signal bit is cleared, the counter is not yet adjusted
   "acquiring",   \* waits for its temporary event
   "returned"}

\* A NULL event is replaced by a temporary one, but only to wait for any.
Temporary == request.null /\ ~request.all
NoHandle  == request.null /\ request.all

\* The mutex of an entry's fence is held while the fence works through the
\* entries that are due, in the order of its array.
SameFence(i, j) == request.waits[i].fence = request.waits[j].fence
Locked(f) == \E i \in Entry : request.waits[i].fence = f /\ at[i] \in InFlight
Turn(i) ==
  /\ at[i] \in InFlight
  /\ \A j \in Entry : j < i /\ SameFence(i, j) => at[j] \notin InFlight

Init ==
  /\ request \in [all : BOOLEAN, null : BOOLEAN, waits : Waits]
  /\ value \in [Fences -> Value]
  /\ caller = "registering"
  /\ next = 1
  /\ hr = "none"
  /\ at = [i \in Entry |-> "unregistered"]
  /\ payload = [bit |-> TRUE, count |-> FenceCount]
  /\ freed = FALSE
  /\ signals = 0
  /\ latch = FALSE
  /\ open = TRUE

-----------------------------------------------------------------------------
(***************************************************************************)
(* The fences.                                                             *)
(***************************************************************************)

\* A value becomes visible, by a CPU signal or by a fence worker (which repeats
\* this for each pending update).
Signal(f, v) ==
  /\ ~Locked(f)
  /\ value' = [value EXCEPT ![f] = v]
  /\ at' = [i \in Entry |->
             IF /\ at[i] = "listed"
                /\ request.waits[i].fence = f
                /\ request.waits[i].value <= v
               THEN "due" ELSE at[i]]
  /\ UNCHANGED <<request, caller, next, hr, payload, freed, signals, latch, open>>

\* Mutant: the last of all signals without a look at the bit.
DecrementAll_ignores_bit(i) ==
  /\ request.all
  /\ at[i] = "due" /\ Turn(i)
  /\ payload' = [payload EXCEPT !.count = @ - 1]
  /\ freed' = (payload.count = 1)
  /\ at' = [at EXCEPT ![i] = IF payload.count = 1 THEN "signalling" ELSE "done"]
  /\ UNCHANGED <<request, caller, next, hr, value, signals, latch, open>>

\* MULTI_ALL: whoever brings the counter to zero owns the payload, and signals
\* unless the call was cancelled.
DecrementAll(i) ==
  /\ request.all
  /\ at[i] = "due" /\ Turn(i)
  /\ payload' = [payload EXCEPT !.count = @ - 1]
  /\ freed' = (payload.count = 1)
  /\ at' = [at EXCEPT ![i] =
             IF payload.count = 1 /\ payload.bit THEN "signalling" ELSE "done"]
  /\ UNCHANGED <<request, caller, next, hr, value, signals, latch, open>>

\* MULTI_ANY: a first look at the bit, without the atomic operation.
LoadBit(i) ==
  /\ ~request.all
  /\ at[i] = "due" /\ Turn(i)
  /\ at' = [at EXCEPT ![i] = IF payload.bit THEN "saw_bit" ELSE "lost"]
  /\ UNCHANGED <<request, caller, next, hr, value, payload, freed, signals, latch, open>>

\* Mutant: the load decides, and the bit is cleared by a plain store.
ClearBit_trusts_load(i) ==
  /\ at[i] = "saw_bit" /\ Turn(i)
  /\ payload' = [payload EXCEPT !.bit = FALSE]
  /\ at' = [at EXCEPT ![i] = "won"]
  /\ UNCHANGED <<request, caller, next, hr, value, freed, signals, latch, open>>

\* MULTI_ANY: the atomic and returns the old word, so that one thread wins.
ClearBit(i) ==
  /\ at[i] = "saw_bit" /\ Turn(i)
  /\ payload' = [payload EXCEPT !.bit = FALSE]
  /\ at' = [at EXCEPT ![i] = IF payload.bit THEN "won" ELSE "lost"]
  /\ UNCHANGED <<request, caller, next, hr, value, freed, signals, latch, open>>

\* MULTI_ANY: the counter as a reference count.
DecrementAny(i) ==
  /\ at[i] \in {"won", "lost"} /\ Turn(i)
  /\ payload' = [payload EXCEPT !.count = @ - 1]
  /\ freed' = (payload.count = 1 /\ ~payload.bit)
  /\ at' = [at EXCEPT ![i] = IF at[i] = "won" THEN "signalling" ELSE "done"]
  /\ UNCHANGED <<request, caller, next, hr, value, signals, latch, open>>

\* Set the native event, or the latch where there is none.
SignalEvent(i) ==
  /\ at[i] = "signalling" /\ Turn(i)
  /\ at' = [at EXCEPT ![i] = "done"]
  /\ signals' = signals + 1
  /\ latch' = (latch \/ NoHandle)
  /\ UNCHANGED <<request, caller, next, hr, value, payload, freed, open>>

Process(i) ==
  \/ DecrementAll(i) \/ LoadBit(i) \/ ClearBit(i) \/ DecrementAny(i) \/ SignalEvent(i)

-----------------------------------------------------------------------------
(***************************************************************************)
(* The caller.                                                             *)
(***************************************************************************)
NextFence == request.waits[next].fence
NextReached == request.waits[next].value <= value[NextFence]

\* The loop goes on, or ends with S_OK and, for a temporary event, the wait.
Advance ==
  IF next < FenceCount
    THEN next' = next + 1 /\ caller' = "registering" /\ hr' = hr
    ELSE /\ next' = next
         /\ caller' = IF Temporary THEN "acquiring" ELSE "returned"
         /\ hr' = IF Temporary THEN hr ELSE "S_OK"

\* The value is visible: the caller itself does what the fence would do.
RegisterReached ==
  /\ caller = "registering" /\ ~Locked(NextFence) /\ NextReached
  /\ at' = [at EXCEPT ![next] = "due"]
  /\ caller' = "inline"
  /\ UNCHANGED <<request, next, hr, value, payload, freed, signals, latch, open>>

\* The entry is listed.  Without a handle the caller sleeps on the fence.
RegisterListed ==
  /\ caller = "registering" /\ ~Locked(NextFence) /\ ~NextReached
  /\ at' = [at EXCEPT ![next] = "listed"]
  /\ IF NoHandle
       THEN latch' = FALSE /\ caller' = "blocked" /\ UNCHANGED <<next, hr>>
       ELSE Advance /\ UNCHANGED latch
  /\ UNCHANGED <<request, value, payload, freed, signals, open>>

\* The array of events cannot grow.
RegisterFails ==
  /\ caller = "registering" /\ ~Locked(NextFence) /\ ~NextReached
  /\ caller' = "failed"
  /\ UNCHANGED <<request, next, hr, value, at, payload, freed, signals, latch, open>>

\* vkd3d_waiting_event_signal returned, or the latch was found set.
Continue ==
  /\ \/ caller = "inline" /\ at[next] = "done"
     \/ caller = "blocked" /\ latch /\ ~Locked(NextFence)
  /\ Advance
  /\ UNCHANGED <<request, value, at, payload, freed, signals, latch, open>>

\* Mutant: the error is returned whatever became of the bit.
Cancel_always_fails ==
  /\ caller = "failed"
  /\ payload' = [payload EXCEPT !.bit = FALSE]
  /\ hr' = OutOfMemory
  /\ caller' = "cancelled"
  /\ UNCHANGED <<request, next, value, at, freed, signals, latch, open>>

\* From here on no fence will signal, unless one has cleared the bit before:
\* then the call succeeds.
Cancel ==
  /\ caller = "failed"
  /\ payload' = [payload EXCEPT !.bit = FALSE]
  /\ hr' = IF payload.bit THEN OutOfMemory ELSE "S_OK"
  /\ caller' = "cancelled"
  /\ UNCHANGED <<request, next, value, at, freed, signals, latch, open>>

\* Mutant: the entry that failed is not counted among those to withdraw.
Withdraw_off_by_one ==
  /\ caller = "cancelled"
  /\ payload' = [payload EXCEPT !.count = @ - (FenceCount - next)]
  /\ freed' = (payload'.count = 0 /\ ~payload.bit)
  /\ caller' = "returned"
  /\ open' = ~Temporary
  /\ UNCHANGED <<request, next, hr, value, at, signals, latch>>

\* The entries that were never registered leave the counter.
Withdraw ==
  /\ caller = "cancelled"
  /\ payload' = [payload EXCEPT !.count = @ - (FenceCount - next + 1)]
  /\ freed' = (payload'.count = 0 /\ ~payload.bit)
  /\ caller' = "returned"
  /\ open' = ~Temporary
  /\ UNCHANGED <<request, next, hr, value, at, signals, latch>>

\* Mutant: the temporary event is destroyed without waiting for it.
Acquire_without_wait ==
  /\ caller = "acquiring"
  /\ caller' = "returned"
  /\ hr' = "S_OK"
  /\ open' = FALSE
  /\ UNCHANGED <<request, next, value, at, payload, freed, signals, latch>>

\* The temporary event has been signalled, and is destroyed.
Acquire ==
  /\ caller = "acquiring"
  /\ signals > 0
  /\ caller' = "returned"
  /\ hr' = "S_OK"
  /\ open' = FALSE
  /\ UNCHANGED <<request, next, value, at, payload, freed, signals, latch>>

Call == RegisterReached \/ RegisterListed \/ RegisterFails \/ Continue
          \/ Cancel \/ Withdraw \/ Acquire

Next ==
  \/ \E f \in Fences, v \in Value : Signal(f, v)
  \/ \E i \in Entry : Process(i)
  \/ Call

Spec == Init /\ [][Next]_vars

\* A thread that holds a fence's mutex does not stop, and neither does the
\* caller.
FairSpec ==
  /\ Spec
  /\ \A i \in Entry : WF_vars(Process(i))
  /\ WF_vars(Call)
-----------------------------------------------------------------------------
\* Every variable has the values it is meant to have.
TypeOK ==
  /\ request \in [all : BOOLEAN, null : BOOLEAN, waits : Waits]
  /\ caller \in CallerState
  /\ next \in Entry
  /\ hr \in {"none", "S_OK", OutOfMemory}
  /\ value \in [Fences -> Value]
  /\ at \in [Entry -> EntryState]
  /\ payload \in [bit : BOOLEAN, count : 0 .. FenceCount]
  /\ freed \in BOOLEAN
  /\ signals \in 0 .. 1
  /\ latch \in BOOLEAN
  /\ open \in BOOLEAN

\* Entries that will still touch the payload, and those the caller stands for.
Outstanding ==
  { i \in Entry : \/ at[i] \in {"listed", "due", "saw_bit", "won", "lost"}
                  \/ at[i] = "unregistered" /\ caller # "returned" }

\* The payload lives exactly as long as somebody may touch it, whoever comes
\* last: the counter is the number of those, and it is freed by the last one,
\* neither earlier nor, when a call fails half-way, never.
PayloadIsExact ==
  /\ payload.count = Cardinality(Outstanding)
  /\ freed <=> Outstanding = {}

\* Fences that have decided to signal the event, and have not done so yet.
Winners == { i \in Entry : at[i] \in {"won", "signalling"} }

\* The event is signalled at most once, and never once the call has decided to
\* return an error, although fences it is already listed with may fire then.
OneSignalOrAnError ==
  /\ \A i, j \in Winners : i = j
  /\ Winners # {} => signals = 0 /\ hr # OutOfMemory
  /\ hr = OutOfMemory => signals = 0

\* A call that registered all its entries destroys its temporary event only
\* when nobody will signal it any more.
TemporaryEventIsOpen ==
  ~open /\ (\A i \in Entry : at[i] # "unregistered") => Winners = {}

\* Without an event, the caller blocks until the fence it is blocked on has
\* completed the value.
BlockedUntilCompletion ==
  caller = "blocked" =>
    \/ latch
    \/ at[next] # "done"

\* The call and its fences keep the promise of MultiFenceWait.
Promise == INSTANCE MultiFenceWait WITH
  all     <- request.all,
  reached <- { i \in Entry : at[i] \notin {"unregistered", "listed"} },
  outcome <- hr

PromiseIsKept == Promise!Spec
=============================================================================
