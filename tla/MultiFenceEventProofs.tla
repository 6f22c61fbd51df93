------------------------ MODULE MultiFenceEventProofs ------------------------
(***************************************************************************)
(* The shared counter of SetEventOnMultipleFenceCompletion is right for    *)
(* any number of entries, fences and values, and the protocol keeps its    *)
(* promise in every step.                                                  *)
(***************************************************************************)
EXTENDS MultiFenceEvent, FiniteSetTheorems, TLAPS

\* Entries are registered in order, and by the time the call returns with the
\* bit still set all of them are.
RegisteredInOrder ==
  /\ caller \in {"registering", "failed", "cancelled"} =>
       \A i \in Entry : at[i] = "unregistered" <=> i >= next
  /\ caller \in {"inline", "blocked"} =>
       \A i \in Entry : at[i] = "unregistered" <=> i > next
  /\ caller = "acquiring" => \A i \in Entry : at[i] # "unregistered"
  /\ caller = "returned" /\ payload.bit =>
       \A i \in Entry : at[i] # "unregistered"

\* The call decides once, and an error is returned with the bit cleared.
DecidedOnce ==
  /\ hr = "none" <=> caller \notin {"cancelled", "returned"}
  /\ hr = OutOfMemory => ~payload.bit
  /\ caller = "cancelled" => ~payload.bit

\* Who has looked at the bit knows it is, or will be, cleared.
BitIsCleared ==
  \A i \in Entry :
    /\ at[i] \in {"saw_bit", "won", "lost"} => ~request.all
    /\ at[i] \in {"won", "lost"} => ~payload.bit

\* Why there is one winner: waiting for any, it has cleared the bit; waiting
\* for all, it is the last to be counted.
WinnerIsKnown ==
  /\ ~request.all /\ payload.bit => Winners = {} /\ signals = 0
  /\ request.all /\ (Winners # {} \/ signals # 0) =>
       \A j \in Entry : at[j] \in {"signalling", "done"}

IInv ==
  /\ TypeOK
  /\ RegisteredInOrder
  /\ DecidedOnce
  /\ BitIsCleared
  /\ WinnerIsKnown
  /\ OneSignalOrAnError
  /\ PayloadIsExact

-----------------------------------------------------------------------------
(***************************************************************************)
(* Counting.                                                               *)
(***************************************************************************)

\* Sets of entries can be counted, and count no more than FenceCount.
LEMMA EntriesAreFinite ==
  ASSUME NEW S \in SUBSET Entry
  PROVE  /\ IsFiniteSet(S)
         /\ Cardinality(S) \in 0 .. FenceCount
         /\ Cardinality(S) = 0 <=> S = {}
<1>1. FenceCount \in Int /\ FenceCount > 1
  BY MultiFenceAssumption
<1>2. IsFiniteSet(Entry) /\ Cardinality(Entry) = FenceCount
  BY <1>1, FS_Interval DEF Entry
<1>3. IsFiniteSet(S) /\ Cardinality(S) <= FenceCount
  BY <1>2, FS_Subset
<1>4. QED
  BY <1>3, FS_CardinalityType, FS_EmptySet, <1>1

\* One entry less is one less to count.
LEMMA OneLess ==
  ASSUME NEW S \in SUBSET Entry, NEW i \in S
  PROVE  Cardinality(S \ {i}) = Cardinality(S) - 1
BY EntriesAreFinite, FS_RemoveElement

\* The entries from next on, as the caller counts them when it gives up.
LEMMA RestLess ==
  ASSUME NEW S \in SUBSET Entry, NEW n \in Entry, n .. FenceCount \subseteq S
  PROVE  Cardinality(S \ (n .. FenceCount))
           = Cardinality(S) - (FenceCount - n + 1)
<1>1. FenceCount \in Int /\ n \in Int /\ n <= FenceCount
  BY MultiFenceAssumption DEF Entry
<1>2. Cardinality(n .. FenceCount) = FenceCount - n + 1
  BY <1>1, FS_Interval
<1>3. S \cap (n .. FenceCount) = n .. FenceCount
  OBVIOUS
<1>4. IsFiniteSet(S) /\ Cardinality(S) \in Nat
  BY EntriesAreFinite, FS_CardinalityType
<1>5. Cardinality(S \ (n .. FenceCount))
        = Cardinality(S) - Cardinality(S \cap (n .. FenceCount))
  BY <1>4, FS_Difference
<1>6. QED
  BY <1>2, <1>3, <1>5

\* The counter is a number.
LEMMA CountIsInteger == TypeOK => payload.count \in Int
BY MultiFenceAssumption DEF TypeOK

\* The payload is exact again after a step that counts one entry off.
LEMMA PayloadCountedOff ==
  ASSUME IInv, NEW i \in Outstanding, Outstanding' = Outstanding \ {i},
         payload'.count = payload.count - 1,
         freed' <=> payload'.count = 0
  PROVE  PayloadIsExact' /\ payload'.count \in 0 .. FenceCount
<1>1. Outstanding \in SUBSET Entry /\ Outstanding' \in SUBSET Entry
  BY DEF Outstanding
<1>2. Cardinality(Outstanding') = Cardinality(Outstanding) - 1
  BY <1>1, OneLess
<1>3. payload.count = Cardinality(Outstanding)
  BY DEF IInv, PayloadIsExact
<1>4. /\ Cardinality(Outstanding') \in 0 .. FenceCount
      /\ Cardinality(Outstanding') = 0 <=> Outstanding' = {}
  BY <1>1, EntriesAreFinite
<1>5. payload'.count = Cardinality(Outstanding')
  BY <1>2, <1>3
<1>6. QED
  BY <1>4, <1>5 DEF PayloadIsExact

\* The same when nobody is counted off and the counter is left alone.
LEMMA PayloadLeftAlone ==
  ASSUME PayloadIsExact, Outstanding' = Outstanding,
         payload'.count = payload.count, freed' = freed
  PROVE  PayloadIsExact'
BY DEF PayloadIsExact

-----------------------------------------------------------------------------
(***************************************************************************)
(* The initial states.                                                     *)
(***************************************************************************)

\* No entry is registered, and all of them are counted.
LEMMA InitImpliesIInv == Init => IInv
<1> SUFFICES ASSUME Init PROVE IInv
  OBVIOUS
<1>0. FenceCount \in Nat /\ FenceCount > 1
  BY MultiFenceAssumption
<1>1. TypeOK
  <2>1. next \in Entry /\ payload \in [bit : BOOLEAN, count : 0 .. FenceCount]
    BY <1>0 DEF Init, Entry
  <2>2. at \in [Entry -> EntryState]
    BY DEF Init, EntryState
  <2>3. request \in [all : BOOLEAN, null : BOOLEAN, waits : Waits]
    BY DEF Init
  <2>4. signals \in 0 .. 1 /\ caller \in CallerState
    BY DEF Init, CallerState
  <2>5. freed \in BOOLEAN /\ latch \in BOOLEAN /\ open \in BOOLEAN
    BY DEF Init
  <2>6. value \in [Fences -> Value] /\ hr = "none"
    BY DEF Init
  <2>7. QED
    BY <2>1, <2>2, <2>3, <2>4, <2>5, <2>6 DEF TypeOK
<1>2. Outstanding = Entry /\ Winners = {}
  BY DEF Init, Outstanding, Winners
<1>3. Cardinality(Entry) = FenceCount /\ Entry # {}
  <2>1. Cardinality(Entry) = FenceCount
    BY <1>0, FS_Interval DEF Entry
  <2>2. 1 \in Entry
    BY <1>0 DEF Entry
  <2>3. QED
    BY <2>1, <2>2
<1>4. PayloadIsExact
  BY <1>2, <1>3 DEF Init, PayloadIsExact
<1>5. RegisteredInOrder /\ DecidedOnce /\ BitIsCleared
  BY <1>0 DEF Init, RegisteredInOrder, DecidedOnce, BitIsCleared, Entry, OutOfMemory
<1>6. WinnerIsKnown /\ OneSignalOrAnError
  BY <1>2 DEF Init, WinnerIsKnown, OneSignalOrAnError, OutOfMemory
<1>7. QED
  BY <1>1, <1>4, <1>5, <1>6 DEF IInv

-----------------------------------------------------------------------------
(***************************************************************************)
(* The steps of the fences.                                                *)
(***************************************************************************)

\* Listed entries that become due are still to be counted.
LEMMA SignalStep ==
  ASSUME IInv, NEW f \in Fences, NEW v \in Value, Signal(f, v)
  PROVE  IInv'
<1>1. \A i \in Entry : \/ at'[i] = at[i]
                       \/ at[i] = "listed" /\ at'[i] = "due"
  BY DEF IInv, TypeOK, Signal
<1>2. TypeOK'
  BY DEF IInv, TypeOK, Signal, EntryState, InFlight
<1>3. Outstanding' = Outstanding /\ Winners' = Winners
  BY <1>1 DEF Signal, Outstanding, Winners
<1>4. RegisteredInOrder' /\ DecidedOnce' /\ BitIsCleared'
  BY <1>1 DEF IInv, Signal, RegisteredInOrder, DecidedOnce, BitIsCleared
<1>5. WinnerIsKnown' /\ OneSignalOrAnError'
  BY <1>1, <1>3 DEF IInv, Signal, WinnerIsKnown, OneSignalOrAnError
<1>6. PayloadIsExact'
  BY <1>3, PayloadLeftAlone DEF IInv, Signal
<1>7. QED
  BY <1>2, <1>4, <1>5, <1>6 DEF IInv

\* The last one counted of those to be waited for wins.
LEMMA DecrementAllStep ==
  ASSUME IInv, NEW i \in Entry, DecrementAll(i)
  PROVE  IInv'
<1>1. /\ i \in Outstanding
      /\ payload'.count = payload.count - 1 /\ payload'.bit = payload.bit
      /\ freed' <=> payload'.count = 0
  <2>1. payload.count \in Int /\ i \in Outstanding
    BY CountIsInteger DEF IInv, DecrementAll, Outstanding
  <2>2. payload' = [payload EXCEPT !.count = @ - 1] /\ freed' = (payload.count = 1)
    BY DEF DecrementAll
  <2>3. payload'.count = payload.count - 1 /\ payload'.bit = payload.bit
    BY <2>2 DEF IInv, TypeOK
  <2>4. payload.count = 1 <=> payload'.count = 0
    BY <2>1, <2>3
  <2>5. freed' <=> payload'.count = 0
    BY <2>1, <2>2, <2>4, Zenon
  <2>6. QED
    BY <2>1, <2>3, <2>5
<1>2. /\ at'[i] \in {"signalling", "done"}
      /\ at'[i] = "signalling" => payload.bit /\ payload'.count = 0
      /\ \A j \in Entry : j # i => at'[j] = at[j]
  BY <1>1 DEF IInv, TypeOK, DecrementAll
<1>3. Outstanding' = Outstanding \ {i}
  BY <1>2 DEF DecrementAll, Outstanding
<1>4. PayloadIsExact' /\ payload'.count \in 0 .. FenceCount
  BY <1>1, <1>3, PayloadCountedOff
<1>5. TypeOK'
  BY <1>4 DEF IInv, TypeOK, DecrementAll, EntryState, InFlight
<1>6. RegisteredInOrder' /\ DecidedOnce' /\ BitIsCleared'
  BY <1>1, <1>2 DEF IInv, DecrementAll, RegisteredInOrder, DecidedOnce, BitIsCleared
<1>7. Winners = {} /\ signals = 0
  BY DEF IInv, DecrementAll, WinnerIsKnown
<1>8. CASE at'[i] = "done"
  <2>1. Winners' = {}
    BY <1>2, <1>7, <1>8 DEF Winners
  <2>2. QED
    BY <2>1, <1>4, <1>5, <1>6, <1>7
    DEF IInv, DecrementAll, WinnerIsKnown, OneSignalOrAnError
<1>9. CASE at'[i] = "signalling"
  <2>1. Winners' = {i}
    BY <1>2, <1>7, <1>9 DEF Winners
  <2>2. Outstanding' = {}
    BY <1>2, <1>4, <1>9, EntriesAreFinite DEF PayloadIsExact, Outstanding
  <2>3. \A j \in Entry : at'[j] \in {"signalling", "done"}
    <3>1. \A j \in Entry : at'[j] # "unregistered"
      BY <1>1, <1>2, <1>6, <1>9, <2>2 DEF Outstanding, RegisteredInOrder, DecrementAll
    <3>2. QED
      BY <2>2, <3>1, <1>5 DEF Outstanding, TypeOK, EntryState, InFlight
  <2>4. hr # OutOfMemory
    BY <1>2, <1>9 DEF IInv, DecidedOnce
  <2>5. WinnerIsKnown' /\ OneSignalOrAnError'
    BY <2>1, <2>3, <2>4, <1>7 DEF DecrementAll, WinnerIsKnown, OneSignalOrAnError
  <2>6. QED
    BY <2>5, <1>4, <1>5, <1>6 DEF IInv
<1>10. QED
  BY <1>2, <1>8, <1>9

\* Reading the bit decides nothing.
LEMMA LoadBitStep ==
  ASSUME IInv, NEW i \in Entry, LoadBit(i)
  PROVE  IInv'
<1>1. /\ at[i] = "due" /\ at'[i] \in {"saw_bit", "lost"}
      /\ at'[i] = "lost" => ~payload.bit
      /\ \A j \in Entry : j # i => at'[j] = at[j]
  BY DEF IInv, TypeOK, LoadBit
<1>2. TypeOK'
  BY DEF IInv, TypeOK, LoadBit, EntryState, InFlight
<1>3. Outstanding' = Outstanding /\ Winners' = Winners
  BY <1>1 DEF LoadBit, Outstanding, Winners
<1>4. RegisteredInOrder' /\ DecidedOnce' /\ BitIsCleared'
  BY <1>1 DEF IInv, LoadBit, RegisteredInOrder, DecidedOnce, BitIsCleared
<1>5. WinnerIsKnown' /\ OneSignalOrAnError'
  BY <1>3 DEF IInv, LoadBit, WinnerIsKnown, OneSignalOrAnError
<1>6. PayloadIsExact'
  BY <1>3, PayloadLeftAlone DEF IInv, LoadBit
<1>7. QED
  BY <1>2, <1>4, <1>5, <1>6 DEF IInv

\* Only the thread that finds the bit set wins, and then nobody has yet.
LEMMA ClearBitStep ==
  ASSUME IInv, NEW i \in Entry, ClearBit(i)
  PROVE  IInv'
<1>1. /\ at[i] = "saw_bit" /\ at'[i] \in {"won", "lost"}
      /\ at'[i] = "won" <=> payload.bit
      /\ \A j \in Entry : j # i => at'[j] = at[j]
      /\ ~payload'.bit /\ payload'.count = payload.count
      /\ ~request.all
  BY DEF IInv, TypeOK, ClearBit, BitIsCleared
<1>2. TypeOK'
  BY DEF IInv, TypeOK, ClearBit, EntryState, InFlight
<1>3. Outstanding' = Outstanding
  BY <1>1 DEF ClearBit, Outstanding
<1>4. Winners' = IF payload.bit THEN {i} ELSE Winners
  BY <1>1 DEF IInv, WinnerIsKnown, Winners
<1>5. RegisteredInOrder' /\ DecidedOnce' /\ BitIsCleared'
  BY <1>1 DEF IInv, ClearBit, RegisteredInOrder, DecidedOnce, BitIsCleared
<1>6. WinnerIsKnown' /\ OneSignalOrAnError'
  BY <1>1, <1>4 DEF IInv, ClearBit, WinnerIsKnown, OneSignalOrAnError, DecidedOnce
<1>7. PayloadIsExact'
  BY <1>1, <1>3, PayloadLeftAlone DEF IInv, ClearBit
<1>8. QED
  BY <1>2, <1>5, <1>6, <1>7 DEF IInv

\* The winner is counted off like the others.
LEMMA DecrementAnyStep ==
  ASSUME IInv, NEW i \in Entry, DecrementAny(i)
  PROVE  IInv'
<1>1. /\ i \in Outstanding
      /\ ~payload.bit /\ ~request.all
      /\ payload'.count = payload.count - 1 /\ payload'.bit = payload.bit
      /\ freed' <=> payload'.count = 0
  <2>1. payload.count \in Int /\ i \in Outstanding /\ ~payload.bit /\ ~request.all
    BY CountIsInteger DEF IInv, DecrementAny, Outstanding, BitIsCleared
  <2>2. /\ payload' = [payload EXCEPT !.count = @ - 1]
        /\ freed' = (payload.count = 1 /\ ~payload.bit)
    BY DEF DecrementAny
  <2>3. payload'.count = payload.count - 1 /\ payload'.bit = payload.bit
    BY <2>2 DEF IInv, TypeOK
  <2>4. payload.count = 1 <=> payload'.count = 0
    BY <2>1, <2>3
  <2>5. freed' <=> payload'.count = 0
    BY <2>1, <2>2, <2>4, Zenon
  <2>6. QED
    BY <2>1, <2>3, <2>5
<1>2. /\ at'[i] = IF at[i] = "won" THEN "signalling" ELSE "done"
      /\ at[i] \in {"won", "lost"}
      /\ \A j \in Entry : j # i => at'[j] = at[j]
  BY DEF IInv, TypeOK, DecrementAny
<1>3. Outstanding' = Outstanding \ {i} /\ Winners' = Winners
  BY <1>2 DEF DecrementAny, Outstanding, Winners
<1>4. PayloadIsExact' /\ payload'.count \in 0 .. FenceCount
  BY <1>1, <1>3, PayloadCountedOff
<1>5. TypeOK'
  BY <1>4 DEF IInv, TypeOK, DecrementAny, EntryState, InFlight
<1>6. RegisteredInOrder' /\ DecidedOnce' /\ BitIsCleared'
  BY <1>1, <1>2 DEF IInv, DecrementAny, RegisteredInOrder, DecidedOnce, BitIsCleared
<1>7. WinnerIsKnown' /\ OneSignalOrAnError'
  BY <1>1, <1>3 DEF IInv, DecrementAny, WinnerIsKnown, OneSignalOrAnError
<1>8. QED
  BY <1>4, <1>5, <1>6, <1>7 DEF IInv

\* The winner signals the event, and there is none left.
LEMMA SignalEventStep ==
  ASSUME IInv, NEW i \in Entry, SignalEvent(i)
  PROVE  IInv'
<1>1. /\ at[i] = "signalling" /\ at'[i] = "done"
      /\ \A j \in Entry : j # i => at'[j] = at[j]
  BY DEF IInv, TypeOK, SignalEvent
<1>2. Winners = {i} /\ Winners' = {} /\ signals = 0 /\ hr # OutOfMemory
  BY <1>1 DEF IInv, OneSignalOrAnError, Winners
<1>3. Outstanding' = Outstanding
  BY <1>1 DEF SignalEvent, Outstanding
<1>4. TypeOK'
  BY <1>2 DEF IInv, TypeOK, SignalEvent, EntryState, InFlight
<1>5. RegisteredInOrder' /\ DecidedOnce' /\ BitIsCleared'
  BY <1>1 DEF IInv, SignalEvent, RegisteredInOrder, DecidedOnce, BitIsCleared
<1>6. WinnerIsKnown' /\ OneSignalOrAnError'
  BY <1>1, <1>2 DEF IInv, SignalEvent, WinnerIsKnown, OneSignalOrAnError
<1>7. PayloadIsExact'
  BY <1>3, PayloadLeftAlone DEF IInv, SignalEvent
<1>8. QED
  BY <1>4, <1>5, <1>6, <1>7 DEF IInv

-----------------------------------------------------------------------------
(***************************************************************************)
(* The steps of the caller.                                                *)
(***************************************************************************)

\* The bounds of the loop.
LEMMA LoopBounds ==
  /\ FenceCount \in Nat /\ FenceCount > 1
  /\ \A i \in Entry : i \in Int /\ 1 <= i /\ i <= FenceCount
  /\ \A i \in Entry : i < FenceCount => i + 1 \in Entry
BY MultiFenceAssumption DEF Entry

\* What the end of one turn of the loop leaves.
LEMMA AdvanceFacts ==
  ASSUME TypeOK, hr = "none", Advance
  PROVE  /\ next' \in Entry
         /\ caller' \in {"registering", "acquiring", "returned"}
         /\ caller' = "registering" => next' = next + 1 /\ next < FenceCount
         /\ caller' # "registering" => next = FenceCount
         /\ hr' = IF caller' = "returned" THEN "S_OK" ELSE "none"
<1>1. next \in Entry
  BY DEF TypeOK
<1>2. CASE next < FenceCount
  BY <1>1, <1>2, LoopBounds DEF Advance
<1>3. CASE ~(next < FenceCount)
  BY <1>1, <1>3, LoopBounds DEF Advance
<1>4. QED
  BY <1>2, <1>3

\* A turn that has left entry next registered leaves the entries in order.
LEMMA AdvanceKeepsOrder ==
  ASSUME IInv, Advance, hr = "none",
         \A i \in Entry : at'[i] = "unregistered" <=> i > next
  PROVE  RegisteredInOrder'
<1>1. next \in Entry
  BY DEF IInv, TypeOK
<1>2. CASE caller' = "registering"
  <2>1. \A i \in Entry : i > next <=> i >= next'
    BY <1>1, <1>2, AdvanceFacts, LoopBounds DEF IInv
  <2>2. QED
    BY <1>2, <2>1 DEF RegisteredInOrder
<1>3. CASE caller' # "registering"
  <2>1. \A i \in Entry : at'[i] # "unregistered"
    BY <1>1, <1>3, AdvanceFacts, LoopBounds DEF IInv
  <2>2. caller' \in {"acquiring", "returned"}
    BY <1>3, AdvanceFacts DEF IInv
  <2>3. QED
    BY <2>1, <2>2 DEF RegisteredInOrder
<1>4. QED
  BY <1>2, <1>3

\* The entry is due at once; it was counted when it was unregistered.
LEMMA RegisterReachedStep ==
  ASSUME IInv, RegisterReached
  PROVE  IInv'
<1>1. /\ next \in Entry /\ at[next] = "unregistered" /\ at'[next] = "due"
      /\ \A j \in Entry : j # next => at'[j] = at[j]
  BY LoopBounds DEF IInv, TypeOK, RegisterReached, RegisteredInOrder
<1>2. TypeOK'
  BY DEF IInv, TypeOK, RegisterReached, EntryState, InFlight, CallerState
<1>3. Outstanding' = Outstanding /\ Winners' = Winners
  BY <1>1 DEF RegisterReached, Outstanding, Winners
<1>4. \A i \in Entry : at'[i] = "unregistered" <=> i > next
  BY <1>1, LoopBounds DEF IInv, RegisterReached, RegisteredInOrder
<1>5. RegisteredInOrder' /\ DecidedOnce' /\ BitIsCleared'
  BY <1>1, <1>4 DEF IInv, RegisterReached, RegisteredInOrder, DecidedOnce, BitIsCleared
<1>6. WinnerIsKnown' /\ OneSignalOrAnError'
  BY <1>1, <1>3 DEF IInv, RegisterReached, WinnerIsKnown, OneSignalOrAnError
<1>7. PayloadIsExact'
  BY <1>3, PayloadLeftAlone DEF IInv, RegisterReached
<1>8. QED
  BY <1>2, <1>5, <1>6, <1>7 DEF IInv

\* The entry is listed, and the caller goes on or goes to sleep.
LEMMA RegisterListedStep ==
  ASSUME IInv, RegisterListed
  PROVE  IInv'
<1>1. /\ next \in Entry /\ at[next] = "unregistered" /\ at'[next] = "listed"
      /\ \A j \in Entry : j # next => at'[j] = at[j]
      /\ hr = "none"
  BY LoopBounds
  DEF IInv, TypeOK, RegisterListed, RegisteredInOrder, DecidedOnce
<1>2. \A i \in Entry : at'[i] = "unregistered" <=> i > next
  BY <1>1, LoopBounds DEF IInv, RegisterListed, RegisteredInOrder
<1>3. Winners' = Winners
  BY <1>1 DEF Winners
<1>4. /\ UNCHANGED <<request, value, payload, freed, signals, open>>
      /\ at' = [at EXCEPT ![next] = "listed"]
  BY DEF RegisterListed
<1>5. BitIsCleared' /\ WinnerIsKnown'
  BY <1>1, <1>3, <1>4 DEF IInv, BitIsCleared, WinnerIsKnown
<1>6. CASE NoHandle
  <2>1. caller' = "blocked" /\ next' = next /\ hr' = hr /\ latch' = FALSE
    BY <1>6 DEF RegisterListed
  <2>2. TypeOK'
    BY <1>4, <2>1 DEF IInv, TypeOK, EntryState, CallerState
  <2>3. RegisteredInOrder' /\ DecidedOnce'
    BY <1>1, <1>2, <1>4, <2>1 DEF RegisteredInOrder, DecidedOnce, OutOfMemory
  <2>4. OneSignalOrAnError'
    BY <1>3, <1>4, <2>1 DEF IInv, OneSignalOrAnError
  <2>5. Outstanding' = Outstanding
    BY <1>1, <2>1 DEF RegisterListed, Outstanding
  <2>6. QED
    BY <1>4, <1>5, <2>2, <2>3, <2>4, <2>5, PayloadLeftAlone DEF IInv
<1>7. CASE ~NoHandle
  <2>1. Advance /\ latch' = latch
    BY <1>7 DEF RegisterListed
  <2>2. TypeOK'
    BY <1>1, <1>4, <2>1, AdvanceFacts DEF IInv, TypeOK, EntryState, CallerState
  <2>3. RegisteredInOrder'
    BY <1>1, <1>2, <2>1, AdvanceKeepsOrder
  <2>4. DecidedOnce'
    BY <1>1, <2>1, AdvanceFacts DEF IInv, DecidedOnce, OutOfMemory
  <2>5. OneSignalOrAnError'
    BY <1>1, <1>3, <1>4, <2>1, AdvanceFacts DEF IInv, OneSignalOrAnError, OutOfMemory
  <2>6. Outstanding' = Outstanding
    BY <1>1, <1>2, <2>1, AdvanceFacts, LoopBounds
    DEF IInv, RegisterListed, Outstanding
  <2>7. QED
    BY <1>4, <1>5, <2>2, <2>3, <2>4, <2>5, <2>6, PayloadLeftAlone DEF IInv
<1>8. QED
  BY <1>6, <1>7

\* Nothing but the caller's place changes.
LEMMA RegisterFailsStep ==
  ASSUME IInv, RegisterFails
  PROVE  IInv'
<1>1. TypeOK'
  BY DEF IInv, TypeOK, RegisterFails, CallerState
<1>2. Outstanding' = Outstanding /\ Winners' = Winners
  BY DEF RegisterFails, Outstanding, Winners
<1>3. RegisteredInOrder' /\ DecidedOnce' /\ BitIsCleared'
  BY DEF IInv, RegisterFails, RegisteredInOrder, DecidedOnce, BitIsCleared
<1>4. WinnerIsKnown' /\ OneSignalOrAnError'
  BY <1>2 DEF IInv, RegisterFails, WinnerIsKnown, OneSignalOrAnError
<1>5. PayloadIsExact'
  BY <1>2, PayloadLeftAlone DEF IInv, RegisterFails
<1>6. QED
  BY <1>1, <1>3, <1>4, <1>5 DEF IInv

\* The next turn of the loop, or its end.
LEMMA ContinueStep ==
  ASSUME IInv, Continue
  PROVE  IInv'
<1>1. /\ Advance /\ caller \in {"inline", "blocked"} /\ hr = "none"
      /\ UNCHANGED <<request, value, at, payload, freed, signals, latch, open>>
  BY DEF IInv, Continue, DecidedOnce
<1>2. \A i \in Entry : at'[i] = "unregistered" <=> i > next
  BY <1>1 DEF IInv, RegisteredInOrder
<1>3. TypeOK'
  BY <1>1, AdvanceFacts DEF IInv, TypeOK, CallerState
<1>4. RegisteredInOrder'
  BY <1>1, <1>2, AdvanceKeepsOrder
<1>5. Winners' = Winners
  BY <1>1 DEF Winners
<1>6. Outstanding' = Outstanding
  <2>1. next \in Entry
    BY DEF IInv, TypeOK
  <2>2. QED
    BY <1>1, <1>2, <2>1, AdvanceFacts, LoopBounds DEF IInv, Outstanding
<1>7. DecidedOnce' /\ BitIsCleared'
  BY <1>1, AdvanceFacts DEF IInv, DecidedOnce, BitIsCleared, OutOfMemory
<1>8. WinnerIsKnown' /\ OneSignalOrAnError'
  BY <1>1, <1>5, AdvanceFacts DEF IInv, WinnerIsKnown, OneSignalOrAnError, OutOfMemory
<1>9. PayloadIsExact'
  BY <1>1, <1>6, PayloadLeftAlone DEF IInv
<1>10. QED
  BY <1>3, <1>4, <1>7, <1>8, <1>9 DEF IInv

\* The error is returned only if the bit was still set: then there is no winner
\* waiting for any, and waiting for all the failed entry is yet to be counted.
LEMMA CancelStep ==
  ASSUME IInv, Cancel
  PROVE  IInv'
<1>1. /\ caller = "failed" /\ caller' = "cancelled"
      /\ payload'.count = payload.count /\ ~payload'.bit
      /\ UNCHANGED <<request, next, value, at, freed, signals, latch, open>>
  BY DEF IInv, TypeOK, Cancel
<1>2. next \in Entry /\ at[next] = "unregistered"
  BY <1>1, LoopBounds DEF IInv, TypeOK, RegisteredInOrder
<1>3. TypeOK'
  BY DEF IInv, TypeOK, Cancel, CallerState
<1>4. Outstanding' = Outstanding /\ Winners' = Winners
  BY <1>1 DEF Outstanding, Winners
<1>5. RegisteredInOrder' /\ DecidedOnce' /\ BitIsCleared'
  BY <1>1 DEF IInv, Cancel, RegisteredInOrder, DecidedOnce, BitIsCleared, OutOfMemory
<1>6. payload.bit => Winners = {} /\ signals = 0
  BY <1>2 DEF IInv, WinnerIsKnown
<1>7. WinnerIsKnown' /\ OneSignalOrAnError'
  BY <1>1, <1>4, <1>6 DEF IInv, Cancel, WinnerIsKnown, OneSignalOrAnError, OutOfMemory
<1>8. PayloadIsExact'
  BY <1>1, <1>4, PayloadLeftAlone DEF IInv
<1>9. QED
  BY <1>3, <1>5, <1>7, <1>8 DEF IInv

\* What the caller takes off the counter is what it stood for.
LEMMA WithdrawStep ==
  ASSUME IInv, Withdraw
  PROVE  IInv'
<1>1. /\ caller = "cancelled" /\ caller' = "returned" /\ ~payload.bit
      /\ payload' = [payload EXCEPT !.count = @ - (FenceCount - next + 1)]
      /\ UNCHANGED <<request, next, hr, value, at, signals, latch>>
  BY DEF IInv, Withdraw, DecidedOnce
<1>2. next \in Entry /\ \A i \in Entry : at[i] = "unregistered" <=> i >= next
  BY <1>1 DEF IInv, TypeOK, RegisteredInOrder
<1>3. next .. FenceCount = { i \in Entry : at[i] = "unregistered" }
  BY <1>2, LoopBounds DEF Entry
<1>4. /\ next .. FenceCount \subseteq Outstanding
      /\ Outstanding' = Outstanding \ (next .. FenceCount)
  BY <1>1, <1>3 DEF Outstanding
<1>5. Outstanding \in SUBSET Entry /\ Outstanding' \in SUBSET Entry
  BY DEF Outstanding
<1>6. /\ payload'.count = payload.count - (FenceCount - next + 1)
      /\ payload'.bit = payload.bit
  BY <1>1 DEF IInv, TypeOK
<1>7. payload'.count = Cardinality(Outstanding')
  BY <1>2, <1>4, <1>5, <1>6, RestLess DEF IInv, PayloadIsExact
<1>8. freed' <=> payload'.count = 0
  BY <1>1, Zenon DEF Withdraw
<1>9. PayloadIsExact'
  BY <1>5, <1>7, <1>8, EntriesAreFinite DEF PayloadIsExact
<1>10. TypeOK'
  <2>1. payload' \in [bit : BOOLEAN, count : 0 .. FenceCount]
    BY <1>1, <1>5, <1>6, <1>7, EntriesAreFinite DEF IInv, TypeOK
  <2>2. freed' \in BOOLEAN /\ open' \in BOOLEAN
    BY DEF Withdraw, Temporary
  <2>3. QED
    BY <1>1, <2>1, <2>2 DEF IInv, TypeOK, CallerState
<1>11. Winners' = Winners
  BY <1>1 DEF Winners
<1>12. RegisteredInOrder' /\ DecidedOnce' /\ BitIsCleared'
  BY <1>1, <1>6 DEF IInv, RegisteredInOrder, DecidedOnce, BitIsCleared
<1>13. WinnerIsKnown' /\ OneSignalOrAnError'
  BY <1>1, <1>6, <1>11 DEF IInv, WinnerIsKnown, OneSignalOrAnError
<1>14. QED
  BY <1>9, <1>10, <1>12, <1>13 DEF IInv

\* The call returns with nothing unregistered.
LEMMA AcquireStep ==
  ASSUME IInv, Acquire
  PROVE  IInv'
<1>1. \A i \in Entry : at[i] # "unregistered"
  BY DEF IInv, Acquire, RegisteredInOrder
<1>2. TypeOK'
  BY DEF IInv, TypeOK, Acquire, CallerState
<1>3. Outstanding' = Outstanding /\ Winners' = Winners
  BY <1>1 DEF Acquire, Outstanding, Winners
<1>4. RegisteredInOrder' /\ DecidedOnce' /\ BitIsCleared'
  BY <1>1 DEF IInv, Acquire, RegisteredInOrder, DecidedOnce, BitIsCleared, OutOfMemory
<1>5. WinnerIsKnown' /\ OneSignalOrAnError'
  BY <1>3 DEF IInv, Acquire, WinnerIsKnown, OneSignalOrAnError, OutOfMemory
<1>6. PayloadIsExact'
  BY <1>3, PayloadLeftAlone DEF IInv, Acquire
<1>7. QED
  BY <1>2, <1>4, <1>5, <1>6 DEF IInv

\* A step that changes nothing.
LEMMA StutterStep ==
  ASSUME IInv, UNCHANGED vars
  PROVE  IInv'
BY DEF IInv, vars, TypeOK, RegisteredInOrder, DecidedOnce, BitIsCleared, WinnerIsKnown,
       OneSignalOrAnError, PayloadIsExact, Outstanding, Winners

\* Every step keeps the inductive invariant.
LEMMA NextKeepsIInv == IInv /\ [Next]_vars => IInv'
<1> SUFFICES ASSUME IInv, [Next]_vars PROVE IInv'
  OBVIOUS
<1>1. ASSUME NEW f \in Fences, NEW v \in Value, Signal(f, v) PROVE IInv'
  BY <1>1, SignalStep
<1>2. ASSUME NEW i \in Entry, Process(i) PROVE IInv'
  BY <1>2, DecrementAllStep, LoadBitStep, ClearBitStep, DecrementAnyStep,
     SignalEventStep
  DEF Process
<1>3. CASE Call
  BY <1>3, RegisterReachedStep, RegisterListedStep, RegisterFailsStep, ContinueStep,
     CancelStep, WithdrawStep, AcquireStep
  DEF Call
<1>4. CASE UNCHANGED vars
  BY <1>4, StutterStep
<1>5. QED
  BY <1>1, <1>2, <1>3, <1>4 DEF Next

\* The inductive invariant holds in every reachable state.
THEOREM Invariance == Spec => []IInv
BY InitImpliesIInv, NextKeepsIInv, PTL DEF Spec

\* Every variable keeps its type; the counter does not underflow.
THEOREM TypeCorrect == Spec => []TypeOK
<1>1. IInv => TypeOK
  BY DEF IInv
<1>2. QED
  BY <1>1, Invariance, PTL

\* The payload is freed by the last of those that use it, however the fences and
\* a failing call interleave.
THEOREM PayloadIsExactAlways == Spec => []PayloadIsExact
<1>1. IInv => PayloadIsExact
  BY DEF IInv
<1>2. QED
  BY <1>1, Invariance, PTL

\* The event is signalled once, or the call fails, never both.
THEOREM OneSignalOrAnErrorAlways == Spec => []OneSignalOrAnError
<1>1. IInv => OneSignalOrAnError
  BY DEF IInv
<1>2. QED
  BY <1>1, Invariance, PTL

-----------------------------------------------------------------------------
(***************************************************************************)
(* The temporary event.                                                    *)
(***************************************************************************)

\* The handle is closed by the end of the call, and then the event has been
\* signalled or an entry was never registered.
ClosedForAReason ==
  ~open => /\ caller = "returned"
           /\ signals > 0 \/ \E i \in Entry : at[i] = "unregistered"

\* Closing the handle is the last thing a call does; fences neither take back
\* a signal nor register entries.
LEMMA ClosedForAReasonStep ==
  ASSUME IInv, ClosedForAReason, [Next]_vars
  PROVE  ClosedForAReason'
<1>1. ASSUME NEW f \in Fences, NEW v \in Value, Signal(f, v)
      PROVE  ClosedForAReason'
  BY <1>1 DEF IInv, TypeOK, Signal, ClosedForAReason
<1>2. ASSUME NEW i \in Entry, Process(i) PROVE ClosedForAReason'
  <2>1. /\ at[i] # "unregistered" /\ UNCHANGED <<caller, open>>
        /\ \A j \in Entry : j # i => at'[j] = at[j]
    BY <1>2 DEF IInv, TypeOK, Process, DecrementAll, LoadBit, ClearBit,
                DecrementAny, SignalEvent
  <2>2. signals' = signals \/ signals' = signals + 1
    BY <1>2 DEF Process, DecrementAll, LoadBit, ClearBit, DecrementAny, SignalEvent
  <2>3. signals > 0 => signals' > 0
    BY <2>2 DEF IInv, TypeOK
  <2>4. QED
    BY <2>1, <2>3 DEF ClosedForAReason
<1>3. CASE Call
  <2>1. caller # "returned"
    BY <1>3 DEF Call, RegisterReached, RegisterListed, RegisterFails, Continue,
                Cancel, Withdraw, Acquire
  <2>2. CASE Withdraw
    <3>1. caller' = "returned" /\ at' = at
      BY <2>2 DEF Withdraw
    <3>2. next \in Entry /\ at[next] = "unregistered"
      BY <2>2, LoopBounds DEF IInv, TypeOK, Withdraw, RegisteredInOrder
    <3>3. QED
      BY <3>1, <3>2 DEF ClosedForAReason
  <2>3. CASE Acquire
    BY <2>3 DEF Acquire, ClosedForAReason
  <2>4. CASE ~Withdraw /\ ~Acquire
    <3>1. open' = open
      BY <1>3, <2>4 DEF Call, RegisterReached, RegisterListed, RegisterFails, Continue,
                        Cancel
    <3>2. QED
      BY <2>1, <3>1 DEF ClosedForAReason
  <2>5. QED
    BY <2>2, <2>3, <2>4
<1>4. CASE UNCHANGED vars
  BY <1>4 DEF vars, ClosedForAReason
<1>5. QED
  BY <1>1, <1>2, <1>3, <1>4 DEF Next

\* A temporary event is not destroyed under a fence that is about to signal it, by a
\* call that registered all its entries, for any number of them.  One that fails at
\* an entry is excluded: it destroys the event whoever is about to signal it.
THEOREM TemporaryEventIsOpenAlways == Spec => []TemporaryEventIsOpen
<1>1. Init => ClosedForAReason
  BY DEF Init, ClosedForAReason
<1>2. IInv /\ ClosedForAReason => TemporaryEventIsOpen
  BY DEF IInv, TypeOK, OneSignalOrAnError, ClosedForAReason, TemporaryEventIsOpen
<1>3. Spec => []ClosedForAReason
  BY <1>1, ClosedForAReasonStep, Invariance, PTL DEF Spec
<1>4. QED
  BY <1>2, <1>3, Invariance, PTL

-----------------------------------------------------------------------------
(***************************************************************************)
(* MultiFenceEvent implements MultiFenceWait.                              *)
(***************************************************************************)

\* The entries whose fences have reached their values.
Reached == { i \in Entry : at[i] \notin {"unregistered", "listed"} }

\* At the start no fence has reached anything.
LEMMA InitIsPromised == Init => Promise!Init
BY DEF Init, Promise!Init

\* A fence that makes a value visible reaches all the entries that become due.
LEMMA SignalIsReach ==
  ASSUME IInv, NEW f \in Fences, NEW v \in Value, Signal(f, v)
  PROVE  [Promise!Next]_Promise!vars
<1>1. \A i \in Entry : \/ at'[i] = at[i]
                       \/ at[i] = "listed" /\ at'[i] = "due"
  BY DEF IInv, TypeOK, Signal
<1>2. Reached \subseteq Reached' /\ Reached' \in SUBSET Entry
  BY <1>1 DEF Reached
<1>3. UNCHANGED <<request, signals, hr>>
  BY DEF Signal
<1>4. Promise!Reach
  BY <1>2, <1>3 DEF Promise!Reach, Reached
<1>5. QED
  BY <1>4 DEF Promise!Next

\* The work on the payload is invisible; signalling the event is Deliver.
LEMMA ProcessIsDeliver ==
  ASSUME IInv, NEW i \in Entry, Process(i)
  PROVE  [Promise!Next]_Promise!vars
<1>1. Reached' = Reached /\ UNCHANGED <<request, hr>> /\ i \in Reached
  BY DEF IInv, TypeOK, Process, DecrementAll, LoadBit, ClearBit, DecrementAny,
         SignalEvent, Reached
<1>2. CASE SignalEvent(i)
  <2>1. i \in Winners
    BY <1>2 DEF SignalEvent, Winners
  <2>2. signals = 0 /\ hr # OutOfMemory /\ signals' = 1
    BY <1>2, <2>1 DEF IInv, OneSignalOrAnError, SignalEvent
  <2>3. request.all => Reached = Entry
    BY <2>1 DEF IInv, WinnerIsKnown, Reached
  <2>4. Promise!Deliver
    BY <1>1, <2>2, <2>3 DEF Promise!Deliver, Promise!Enough, Reached
  <2>5. QED
    BY <2>4 DEF Promise!Next
<1>3. CASE ~SignalEvent(i)
  <2>1. signals' = signals
    BY <1>3 DEF Process, DecrementAll, LoadBit, ClearBit, DecrementAny
  <2>2. QED
    BY <1>1, <2>1 DEF Promise!vars, Reached
<1>4. QED
  BY <1>2, <1>3

\* The caller reaches an entry, decides what to return, or does neither.
LEMMA CallIsReachOrReturn ==
  ASSUME IInv, Call
  PROVE  [Promise!Next]_Promise!vars
<1>1. CASE RegisterReached
  <2>1. /\ next \in Entry /\ at[next] = "unregistered" /\ at'[next] = "due"
        /\ \A j \in Entry : j # next => at'[j] = at[j]
    BY <1>1, LoopBounds DEF IInv, TypeOK, RegisterReached, RegisteredInOrder
  <2>2. Reached \subseteq Reached' /\ Reached' \in SUBSET Entry
    BY <2>1 DEF Reached
  <2>3. Promise!Reach
    BY <1>1, <2>2 DEF Promise!Reach, RegisterReached, Reached
  <2>4. QED
    BY <2>3 DEF Promise!Next
<1>2. ASSUME Reached' = Reached, UNCHANGED <<request, signals>>,
             hr' = hr \/ (hr = "none" /\ hr' = "S_OK")
      PROVE  [Promise!Next]_Promise!vars
  <2>1. CASE hr' = hr
    BY <1>2, <2>1 DEF Promise!vars, Reached
  <2>2. CASE hr = "none" /\ hr' = "S_OK"
    <3>1. Promise!Return("S_OK")
      BY <1>2, <2>2 DEF Promise!Return, Reached, OutOfMemory
    <3>2. QED
      BY <3>1 DEF Promise!Next
  <2>3. QED
    BY <1>2, <2>1, <2>2
<1>3. ASSUME Advance, hr = "none" PROVE hr' = hr \/ (hr = "none" /\ hr' = "S_OK")
  BY <1>3, AdvanceFacts DEF IInv
<1>4. CASE RegisterListed
  <2>1. next \in Entry /\ at[next] = "unregistered" /\ hr = "none"
    BY <1>4, LoopBounds
    DEF IInv, TypeOK, RegisterListed, RegisteredInOrder, DecidedOnce
  <2>2. Reached' = Reached
    BY <1>4, <2>1 DEF IInv, TypeOK, RegisterListed, Reached
  <2>3. QED
    BY <1>2, <1>3, <1>4, <2>1, <2>2 DEF RegisterListed
<1>5. CASE RegisterFails \/ Withdraw
  BY <1>2, <1>5 DEF RegisterFails, Withdraw, Reached
<1>6. CASE Continue
  <2>1. hr = "none"
    BY <1>6 DEF IInv, Continue, DecidedOnce
  <2>2. QED
    BY <1>2, <1>3, <1>6, <2>1 DEF Continue, Reached
<1>7. CASE Acquire
  <2>1. hr = "none"
    BY <1>7 DEF IInv, Acquire, DecidedOnce
  <2>2. QED
    BY <1>2, <1>7, <2>1 DEF Acquire, Reached
<1>8. CASE Cancel
  <2>1. hr = "none" /\ next \in Entry /\ at[next] = "unregistered"
    BY <1>8, LoopBounds DEF IInv, TypeOK, Cancel, DecidedOnce, RegisteredInOrder
  <2>2. payload.bit => signals = 0
    BY <2>1 DEF IInv, WinnerIsKnown
  <2>3. CASE payload.bit
    <3>1. Promise!Return(OutOfMemory)
      BY <1>8, <2>1, <2>2, <2>3 DEF Promise!Return, Cancel
    <3>2. QED
      BY <3>1 DEF Promise!Next
  <2>4. CASE ~payload.bit
    BY <1>2, <1>8, <2>1, <2>4 DEF Cancel, Reached
  <2>5. QED
    BY <2>3, <2>4
<1>9. QED
  BY <1>1, <1>4, <1>5, <1>6, <1>7, <1>8 DEF Call

\* Whatever the interleaving of fences, workers and a failing call, each step of
\* the call is one the abstract wait allows, or none at all.
THEOREM CallKeepsItsPromise == Spec => Promise!SafeSpec
<1>1. IInv /\ [Next]_vars => [Promise!Next]_Promise!vars
  <2> SUFFICES ASSUME IInv, [Next]_vars PROVE [Promise!Next]_Promise!vars
    OBVIOUS
  <2>1. ASSUME NEW f \in Fences, NEW v \in Value, Signal(f, v)
        PROVE  [Promise!Next]_Promise!vars
    BY <2>1, SignalIsReach
  <2>2. ASSUME NEW i \in Entry, Process(i) PROVE [Promise!Next]_Promise!vars
    BY <2>2, ProcessIsDeliver
  <2>3. CASE Call
    BY <2>3, CallIsReachOrReturn
  <2>4. CASE UNCHANGED vars
    <3>1. UNCHANGED <<request, at, signals, hr>>
      BY <2>4 DEF vars
    <3>2. Reached' = Reached
      BY <3>1 DEF Reached
    <3>3. QED
      BY <3>1, <3>2 DEF Promise!vars, Reached
  <2>5. QED
    BY <2>1, <2>2, <2>3, <2>4 DEF Next
<1>2. QED
  BY <1>1, InitIsPromised, Invariance, PTL DEF Spec, Promise!SafeSpec
=============================================================================
