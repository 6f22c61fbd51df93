--------------------------- MODULE MultiFenceWait ---------------------------
(***************************************************************************)
(* What ID3D12Device1::SetEventOnMultipleFenceCompletion promises, without *)
(* the shared counter it is made of: the event is signalled once, when all *)
(* (any one) of the fences have reached their values, and never by a call  *)
(* that failed.                                                            *)
(***************************************************************************)
EXTENDS Naturals

CONSTANTS
  Entry,      \* the (fence, value) pairs of the call
  OutOfMemory \* the error a call may fail with

VARIABLES
  all,      \* wait for all the entries, or for any
  reached,  \* entries whose fence has been seen to reach their value
  signals,  \* how often the event has been signalled
  outcome   \* "none" while the call has not decided what to return

vars == <<all, reached, signals, outcome>>

Enough == IF all THEN reached = Entry ELSE reached # {}

Init ==
  /\ all \in BOOLEAN
  /\ reached = {}
  /\ signals = 0
  /\ outcome = "none"

\* A fence has reached the values of some more entries.  A rewind later on
\* changes nothing.
Reach ==
  /\ reached' \in SUBSET Entry
  /\ reached \subseteq reached'
  /\ UNCHANGED <<all, signals, outcome>>

Deliver ==
  /\ Enough
  /\ signals = 0
  /\ outcome # OutOfMemory
  /\ signals' = 1
  /\ UNCHANGED <<all, reached, outcome>>

\* A call that fails is one whose event has not been and will not be signalled.
Return(hr) ==
  /\ outcome = "none"
  /\ hr = OutOfMemory => signals = 0
  /\ outcome' = hr
  /\ UNCHANGED <<all, reached, signals>>

Next ==
  \/ Reach
  \/ Deliver
  \/ \E hr \in {"S_OK", OutOfMemory} : Return(hr)

SafeSpec == Init /\ [][Next]_vars

Spec == SafeSpec /\ WF_vars(Deliver)
=============================================================================
