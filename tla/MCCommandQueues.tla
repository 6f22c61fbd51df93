--------------------------- MODULE MCCommandQueues ---------------------------
(***************************************************************************)
(* Three command queues on two VkQueues, for TLC: q1 and q2 share p1, q3   *)
(* has p2 to itself.                                                       *)
(***************************************************************************)
EXTENDS CommandQueues

CONSTANTS q1, q2, q3, p1, p2, fa, fb

MCQueues    == {q1, q2, q3}
MCVkQueues  == {p1, p2}
MCVkQueueOf == (q1 :> p1) @@ (q2 :> p1) @@ (q3 :> p2)
MCFences    == {fa, fb}

E             == [type |-> "execute"]
S(x, v)       == [type |-> "signal", fence |-> x, value |-> v]
W(x, v)       == [type |-> "wait", fence |-> x, value |-> v]
C(x, v)       == [type |-> "cpu_signal", fence |-> x, value |-> v]
R(x)          == [type |-> "release", fence |-> x]
Run(a, b, c)  == (q1 :> a) @@ (q2 :> b) @@ (q3 :> c)

\* A chain through all three queues; every queue that waits executes before it
\* signals.
Chain == Run(<<E, S(fa, 1)>>, <<W(fa, 1), E, S(fb, 1)>>, <<W(fb, 1), E>>)

\* fa is rewound by its own queue while q2 and q3 wait for the greater value.
Rewind == Run(<<E, S(fa, 2), E, S(fa, 1)>>, <<W(fa, 2), E>>, <<W(fa, 1), W(fa, 2), E>>)

\* The CPU rewinds fa between two signals of the greater value.
PulsedValue == Run(<<E, S(fa, 2), C(fa, 0), S(fa, 2)>>, <<W(fa, 2), E>>, <<W(fa, 1), W(fa, 2), E>>)

\* Back and forth between the VkQueues, with waits before their signals.
PingPong == Run(<<W(fb, 1), E, S(fa, 2)>>, <<E>>, <<E, S(fb, 1), W(fa, 2), E, S(fb, 2)>>)

\* Two queues wait for a queue that signals without executing, and the
\* application lets go of the fence.
ReleaseEarly == Run(<<W(fb, 1), S(fa, 1), R(fa)>>, <<W(fa, 1), E>>, <<E, S(fb, 1)>>)

\* The application signals from the CPU.
CpuSignals == Run(<<E, C(fa, 1)>>, <<W(fa, 1), E, S(fb, 1)>>, <<W(fa, 1), W(fb, 1), E>>)

\* A wait that nothing satisfies.
Unsatisfied == Run(<<W(fb, 2), E>>, <<E>>, <<E, S(fb, 1)>>)

\* q2 passes on what it waited for without executing anything, which nobody
\* waits for on the GPU; q3 waits for two values of one timeline.
QuietRelay == Run(<<E, S(fa, 1), E, S(fa, 2)>>, <<W(fa, 1), S(fb, 1)>>,
                  <<W(fa, 1), W(fa, 2), E>>)

\* The same, but q3, on the other VkQueue, does wait for what q2 passes on.
Relay == Run(<<E, S(fa, 1)>>, <<W(fa, 1), S(fb, 1)>>, <<W(fb, 1), E>>)

\* Two queues on different VkQueues signal one fence, downwards.
TwoSignallers == Run(<<E, S(fa, 2)>>, <<E>>, <<E, S(fa, 1)>>)

\* Whatever the order of the calls, the last value of a fence satisfies its Waits.
MCSatisfiable ==
  {Chain, PulsedValue, PingPong, ReleaseEarly, CpuSignals, QuietRelay}

MCPrograms == MCSatisfiable \cup {Rewind, Unsatisfied}
MCRelay         == {Relay}
MCTwoSignallers == {TwoSignallers}
=============================================================================
