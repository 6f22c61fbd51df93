-------------------------- MODULE MCMultiFenceEvent --------------------------
(***************************************************************************)
(* Three entries on two fences, so that one fence may hold two of them.    *)
(***************************************************************************)
EXTENDS MultiFenceEvent, TLC

CONSTANTS fa, fb

MCFences == {fa, fb}

Wait(f, v) == [fence |-> f, value |-> v]

MCWaits == { <<Wait(fa, 1), Wait(fb, 1), Wait(fa, 2)>>,
             <<Wait(fa, 1), Wait(fa, 1), Wait(fb, 1)>> }
=============================================================================
