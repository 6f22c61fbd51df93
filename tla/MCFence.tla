------------------------------- MODULE MCFence -------------------------------
(***************************************************************************)
(* A fence with two queues on two physical queues, for TLC.                *)
(***************************************************************************)
EXTENDS Fence, TLC

CONSTANTS q1, q2, t1, t2, a1, h1

MCQueues     == {q1, q2}
MCTimelines  == {t1, t2}
MCTimelineOf == q1 :> t1 @@ q2 :> t2
MCTimelineValues == {1}
MCThreads    == {a1}
MCHandles    == {h1}
=============================================================================
