-------------------------- MODULE MCSubmissionQueue --------------------------
(***************************************************************************)
(* Every thread may submit and drain.  MCSubmissionQueue.cfg lets one      *)
(* thread at a time wait for a drain, again and again; MCTwoDrains.cfg     *)
(* lets two wait at once.                                                  *)
(***************************************************************************)
EXTENDS SubmissionQueue
=============================================================================
