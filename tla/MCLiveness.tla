----------------------------- MODULE MCLiveness -----------------------------
(***************************************************************************)
(* Model-checking instance of ProcessManager and SnapshotSync under their  *)
(* fairness.  They share no variable: a behaviour is one of one of the two *)
(* while the other stays in its initial state, where nothing that fairness *)
(* is about can happen.  The state space is the sum of theirs.             *)
(***************************************************************************)
EXTENDS ProcessManager, SnapshotSync

VARIABLE part   \* which of the two moves

LivenessInit == Init /\ SyncInit /\ part \in {"manager", "page"}

LivenessNext ==
  \/ part = "manager" /\ Next /\ UNCHANGED <<syncVars, part>>
  \/ part = "page" /\ SyncNext /\ UNCHANGED <<vars, part>>

LivenessSpec ==
  LivenessInit /\ [][LivenessNext]_<<vars, syncVars, part>> /\ Fairness /\ SyncFairness
=============================================================================
