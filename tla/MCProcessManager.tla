-------------------------- MODULE MCProcessManager --------------------------
(* Model-checking instances of ProcessManager. *)
EXTENDS ProcessManager, TLC

Symmetry == Permutations(Instances) \cup Permutations(Requests) \cup Permutations(Pids)
=============================================================================
