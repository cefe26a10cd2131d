-------------------------------- MODULE MCJobs --------------------------------
(* JobLifecycle for TLC: jobs, workers and handler runs are interchangeable. *)
EXTENDS JobLifecycle, TLC

Symmetry == Permutations(Jobs) \cup Permutations(Workers) \cup Permutations(Verifiers)
=============================================================================
