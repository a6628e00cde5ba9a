----------------------- MODULE MCExecutionAccounting -----------------------
(* Runs and calls are interchangeable: no property of the run is liveness. *)
EXTENDS ExecutionAccounting, TLC

Symmetry == Permutations(Runs) \cup Permutations(Calls)
=============================================================================
