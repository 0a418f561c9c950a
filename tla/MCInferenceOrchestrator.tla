---------------------- MODULE MCInferenceOrchestrator ----------------------
(* Small instances of InferenceOrchestrator.                               *)
EXTENDS InferenceOrchestrator, TLC

CONSTANTS l1, l2, c1, c2, m1, m2

Requests  == Permutations(Locked) \cup Permutations(Compare)
Symmetric == Requests \cup Permutations(Models)
=============================================================================
