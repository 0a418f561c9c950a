-------------------------- MODULE MCTrainingBackend --------------------------
(* Small instances of TrainingBackend: two runs, at most four workers.     *)
EXTENDS TrainingBackend
=============================================================================
