-------------------------- MODULE MCFileProcessing --------------------------
(* TLC instance of FileProcessing for one event of any type. *)
EXTENDS FileProcessing, TLC

WorkerSymmetry == Permutations(Worker)
=============================================================================
