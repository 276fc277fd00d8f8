-------------------------- MODULE MCWorkerCommands --------------------------
(* Instances of WorkerCommands for TLC. *)
EXTENDS WorkerCommands, TLC

Interchangeable ==
  Permutations(Workers) \cup Permutations(Requests) \cup Permutations(Subjects)
=============================================================================
