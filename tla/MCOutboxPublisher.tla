------------------------- MODULE MCOutboxPublisher -------------------------
(* TLC instances of OutboxPublisher. *)
EXTENDS OutboxPublisher, TLC

WorkerSymmetry == Permutations(Worker)
=============================================================================
