--------------------------- MODULE MCSQSConsumer ---------------------------
(* TLC instances of SQSConsumer. *)
EXTENDS SQSConsumer, TLC

MessageSymmetry == Permutations(Message)
=============================================================================
