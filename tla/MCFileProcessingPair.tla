------------------------ MODULE MCFileProcessingPair ------------------------
(* TLC instance of FileProcessing for two events of the same file, with the outbox. *)
EXTENDS MCFileProcessing

CONSTANTS e1, e2

\* An upload whose content passes validation, and a second upload or a scan
\* event of the same file.
PairInit ==
  /\ Init
  /\ useOutbox
  /\ input[e1] = [kind |-> "UPLOADED", check |-> "ok"]
  /\ input[e2].kind # "OTHER" /\ input[e2].check = "ok"

PairSpec == PairInit /\ [][Next]_vars
=============================================================================
