--------------------------- MODULE LeaseRegister ---------------------------
(***************************************************************************)
(* What the claim protocol of the metadata repository promises, without    *)
(* rows, workers or messages: leases are numbered upwards, at most one is  *)
(* current, and the current one records at most one result, which ends it. *)
(* A lease that was superseded records nothing.                            *)
(***************************************************************************)
EXTENDS Naturals

CONSTANT Outcome      \* what a lease may record

VARIABLES
  version,            \* number of the newest lease; 0 before the first
  holder,             \* number of the current lease, or 0
  expired,            \* whether the current lease may be taken over
  results             \* set of [lease, outcome] recorded so far

lvars == <<version, holder, expired, results>>

LeaseInit ==
  /\ version = 0
  /\ holder = 0
  /\ expired = FALSE
  /\ results = {}

Grant ==
  /\ holder = 0 \/ expired
  /\ version' = version + 1
  /\ holder' = version + 1
  /\ expired' = FALSE
  /\ UNCHANGED results

Expire ==
  /\ holder # 0
  /\ ~expired
  /\ expired' = TRUE
  /\ UNCHANGED <<version, holder, results>>

Record ==
  /\ holder # 0
  /\ \E out \in Outcome : results' = results \cup {[lease |-> holder, outcome |-> out]}
  /\ holder' = 0
  /\ expired' = FALSE
  /\ UNCHANGED version

LeaseNext == Grant \/ Expire \/ Record

LeaseSpec == LeaseInit /\ [][LeaseNext]_lvars
=============================================================================
