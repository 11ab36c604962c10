----------------------------- MODULE RemoteCall -----------------------------
(***************************************************************************)
(* What the callers of an adapter count on, whatever happens on the wire:  *)
(* a call that returns took effect, a result is written at most once, and  *)
(* only a call that has a condition is refused.  An error, and a refusal,  *)
(* leave open whether the call took effect.                                *)
(***************************************************************************)
EXTENDS Naturals

CONSTANT Kind          \* "read", "claim", "save", "transact" or "publish"

VARIABLES
  kind,                \* of the call under way, "none" between calls
  effects,             \* how often it took effect
  result               \* "pending", "ok", "refused" or "error"

vars == <<kind, effects, result>>

Changing    == Kind \ {"read"}
Once        == {"save", "transact"}
Conditional == {"claim", "save", "transact"}

Init == kind = "none" /\ effects = 0 /\ result = "ok"

Call ==
  /\ result # "pending"
  /\ kind' \in Kind
  /\ effects' = 0
  /\ result' = "pending"

\* One request reaches the service or is answered, or both.
Request ==
  /\ result = "pending"
  /\ effects' \in {effects, effects + 1}
  /\ kind \in Once => effects' <= 1
  /\ kind = "read" => effects' = 0
  /\ result' \in {"pending", "ok", "refused", "error"}
  /\ result' = "ok" /\ kind \in Changing => effects' > 0
  /\ result' = "refused" => kind \in Conditional
  /\ UNCHANGED kind

Next == Call \/ Request

Spec == Init /\ [][Next]_vars
=============================================================================
