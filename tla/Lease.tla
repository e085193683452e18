------------------------------- MODULE Lease -------------------------------
(***************************************************************************)
(* The lease on every lock key: SESSION_LOCK_TTL, which cmd/gateway/main.go *)
(* hands to the session lock, the turn lock and the approval bridge.  Its  *)
(* unit is the period at which an approval wait extends the session lock,  *)
(* lockTTL / 2 in the code, so the code's own value is 2.                  *)
(***************************************************************************)
EXTENDS Integers

CONSTANT TTL   \* lockTTL, in extension intervals

ASSUME TTLAssumption == TTL \in Nat /\ TTL >= 2
=============================================================================
