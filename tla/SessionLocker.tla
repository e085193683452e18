--------------------------- MODULE SessionLocker ---------------------------
(***************************************************************************)
(* The session mutex of cmd/gateway/session_locker.go: the two Redis keys  *)
(* session:<id>:lock and session:<id>:refcount of one session, and the     *)
(* three Lua scripts that change them.  A script runs atomically in Redis, *)
(* so each is an operator from the keys before it to the keys after it.    *)
(*                                                                         *)
(* Every script sets the TTL of the two keys together, so they expire      *)
(* together and one ttl field stands for both.                             *)
(***************************************************************************)
EXTENDS Lease

CONSTANTS
  Turn,     \* turn IDs (X-Turn-ID)
  NoTurn    \* the lock key does not exist

ASSUME TurnAssumption == NoTurn \notin Turn

\* Neither key exists.
NoSessionKeys == [turn |-> NoTurn, refcount |-> 0, ttl |-> 0]

\* The scripts never leave a lock key behind whose refcount is not positive.
SessionKeys ==
  {NoSessionKeys} \cup [turn : Turn, refcount : Nat \ {0}, ttl : 1 .. TTL]

\* The acquire script returns 1.
AcquireGranted(keys, t) == keys.turn \in {NoTurn, t}

\* A second call of the holding turn that does not count itself (mutant).
AcquireScriptUncounted(keys, t) ==
  [turn |-> t, refcount |-> 1, ttl |-> TTL]

\* sessionLockAcquireScript: take a free lock, re-enter one's own.
AcquireScript(keys, t) ==
  IF ~AcquireGranted(keys, t)
  THEN keys
  ELSE [turn |-> t, refcount |-> keys.refcount + 1, ttl |-> TTL]

\* A release that deletes the keys one call too late (mutant).
ReleaseScriptOffByOne(keys, t) ==
  IF keys.turn # t THEN keys
  ELSE IF keys.refcount < 1 THEN NoSessionKeys ELSE [keys EXCEPT !.refcount = @ - 1]

\* sessionLockReleaseScript: only the holding turn counts down, and the last
\* call of the turn deletes both keys.  DECR keeps the TTL.
ReleaseScript(keys, t) ==
  IF keys.turn # t THEN keys
  ELSE IF keys.refcount <= 1 THEN NoSessionKeys ELSE [keys EXCEPT !.refcount = @ - 1]

\* sessionLockExtendScript: only the holding turn renews the lease.
ExtendScript(keys, t) ==
  IF keys.turn = t THEN [keys EXCEPT !.ttl = TTL] ELSE keys

\* Redis: one interval passes, and keys whose TTL runs out are gone.
SessionKeysAge(keys) ==
  IF keys.ttl <= 1 THEN NoSessionKeys ELSE [keys EXCEPT !.ttl = @ - 1]
=============================================================================
