----------------------------- MODULE TurnRWLock -----------------------------
(***************************************************************************)
(* The read/write lock of cmd/gateway/turn_rwlock.go: the Redis keys       *)
(* turn:<id>:readers and turn:<id>:wlock of one turn, and the four Lua     *)
(* scripts that change them.  The owner token of a write lock is drawn     *)
(* fresh by every WriteLock call, so the call itself stands for its token. *)
(*                                                                         *)
(* The two keys have TTLs of their own.  A readersTTL of 0 means that the  *)
(* readers key has no TTL: it does not exist, or it was created by a DECR  *)
(* of a missing key and stays until something deletes it.  Redis counts a  *)
(* missing counter as 0, and so does every script, so a missing readers    *)
(* key is readers = 0.                                                     *)
(***************************************************************************)
EXTENDS Lease

CONSTANTS
  Call,     \* tool calls, each with its own write-lock token
  NoCall    \* the wlock key does not exist

ASSUME CallAssumption == NoCall \notin Call

NoTurnKeys ==
  [readers |-> 0, readersTTL |-> 0, writer |-> NoCall, writerTTL |-> 0]

TurnKeys ==
  [readers : Int, readersTTL : 0 .. TTL, writer : {NoCall}, writerTTL : {0}]
    \cup
  [readers : Int, readersTTL : 0 .. TTL, writer : Call, writerTTL : 1 .. TTL]

\* Readers that exclude one another (mutant).
ReadLockOpenExclusive(keys) == keys.writer = NoCall /\ keys.readers = 0

\* turnReadLockScript goes past its EXISTS test and counts the reader.
ReadLockOpen(keys) == keys.writer = NoCall

\* What that script returns after INCR.  evalAcquireResult takes any value
\* but 0 for "acquired", a negative one too.
ReadLockResult(keys) == IF ReadLockOpen(keys) THEN keys.readers + 1 ELSE 0

\* A reader that does not renew the TTL of the counter (mutant).
ReadLockScriptNoExpiry(keys) ==
  IF ReadLockOpen(keys) THEN [keys EXCEPT !.readers = @ + 1] ELSE keys

\* turnReadLockScript: INCR, then PEXPIRE, whatever the result is.
ReadLockScript(keys) ==
  IF ReadLockOpen(keys)
  THEN [keys EXCEPT !.readers = @ + 1, !.readersTTL = TTL]
  ELSE keys

\* turnReadUnlockScript: an unconditional DECR.  It keeps the TTL of the key;
\* a missing key becomes -1 and has no TTL.
ReadUnlockScript(keys) == [keys EXCEPT !.readers = @ - 1]

\* A writer that does not look at the readers (mutant).
WriteLockGrantedOverReaders(keys) == keys.writer = NoCall

\* A writer that does not look at the other writer, SET without NX (mutant).
WriteLockGrantedOverWriter(keys) == keys.readers = 0

\* turnWriteLockScript returns 1: no readers, and SET NX finds no writer.
WriteLockGranted(keys) == keys.readers = 0 /\ keys.writer = NoCall

\* turnWriteLockScript.
WriteLockScript(keys, c) ==
  IF WriteLockGranted(keys)
  THEN [keys EXCEPT !.writer = c, !.writerTTL = TTL]
  ELSE keys

\* turnWriteUnlockScript: delete the key only if it holds one's own token.
WriteUnlockScript(keys, c) ==
  IF keys.writer = c
  THEN [keys EXCEPT !.writer = NoCall, !.writerTTL = 0]
  ELSE keys

\* Redis: one interval passes; each key goes when its own TTL runs out.
TurnKeysAge(keys) ==
  [readers    |-> IF keys.readersTTL = 1 THEN 0 ELSE keys.readers,
   readersTTL |-> IF keys.readersTTL = 0 THEN 0 ELSE keys.readersTTL - 1,
   writer     |-> IF keys.writerTTL <= 1 THEN NoCall ELSE keys.writer,
   writerTTL  |-> IF keys.writerTTL = 0 THEN 0 ELSE keys.writerTTL - 1]
=============================================================================
