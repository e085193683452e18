---------------------------- MODULE AuditWriter ----------------------------
(***************************************************************************)
(* AuditWriter: records are sent to a buffered channel without waiting,    *)
(* and one goroutine inserts them into the table audit_log.                *)
(***************************************************************************)
EXTENDS Naturals, Sequences

CONSTANT Capacity     \* of the channel, 256 in the code

ASSUME CapacityAssumption == Capacity \in Nat \ {0}

VARIABLES
  queue,       \* the channel
  worker,      \* the record the goroutine is inserting, if any, as a sequence
  auditLog     \* the rows of audit_log in the order of decided_at

auditVars == <<queue, worker, auditLog>>

AuditInit == queue = <<>> /\ worker = <<>> /\ auditLog = <<>>

Full == Len(queue) >= Capacity

\* A send that waits for room (mutant).
WriteWaiting(record) == ~Full /\ queue' = Append(queue, record)

\* A queue without a limit (mutant).
WriteUnbounded(record) == queue' = Append(queue, record)

\* Write: a record that finds the channel full is dropped.
Write(record) == queue' = IF Full THEN queue ELSE Append(queue, record)

\* A goroutine for each record, inserting in any order (mutant).
TakeAny ==
  /\ worker = <<>>
  /\ \E i \in DOMAIN queue :
       /\ worker' = <<queue[i]>>
       /\ queue' = SubSeq(queue, 1, i - 1) \o SubSeq(queue, i + 1, Len(queue))
  /\ UNCHANGED auditLog

\* Start, the goroutine's loop: receive, insert, log an insert that failed.
Take ==
  /\ worker = <<>> /\ queue # <<>>
  /\ worker' = <<Head(queue)>>
  /\ queue' = Tail(queue)
  /\ UNCHANGED auditLog

Insert ==
  /\ worker # <<>>
  /\ auditLog' = auditLog \o worker
  /\ worker' = <<>>
  /\ UNCHANGED queue

\* An error does not say whether the row was inserted.
InsertFails ==
  /\ worker # <<>>
  /\ auditLog' \in {auditLog, auditLog \o worker}
  /\ worker' = <<>>
  /\ UNCHANGED queue

\* The process ends, and with it the channel.
AuditStops ==
  /\ auditLog' \in {auditLog, auditLog \o worker}
  /\ worker' = <<>>
  /\ queue' = <<>>

\* All records that are in the log or may still get there, in order.
Records == auditLog \o worker \o queue
=============================================================================
