------------------------- MODULE AuditWriter_proofs --------------------------
(***************************************************************************)
(* Lemmas about the audit writer, for what its users prove.                *)
(***************************************************************************)
EXTENDS AuditWriter, SequenceTheorems, TLAPS

\* What is in the log, in the hands of the goroutine or in the channel belongs to a set.
Kept(S) == auditLog \in Seq(S) /\ worker \in Seq(S) /\ queue \in Seq(S)

LEMMA SeqMonotone ==
  ASSUME NEW S, NEW T, S \subseteq T, NEW s \in Seq(S)
  PROVE  s \in Seq(T)
BY SMT

LEMMA KeptMonotone ==
  ASSUME NEW S, NEW T, S \subseteq T, Kept(S)
  PROVE  Kept(T)
BY SeqMonotone DEF Kept

LEMMA InRecords ==
  ASSUME NEW S, Kept(S)
  PROVE  \A i \in DOMAIN Records : Records[i] \in S
<1>1. auditLog \o worker \in Seq(S)
  BY ConcatProperties DEF Kept
<1>2. Records \in Seq(S)
  BY <1>1, ConcatProperties DEF Kept, Records
<1> QED
  BY <1>2, SMT

\* Whatever is written, taken, inserted or lost, what is kept is an old or a new
\* record, and the channel does not overflow.
LEMMA AuditKeeps ==
  ASSUME NEW S, Kept(S), Len(queue) <= Capacity, Len(worker) <= 1,
         \/ \E r \in S : Write(r) /\ UNCHANGED <<worker, auditLog>>
         \/ UNCHANGED auditVars
         \/ Take \/ Insert \/ InsertFails \/ AuditStops
  PROVE  Kept(S)' /\ Len(queue') <= Capacity /\ Len(worker') <= 1
<1> USE CapacityAssumption DEF Kept
<1>1. auditLog \o worker \in Seq(S)
  BY ConcatProperties
<1>2. ASSUME NEW r \in S, Write(r), UNCHANGED <<worker, auditLog>>
      PROVE  Kept(S)' /\ Len(queue') <= Capacity /\ Len(worker') <= 1
  BY <1>2, AppendProperties DEF Write, Full
<1>3. CASE UNCHANGED auditVars
  BY <1>3 DEF auditVars
<1>4. CASE Take
  <2>1. queue # <<>> /\ worker' = <<Head(queue)>> /\ queue' = Tail(queue)
        /\ UNCHANGED auditLog
    BY <1>4 DEF Take
  <2>2. Head(queue) \in S /\ Tail(queue) \in Seq(S) /\ Len(Tail(queue)) = Len(queue) - 1
    BY <2>1, HeadTailProperties
  <2>3. <<Head(queue)>> \in Seq(S) /\ Len(<<Head(queue)>>) = 1 /\ Len(queue) \in Nat
    BY <2>2
  <2> QED
    BY <2>1, <2>2, <2>3
<1>5. <<>> \in Seq(S) /\ Len(<<>>) = 0
  OBVIOUS
<1>6. CASE Insert \/ InsertFails \/ AuditStops
  <2>1. auditLog' \in {auditLog, auditLog \o worker} /\ worker' = <<>>
        /\ queue' \in {queue, <<>>}
    BY <1>6 DEF Insert, InsertFails, AuditStops
  <2>2. auditLog' \in Seq(S)
    BY <1>1, <2>1
  <2>3. worker' \in Seq(S) /\ Len(worker') <= 1
    BY <1>5, <2>1
  <2>4. queue' \in Seq(S) /\ Len(queue') <= Capacity
    <3>1. CASE queue' = queue
      BY <3>1
    <3>2. CASE queue' = <<>>
      BY <1>5, <3>2
    <3> QED
      BY <2>1, <3>1, <3>2
  <2> QED
    BY <2>2, <2>3, <2>4
<1> QED
  BY <1>2, <1>3, <1>4, <1>6

\* The audit goroutine moves records along, and the gate adds them at the end.
LEMMA RecordsMove ==
  ASSUME NEW S, Kept(S)
  PROVE  /\ Records \in Seq(S)
         /\ UNCHANGED auditVars \/ Take \/ Insert => UNCHANGED Records
         /\ \A r \in S : Write(r) /\ ~Full /\ UNCHANGED <<worker, auditLog>> =>
              Records' = Append(Records, r)
<1>1. auditLog \o worker \in Seq(S) /\ Records \in Seq(S)
  BY ConcatProperties DEF Kept, Records
<1>2. ASSUME Take PROVE UNCHANGED Records
  <2>1. worker = <<>> /\ queue # <<>> /\ worker' = <<Head(queue)>>
        /\ queue' = Tail(queue) /\ auditLog' = auditLog
    BY <1>2 DEF Take
  <2>2. queue = <<Head(queue)>> \o Tail(queue) /\ <<Head(queue)>> \in Seq(S)
        /\ Tail(queue) \in Seq(S)
    <3>1. Head(queue) \in S /\ Tail(queue) \in Seq(S) /\ Len(Tail(queue)) = Len(queue) - 1
          /\ \A i \in 1 .. Len(Tail(queue)) : Tail(queue)[i] = queue[i + 1]
      BY <2>1, HeadTailProperties DEF Kept
    <3>2. Len(queue) \in Nat \ {0} /\ Head(queue) = queue[1]
      BY <2>1, EmptySeq DEF Kept
    <3>3. <<Head(queue)>> \in Seq(S) /\ Len(<<Head(queue)>>) = 1
          /\ <<Head(queue)>>[1] = queue[1]
      BY <3>1, <3>2
    <3> DEFINE q == <<Head(queue)>> \o Tail(queue)
    <3>4. q \in Seq(S) /\ Len(q) = Len(queue)
          /\ \A i \in 1 .. Len(queue) : q[i] = IF i <= 1 THEN queue[1] ELSE Tail(queue)[i - 1]
      BY <3>1, <3>2, <3>3, ConcatProperties
    <3>5. \A i \in 1 .. Len(queue) : q[i] = queue[i]
      BY <3>1, <3>2, <3>4
    <3>6. q = queue
      BY <3>4, <3>5, SeqEqual DEF Kept
    <3> QED
      BY <3>1, <3>3, <3>6
  <2>3. Records = auditLog \o queue
    BY <2>1, ConcatEmptySeq DEF Kept, Records
  <2>4. Records' = (auditLog \o <<Head(queue)>>) \o Tail(queue)
    BY <2>1 DEF Records
  <2> QED
    BY <2>2, <2>3, <2>4, ConcatAssociative DEF Kept
<1>3. ASSUME Insert PROVE UNCHANGED Records
  <2>1. auditLog' = auditLog \o worker /\ worker' = <<>> /\ queue' = queue
    BY <1>3 DEF Insert
  <2>2. Records' = ((auditLog \o worker) \o <<>>) \o queue
    BY <2>1 DEF Records
  <2>3. (auditLog \o worker) \o <<>> = auditLog \o worker
    BY <1>1, ConcatEmptySeq
  <2> QED
    BY <2>2, <2>3 DEF Records
<1>4. ASSUME NEW r \in S, Write(r), ~Full, UNCHANGED <<worker, auditLog>>
      PROVE  Records' = Append(Records, r)
  <2>1. queue' = Append(queue, r)
    BY <1>4 DEF Write
  <2>2. Append(queue, r) = queue \o <<r>> /\ Append(Records, r) = Records \o <<r>>
        /\ <<r>> \in Seq(S)
    BY <1>1, AppendIsConcat DEF Kept
  <2>3. Records' = (auditLog \o worker) \o (queue \o <<r>>)
    BY <1>4, <2>1, <2>2 DEF Records
  <2> QED
    BY <1>1, <2>2, <2>3, ConcatAssociative DEF Kept, Records
<1>5. UNCHANGED auditVars => UNCHANGED Records
  BY DEF auditVars, Records
<1> QED
  BY <1>1, <1>2, <1>3, <1>4, <1>5

\* An insert that fails may take a record out of the middle, and no more.
LEMMA RecordsThin ==
  ASSUME NEW S, Kept(S), InsertFails
  PROVE  \/ UNCHANGED Records
         \/ /\ Records' \in Seq(S)
            /\ \E m \in Nat, d \in Nat : \A i \in 1 .. Len(Records') :
                 LET k == IF i <= m THEN i ELSE i + d
                 IN  k \in 1 .. Len(Records) /\ Records'[i] = Records[k]
<1> USE DEF Kept
<1>1. auditLog \o worker \in Seq(S)
  BY ConcatProperties
<1>2. worker' = <<>> /\ queue' = queue /\ auditLog' \in {auditLog, auditLog \o worker}
  BY DEF InsertFails
<1>3. CASE auditLog' = auditLog \o worker
  <2>1. Records' = ((auditLog \o worker) \o <<>>) \o queue
    BY <1>2, <1>3 DEF Records
  <2> QED
    BY <1>1, <2>1, ConcatEmptySeq DEF Records
<1>4. CASE auditLog' = auditLog
  <2>1. Records' = (auditLog \o <<>>) \o queue
    BY <1>2, <1>4 DEF Records
  <2>2. Records' = auditLog \o queue
    BY <2>1, ConcatEmptySeq
  <2> DEFINE m == Len(auditLog)
             d == Len(worker)
             q == Len(queue)
             new == auditLog \o queue
             both == auditLog \o worker
             old == both \o queue
  <2>3. m \in Nat /\ d \in Nat /\ q \in Nat
    BY LenProperties
  <2>4. new \in Seq(S) /\ Len(new) = m + q
        /\ \A i \in 1 .. m + q : new[i] = IF i <= m THEN auditLog[i] ELSE queue[i - m]
    BY ConcatProperties
  <2>5. Len(both) = m + d /\ \A i \in 1 .. m : both[i] = auditLog[i]
    BY ConcatProperties, <2>3
  <2>6. Len(old) = m + d + q
        /\ \A i \in 1 .. m + d + q : old[i] = IF i <= m + d THEN both[i] ELSE queue[i - (m + d)]
    BY <1>1, <2>5, ConcatProperties
  <2>7. Records' = new /\ Records = old
    BY <2>2 DEF Records
  <2> HIDE DEF m, d, q, new, both, old
  <2>8. ASSUME NEW i \in 1 .. m + q
        PROVE  LET k == IF i <= m THEN i ELSE i + d
               IN  k \in 1 .. m + d + q /\ new[i] = old[k]
    <3>1. CASE i <= m
      BY <2>3, <2>4, <2>5, <2>6, <3>1
    <3>2. CASE ~(i <= m)
      <4>1. i + d \in 1 .. m + d + q /\ ~(i + d <= m + d) /\ (i + d) - (m + d) = i - m
        BY <2>3, <3>2
      <4> QED
        BY <2>4, <2>6, <3>2, <4>1
    <3> QED
      BY <3>1, <3>2
  <2> QED
    BY <2>3, <2>4, <2>6, <2>7, <2>8
<1> QED
  BY <1>2, <1>3, <1>4
=============================================================================
