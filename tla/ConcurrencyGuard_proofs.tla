---------------------- MODULE ConcurrencyGuard_proofs ----------------------
(***************************************************************************)
(* Theorems about ConcurrencyGuard, for every set of calls, sessions,      *)
(* turns, requests and environments.                                       *)
(***************************************************************************)
EXTENDS ConcurrencyGuard, FiniteSetTheorems, TLAPS

-----------------------------------------------------------------------------
\* The scripts map keys to keys.

LEMMA SessionScriptsType ==
  ASSUME NEW keys \in SessionKeys, NEW t \in Turn
  PROVE  /\ AcquireScript(keys, t) \in SessionKeys
         /\ ReleaseScript(keys, t) \in SessionKeys
         /\ ExtendScript(keys, t) \in SessionKeys
         /\ SessionKeysAge(keys) \in SessionKeys
<1> USE TTLAssumption, TurnAssumption
<1>1. AcquireScript(keys, t) \in SessionKeys
  BY DEF AcquireScript, AcquireGranted, SessionKeys, NoSessionKeys
<1>2. ReleaseScript(keys, t) \in SessionKeys
  BY DEF ReleaseScript, SessionKeys, NoSessionKeys
<1>3. ExtendScript(keys, t) \in SessionKeys
  BY DEF ExtendScript, SessionKeys, NoSessionKeys
<1>4. SessionKeysAge(keys) \in SessionKeys
  BY DEF SessionKeysAge, SessionKeys, NoSessionKeys
<1> QED
  BY <1>1, <1>2, <1>3, <1>4

LEMMA TurnScriptsType ==
  ASSUME NEW keys \in TurnKeys, NEW c \in Call
  PROVE  /\ ReadLockScript(keys) \in TurnKeys
         /\ ReadUnlockScript(keys) \in TurnKeys
         /\ WriteLockScript(keys, c) \in TurnKeys
         /\ WriteUnlockScript(keys, c) \in TurnKeys
         /\ TurnKeysAge(keys) \in TurnKeys
<1> USE TTLAssumption, CallAssumption DEF TurnKeys
<1>0. TTL \in 0 .. TTL /\ TTL \in 1 .. TTL
  OBVIOUS
<1>1. ReadLockScript(keys) \in TurnKeys
  <2>1. CASE ReadLockOpen(keys)
    <3>1. keys.readers + 1 \in Int
      OBVIOUS
    <3> QED
      BY <1>0, <2>1, <3>1 DEF ReadLockScript
  <2> QED
    BY <2>1 DEF ReadLockScript
<1>2. ReadUnlockScript(keys) \in TurnKeys
  BY DEF ReadUnlockScript
<1>3. WriteLockScript(keys, c) \in TurnKeys
  BY <1>0 DEF WriteLockScript, WriteLockGranted
<1>4. WriteUnlockScript(keys, c) \in TurnKeys
  BY DEF WriteUnlockScript
<1>5. TurnKeysAge(keys) \in TurnKeys
  BY DEF TurnKeysAge
<1> QED
  BY <1>1, <1>2, <1>3, <1>4, <1>5

-----------------------------------------------------------------------------
\* Type correctness.

LEMMA ReqType ==
  ASSUME TypeOK, NEW c \in Call
  PROVE  /\ req[c].session \in Session
         /\ req[c].turn \in Turn
         /\ req[c].class \in {"read", "write", "none"}
         /\ KeysOfSession(c) \in SessionKeys
         /\ KeysOfTurn(c) \in TurnKeys
BY RequestsAssumption
   DEF TypeOK, RequestType, KeysOfSession, KeysOfTurn

LEMMA LockScriptsType ==
  ASSUME NEW c \in Call, NEW keys \in TurnKeys
  PROVE  LockScript(c, keys) \in TurnKeys /\ UnlockScript(c, keys) \in TurnKeys
BY TurnScriptsType DEF LockScript, UnlockScript

LEMMA TypeInductive == TypeOK /\ [Next]_vars => TypeOK'
<1> SUFFICES ASSUME TypeOK, [Next]_vars PROVE TypeOK'
  OBVIOUS
<1>1. CASE UNCHANGED vars
  BY <1>1 DEF TypeOK, vars
<1>2. ASSUME NEW c \in Call, Advance(c)
      PROVE  TypeOK'
  <2> USE <1>2
  <2>1. CASE Bypass(c)
    BY <2>1 DEF TypeOK, Bypass, Goto, Phases
  <2>2. CASE SessionAcquire(c)
    <3>1. AcquireScript(KeysOfSession(c), req[c].turn) \in SessionKeys
      BY ReqType, SessionScriptsType
    <3> QED
      BY <2>2, <3>1 DEF TypeOK, SessionAcquire, SetKeysOfSession, Goto, Phases
  <2>3. CASE SessionBusy(c)
    BY <2>3 DEF TypeOK, SessionBusy, Goto, Phases
  <2>4. CASE TurnAcquire(c)
    <3>1. LockScript(c, KeysOfTurn(c)) \in TurnKeys
      BY ReqType, LockScriptsType
    <3> QED
      BY <2>4, <3>1 DEF TypeOK, TurnAcquire, SetKeysOfTurn, Goto, Phases
  <2>5. CASE ReadMiscounted(c)
    <3>1. ReadLockScript(KeysOfTurn(c)) \in TurnKeys
      BY ReqType, TurnScriptsType
    <3> QED
      BY <2>5, <3>1 DEF TypeOK, ReadMiscounted, SetKeysOfTurn, Goto, Phases
  <2>6. CASE TurnBusy(c)
    BY <2>6 DEF TypeOK, TurnBusy, Goto, Phases
  <2>7. CASE Abort(c)
    BY <2>7 DEF TypeOK, Abort, Goto, Phases
  <2>8. CASE Decide(c)
    BY <2>8 DEF TypeOK, Decide, Goto, Phases
  <2>9. CASE Return(c)
    BY <2>9 DEF TypeOK, Return, Goto, Phases
  <2>10. CASE TurnUnlock(c)
    <3>1. UnlockScript(c, KeysOfTurn(c)) \in TurnKeys
      BY ReqType, LockScriptsType
    <3> QED
      BY <2>10, <3>1 DEF TypeOK, TurnUnlock, SetKeysOfTurn, Goto, Phases
  <2>11. CASE SessionRelease(c)
    <3>1. ReleaseScript(KeysOfSession(c), req[c].turn) \in SessionKeys
      BY ReqType, SessionScriptsType
    <3> QED
      BY <2>11, <3>1 DEF TypeOK, SessionRelease, SetKeysOfSession, Goto, Phases
  <2> QED
    BY <2>1, <2>2, <2>3, <2>4, <2>5, <2>6, <2>7, <2>8, <2>9, <2>10, <2>11
       DEF Advance
<1>3. ASSUME NEW c \in Call, Hold(c)
      PROVE  TypeOK'
  BY <1>3 DEF TypeOK, Hold, Goto, Phases
<1>4. ASSUME NEW c \in Call, Extend(c)
      PROVE  TypeOK'
  <2>1. ExtendScript(KeysOfSession(c), req[c].turn) \in SessionKeys
    BY ReqType, SessionScriptsType
  <2> QED
    BY <1>4, <2>1 DEF TypeOK, Extend, SetKeysOfSession
<1>5. ASSUME NEW c \in Call, Resume(c)
      PROVE  TypeOK'
  BY <1>5 DEF TypeOK, Resume, Goto, Phases
<1>6. ASSUME NEW c \in Call, Fault(c)
      PROVE  TypeOK'
  <2>1. CASE Cancel(c)
    BY <2>1 DEF TypeOK, Cancel
  <2>2. CASE RedisError(c)
    BY <2>2 DEF TypeOK, RedisError, Goto, Phases
  <2>3. CASE LostReply(c)
    <3>1. /\ AcquireScript(KeysOfSession(c), req[c].turn) \in SessionKeys
          /\ ReleaseScript(KeysOfSession(c), req[c].turn) \in SessionKeys
          /\ LockScript(c, KeysOfTurn(c)) \in TurnKeys
          /\ UnlockScript(c, KeysOfTurn(c)) \in TurnKeys
      BY <1>6, ReqType, SessionScriptsType, LockScriptsType
    <3> QED
      BY <1>6, <2>3, <3>1
         DEF TypeOK, LostReply, SetKeysOfSession, SetKeysOfTurn
  <2> QED
    BY <1>6, <2>1, <2>2, <2>3 DEF Fault
<1>7. CASE Crash
  BY <1>7 DEF TypeOK, Crash, Phases
<1>8. CASE Tick
  <2>1. \A s \in Session : SessionKeysAge(sessionKeys[s]) \in SessionKeys
    BY TTLAssumption DEF TypeOK, SessionKeysAge, SessionKeys, NoSessionKeys
  <2>2. \A t \in Turn : TurnKeysAge(turnKeys[t]) \in TurnKeys
    BY TTLAssumption, CallAssumption DEF TypeOK, TurnKeysAge, TurnKeys
  <2> QED
    BY <1>8, <2>1, <2>2 DEF TypeOK, Tick
<1>9. CASE Quiescent
  BY <1>9 DEF Quiescent, TypeOK, vars
<1> QED
  BY <1>1, <1>2, <1>3, <1>4, <1>5, <1>6, <1>7, <1>8, <1>9 DEF Next

\* Every variable keeps its type; in particular, no script leaves a session
\* lock whose refcount is not positive.
THEOREM TypeCorrect == Spec => []TypeOK
<1>1. Init => TypeOK
  BY TTLAssumption
     DEF Init, TypeOK, Phases, SessionKeys, TurnKeys, NoTurnKeys
<1>2. TypeOK /\ [Next]_vars => TypeOK'
  BY TypeInductive
<1> QED
  BY <1>1, <1>2, PTL DEF Spec

-----------------------------------------------------------------------------
\* One turn at a time per session.

LEMMA HoldersFinite ==
  ASSUME NEW s
  PROVE  IsFiniteSet(Holders(s)) /\ Cardinality(Holders(s)) \in Nat
<1>1. Holders(s) \subseteq Call
  BY DEF Holders
<1> QED
  BY <1>1, FiniteCallsAssumption, FS_Subset, FS_CardinalityType

\* What every action keeps of SessionInv that is not about leases.
LEMMA PhasesInductive ==
  TypeOK /\ LockedPhases /\ NoUnaskedHold /\ [Next]_vars
    => LockedPhases' /\ NoUnaskedHold'
<1> SUFFICES ASSUME TypeOK, LockedPhases, NoUnaskedHold, [Next]_vars
             PROVE  LockedPhases' /\ NoUnaskedHold'
  OBVIOUS
<1> USE DEF TypeOK, LockedPhases, NoUnaskedHold, Guarded, Goto
<1>1. CASE UNCHANGED vars
  BY <1>1 DEF vars
<1>2. ASSUME NEW c \in Call, Advance(c)
      PROVE  LockedPhases' /\ NoUnaskedHold'
  BY <1>2
     DEF Advance, Bypass, SessionAcquire, SessionBusy, TurnAcquire, ReadMiscounted,
         TurnBusy, Abort, Decide, Return, TurnUnlock, SessionRelease
<1>3. ASSUME NEW c \in Call, Hold(c) \/ Extend(c) \/ Resume(c) \/ Fault(c)
      PROVE  LockedPhases' /\ NoUnaskedHold'
  BY <1>3 DEF Hold, Extend, Resume, Fault, Cancel, RedisError, LostReply
<1>4. CASE Crash \/ Tick \/ Quiescent
  BY <1>4 DEF Crash, Tick, Quiescent, vars
<1> QED
  BY <1>1, <1>2, <1>3, <1>4 DEF Next

\* A step that leaves the keys of sessions alone and lets no call in.
LEMMA QuietSessionStep ==
  ASSUME TypeOK, OwnsLock, RefcountCovers,
         sessionKeys' = sessionKeys, req' = req,
         \A d \in Call : Holding(d)' => Holding(d)
  PROVE  OwnsLock' /\ RefcountCovers'
<1>1. OwnsLock'
  BY DEF OwnsLock, KeysOfSession
<1>2. ASSUME NEW s \in Session
      PROVE  Cardinality(Holders(s)') <= sessionKeys[s].refcount
  <2>1. Holders(s)' \subseteq Holders(s)
    BY DEF Holders
  <2>2. /\ Cardinality(Holders(s)') <= Cardinality(Holders(s))
        /\ Cardinality(Holders(s)') \in Nat
    BY <2>1, HoldersFinite, FS_Subset, FS_CardinalityType
  <2>3. sessionKeys[s].refcount \in Nat
    BY DEF TypeOK, SessionKeys, NoSessionKeys
  <2> QED
    BY <2>2, <2>3, HoldersFinite DEF RefcountCovers
<1> QED
  BY <1>1, <1>2 DEF RefcountCovers

\* An acquisition counts its call in.
LEMMA SessionAcquireStep ==
  ASSUME TypeOK, OwnsLock, RefcountCovers, FreshLease,
         NEW c \in Call, SessionAcquire(c)
  PROVE  OwnsLock' /\ RefcountCovers' /\ FreshLease'
<1> DEFINE old == KeysOfSession(c)
           new == AcquireScript(KeysOfSession(c), req[c].turn)
<1>1. /\ sessionKeys' = [sessionKeys EXCEPT ![req[c].session] = new]
      /\ pc' = [pc EXCEPT ![c] = "turn"]
      /\ req' = req /\ extendDue' = extendDue /\ cancelled' = cancelled
      /\ pc[c] = "session" /\ Guarded(c)
  BY DEF SessionAcquire, SetKeysOfSession, Goto
<1>2. new = [turn |-> req[c].turn, refcount |-> old.refcount + 1, ttl |-> TTL]
  BY DEF SessionAcquire, AcquireScript
<1>3. old.turn \in {NoTurn, req[c].turn}
  BY DEF SessionAcquire, AcquireGranted
<1>4. req[c].session \in Session /\ old \in SessionKeys
  BY ReqType
<1>5. \A d \in Call : Holding(d)' <=> Holding(d) \/ d = c
  BY <1>1 DEF Holding, Guarded, TypeOK
<1>6. OwnsLock'
  <2> SUFFICES ASSUME NEW d \in Call, Holding(d)'
               PROVE  KeysOfSession(d)'.turn = req[d].turn
    BY <1>1 DEF OwnsLock
  <2>1. CASE req[d].session # req[c].session
    BY <1>1, <1>5, <2>1 DEF OwnsLock, KeysOfSession
  <2>2. CASE req[d].session = req[c].session
    <3>1. d # c => old.turn = req[d].turn /\ req[d].turn \in Turn
      BY <1>5, <2>2, ReqType DEF OwnsLock, KeysOfSession
    <3>2. req[d].turn = req[c].turn
      BY <1>3, <3>1, TurnAssumption
    <3> QED
      BY <1>1, <1>2, <1>4, <2>2, <3>2 DEF KeysOfSession, TypeOK
  <2> QED
    BY <2>1, <2>2
<1>7. RefcountCovers'
  <2> SUFFICES ASSUME NEW s \in Session
               PROVE  Cardinality(Holders(s)') <= sessionKeys'[s].refcount
    BY DEF RefcountCovers
  <2>1. CASE s # req[c].session
    <3>1. Holders(s)' = Holders(s)
      BY <1>1, <1>5, <2>1 DEF Holders
    <3> QED
      BY <1>1, <2>1, <3>1 DEF RefcountCovers, TypeOK
  <2>2. CASE s = req[c].session
    <3>1. Holders(s)' = Holders(s) \cup {c} /\ c \notin Holders(s)
      BY <1>1, <1>5, <2>2 DEF Holders, Holding
    <3>2. Cardinality(Holders(s)') = Cardinality(Holders(s)) + 1
      BY <3>1, HoldersFinite, FS_AddElement
    <3>3. Cardinality(Holders(s)) <= old.refcount
      BY <2>2 DEF RefcountCovers, KeysOfSession
    <3>4. sessionKeys'[s].refcount = old.refcount + 1 /\ old.refcount \in Nat
      BY <1>1, <1>2, <1>4, <2>2 DEF TypeOK, SessionKeys, NoSessionKeys
    <3> QED
      BY <3>2, <3>3, <3>4, HoldersFinite
  <2> QED
    BY <2>1, <2>2
<1>8. FreshLease'
  BY <1>1, <1>2, <1>4, TTLAssumption DEF FreshLease, Waits, KeysOfSession, TypeOK
<1> QED
  BY <1>6, <1>7, <1>8

\* A release counts its call out, and deletes the keys only under nobody else.
LEMMA SessionReleaseStep ==
  ASSUME TypeOK, OwnsLock, RefcountCovers, FreshLease, LockedPhases,
         NEW c \in Call, SessionRelease(c)
  PROVE  OwnsLock' /\ RefcountCovers' /\ FreshLease'
<1> DEFINE old == KeysOfSession(c)
           new == ReleaseScript(KeysOfSession(c), req[c].turn)
<1>1. /\ pc' = [pc EXCEPT ![c] = "done"]
      /\ req' = req /\ extendDue' = extendDue /\ cancelled' = cancelled
      /\ pc[c] = "unlockSession" /\ Guarded(c)
  BY DEF SessionRelease, Goto, LockedPhases
<1>2. /\ Holding(c)
      /\ \A d \in Call : Holding(d)' <=> Holding(d) /\ d # c
  BY <1>1 DEF Holding, Guarded, TypeOK
<1>3. CASE ~Reaches(c)
  <2>1. sessionKeys' = sessionKeys
    BY <1>3 DEF SessionRelease
  <2>2. OwnsLock' /\ RefcountCovers'
    BY <1>1, <1>2, <2>1, QuietSessionStep
  <2>3. FreshLease'
    BY <1>1, <2>1 DEF FreshLease, Waits, KeysOfSession, TypeOK
  <2> QED
    BY <2>2, <2>3
<1>4. CASE Reaches(c)
  <2>1. sessionKeys' = [sessionKeys EXCEPT ![req[c].session] = new]
    BY <1>4 DEF SessionRelease, SetKeysOfSession
  <2>2. /\ req[c].session \in Session /\ old \in SessionKeys
        /\ old.turn = req[c].turn /\ old.turn \in Turn
    BY <1>2, ReqType DEF OwnsLock
  <2>3. /\ old.refcount \in Nat
        /\ old.ttl \in 1 .. TTL
        /\ Cardinality(Holders(req[c].session)) <= old.refcount
    BY <2>2, TurnAssumption
       DEF SessionKeys, NoSessionKeys, RefcountCovers, KeysOfSession
  <2>4. Holders(req[c].session)' = Holders(req[c].session) \ {c}
    BY <1>1, <1>2 DEF Holders
  <2>5. Cardinality(Holders(req[c].session)')
          = Cardinality(Holders(req[c].session)) - 1
    <3>1. c \in Holders(req[c].session)
      BY <1>2 DEF Holders
    <3> QED
      BY <2>4, <3>1, HoldersFinite, FS_RemoveElement
  <2>6. \A s \in Session \ {req[c].session} :
          Holders(s)' = Holders(s) /\ sessionKeys'[s] = sessionKeys[s]
    BY <1>1, <1>2, <2>1 DEF Holders, TypeOK
  <2>7. CASE old.refcount <= 1
    <3>1. new = NoSessionKeys
      BY <2>2, <2>7 DEF ReleaseScript
    <3>2. Cardinality(Holders(req[c].session)') = 0
      <4>1. /\ Cardinality(Holders(req[c].session)) \in Nat
            /\ Cardinality(Holders(req[c].session)) # 0
        BY <1>2, HoldersFinite, FS_EmptySet DEF Holders
      <4> QED
        BY <2>3, <2>5, <2>7, <4>1
    <3>3. Holders(req[c].session)' = {}
      <4>1. IsFiniteSet(Holders(req[c].session)')
        BY <2>4, HoldersFinite, FS_RemoveElement
      <4> QED
        BY <3>2, <4>1, FS_EmptySet
    <3>4. \A d \in Call : Holding(d)' => req[d].session # req[c].session
      BY <1>1, <3>3 DEF Holders
    <3>5. OwnsLock'
      BY <1>1, <1>2, <2>1, <3>4 DEF OwnsLock, KeysOfSession
    <3>6. RefcountCovers'
      <4>1. sessionKeys'[req[c].session].refcount = 0
        BY <2>1, <2>2, <3>1 DEF TypeOK, NoSessionKeys
      <4> SUFFICES ASSUME NEW s \in Session
                   PROVE  Cardinality(Holders(s)') <= sessionKeys'[s].refcount
        BY DEF RefcountCovers
      <4>2. CASE s = req[c].session
        BY <1>1, <3>2, <4>1, <4>2 DEF Holders
      <4>3. CASE s # req[c].session
        BY <2>6, <4>3 DEF RefcountCovers
      <4> QED
        BY <4>2, <4>3
    <3>7. FreshLease'
      <4>1. \A d \in Call : pc'[d] \in {"turn", "gate", "held"} => Holding(d)'
        BY <1>1 DEF Holding, LockedPhases, Guarded, TypeOK
      <4> QED
        BY <1>1, <2>1, <3>4, <4>1 DEF FreshLease, Waits, KeysOfSession, TypeOK
    <3> QED
      BY <3>5, <3>6, <3>7
  <2>8. CASE old.refcount > 1
    <3>1. new = [old EXCEPT !.refcount = @ - 1]
      BY <2>2, <2>3, <2>8 DEF ReleaseScript
    <3>2. new.turn = old.turn /\ new.ttl = old.ttl /\ new.refcount = old.refcount - 1
      BY <2>2, <3>1, TurnAssumption DEF SessionKeys, NoSessionKeys
    <3>3. OwnsLock'
      BY <1>1, <1>2, <2>1, <2>2, <3>2 DEF OwnsLock, KeysOfSession, TypeOK
    <3>4. RefcountCovers'
      <4>1. sessionKeys'[req[c].session] = new
        BY <2>1, <2>2 DEF TypeOK
      <4>2. Cardinality(Holders(req[c].session)') <= new.refcount
        BY <2>3, <2>5, <3>2, HoldersFinite
      <4> SUFFICES ASSUME NEW s \in Session
                   PROVE  Cardinality(Holders(s)') <= sessionKeys'[s].refcount
        BY DEF RefcountCovers
      <4>3. CASE s = req[c].session
        BY <1>1, <4>1, <4>2, <4>3 DEF Holders
      <4>4. CASE s # req[c].session
        BY <2>6, <4>4 DEF RefcountCovers
      <4> QED
        BY <4>3, <4>4
    <3>5. FreshLease'
      BY <1>1, <2>1, <3>2, <2>2 DEF FreshLease, Waits, KeysOfSession, TypeOK
    <3> QED
      BY <3>3, <3>4, <3>5
  <2> QED
    BY <2>3, <2>7, <2>8
<1> QED
  BY <1>3, <1>4

\* The step of a call that leaves the keys of sessions alone, takes no lock and
\* gives no lease away.
LEMMA QuietSessionInv ==
  ASSUME TypeOK, OwnsLock, RefcountCovers, FreshLease,
         sessionKeys' = sessionKeys, req' = req,
         \A d \in Call :
           /\ Holding(d)' => Holding(d)
           /\ pc'[d] \in {"turn", "gate"} => pc[d] \in {"turn", "gate"}
           /\ Waits(d)' /\ d \notin extendDue' =>
                (Waits(d) /\ d \notin extendDue) \/ pc[d] = "gate"
  PROVE  OwnsLock' /\ RefcountCovers' /\ FreshLease'
<1>1. OwnsLock' /\ RefcountCovers'
  BY QuietSessionStep
<1>2. FreshLease'
  BY TTLAssumption DEF FreshLease, KeysOfSession
<1> QED
  BY <1>1, <1>2

LEMMA SessionExtendStep ==
  ASSUME TypeOK, OwnsLock, RefcountCovers, FreshLease, LockedPhases,
         NEW c \in Call, Extend(c)
  PROVE  OwnsLock' /\ RefcountCovers' /\ FreshLease'
<1> DEFINE new == ExtendScript(KeysOfSession(c), req[c].turn)
<1>1. /\ pc' = pc /\ req' = req /\ cancelled' = cancelled
      /\ extendDue' = extendDue \ {c} /\ c \in extendDue
  BY DEF Extend
<1>2. CASE ~Reaches(c)
  <2>1. sessionKeys' = sessionKeys /\ ~Waits(c)
    BY <1>2 DEF Extend, Reaches, Waits
  <2>2. \A d \in Call : Holding(d)' <=> Holding(d)
    BY <1>1 DEF Holding, Guarded
  <2> QED
    BY <1>1, <2>1, <2>2, QuietSessionInv DEF Waits
<1>3. CASE Reaches(c)
  <2>1. sessionKeys' = [sessionKeys EXCEPT ![req[c].session] = new]
    BY <1>3 DEF Extend, SetKeysOfSession
  <2>2. Holding(c)
    BY <1>1 DEF TypeOK, LockedPhases, Holding
  <2>3. /\ KeysOfSession(c).turn = req[c].turn
        /\ req[c].session \in Session
        /\ KeysOfSession(c) \in SessionKeys
        /\ KeysOfSession(c) # NoSessionKeys
    BY <2>2, ReqType, TurnAssumption DEF OwnsLock, NoSessionKeys
  <2>4. /\ new.turn = req[c].turn
        /\ new.refcount = KeysOfSession(c).refcount
        /\ new.ttl = TTL
    BY <2>3 DEF ExtendScript, SessionKeys
  <2>5. \A s \in Session :
          /\ sessionKeys'[s].turn = sessionKeys[s].turn
          /\ sessionKeys'[s].refcount = sessionKeys[s].refcount
          /\ sessionKeys'[s].ttl \in {sessionKeys[s].ttl, TTL}
    BY <2>1, <2>3, <2>4 DEF TypeOK, KeysOfSession
  <2>6. \A d \in Call :
          /\ req[d].session \in Session
          /\ req[d].session = req[c].session => KeysOfSession(d)'.ttl = TTL
          /\ req[d].session # req[c].session =>
               KeysOfSession(d)' = KeysOfSession(d)
    BY <1>1, <2>1, <2>4, ReqType DEF TypeOK, KeysOfSession
  <2>7. OwnsLock'
    BY <1>1, <2>5, <2>6 DEF OwnsLock, KeysOfSession, Holding, Guarded
  <2>8. RefcountCovers'
    <3>1. \A s \in Session : Holders(s)' = Holders(s)
      BY <1>1 DEF Holders, Holding, Guarded
    <3> QED
      BY <2>5, <3>1 DEF RefcountCovers
  <2>9. FreshLease'
    BY <1>1, <2>6, TTLAssumption DEF FreshLease, Waits
  <2> QED
    BY <2>7, <2>8, <2>9
<1> QED
  BY <1>2, <1>3

\* Time takes the lock away from nobody who holds it.
LEMMA SessionTickStep ==
  ASSUME TypeOK, OwnsLock, RefcountCovers, FreshLease, LockedPhases,
         Tick, "slow" \notin env
  PROVE  OwnsLock' /\ RefcountCovers' /\ FreshLease'
<1>1. /\ sessionKeys' = [s \in Session |-> SessionKeysAge(sessionKeys[s])]
      /\ pc' = pc /\ req' = req /\ extendDue = {}
      /\ extendDue' = { c \in Call : pc[c] = "held" }
      /\ \A c \in Call : Holding(c) => Waits(c)
  BY DEF Tick
<1>2. ASSUME NEW c \in Call, Holding(c)
      PROVE  /\ KeysOfSession(c)'.turn = KeysOfSession(c).turn
             /\ KeysOfSession(c)'.refcount = KeysOfSession(c).refcount
  <2>1. req[c].session \in Session /\ KeysOfSession(c) \in SessionKeys
    BY ReqType
  <2>2. KeysOfSession(c).ttl >= 2
    BY <1>1, <1>2 DEF FreshLease
  <2>3. KeysOfSession(c)' = SessionKeysAge(KeysOfSession(c))
    BY <1>1, <2>1 DEF KeysOfSession
  <2> QED
    BY <2>1, <2>2, <2>3, TTLAssumption
       DEF SessionKeysAge, SessionKeys, NoSessionKeys
<1>3. \A c \in Call : Holding(c)' <=> Holding(c)
  BY <1>1 DEF Holding, Guarded
<1>4. OwnsLock'
  BY <1>1, <1>2, <1>3 DEF OwnsLock
<1>5. RefcountCovers'
  <2> SUFFICES ASSUME NEW s \in Session
               PROVE  Cardinality(Holders(s)') <= sessionKeys'[s].refcount
    BY DEF RefcountCovers
  <2>1. Holders(s)' = Holders(s)
    BY <1>1, <1>3 DEF Holders
  <2>2. CASE Holders(s) = {}
    <3>1. SessionKeysAge(sessionKeys[s]).refcount \in Nat
      BY TTLAssumption DEF TypeOK, SessionKeysAge, SessionKeys, NoSessionKeys
    <3> QED
      BY <1>1, <2>1, <2>2, <3>1, FS_EmptySet
  <2>3. CASE Holders(s) # {}
    <3>1. PICK c \in Call : Holding(c) /\ req[c].session = s
      BY <2>3 DEF Holders
    <3>2. sessionKeys'[s].refcount = sessionKeys[s].refcount
      BY <1>1, <1>2, <3>1 DEF KeysOfSession
    <3> QED
      BY <2>1, <3>2 DEF RefcountCovers
  <2> QED
    BY <2>2, <2>3
<1>6. FreshLease'
  <2>1. \A c \in Call : pc[c] \notin {"turn", "gate"}
    BY <1>1 DEF LockedPhases, Holding, Waits
  <2> QED
    BY <1>1, <2>1 DEF FreshLease, Waits
<1> QED
  BY <1>4, <1>5, <1>6

LEMMA SessionInductive == TypeOK /\ SessionInv /\ [Next]_vars => SessionInv'
<1> SUFFICES ASSUME TypeOK, SessionInv, [Next]_vars PROVE SessionInv'
  OBVIOUS
<1>1. LockedPhases /\ NoUnaskedHold /\ LockedPhases' /\ NoUnaskedHold'
  BY PhasesInductive DEF SessionInv
<1>2. env' = env
  BY DEF Next, vars, Advance, Bypass, SessionAcquire, SessionBusy, TurnAcquire,
         ReadMiscounted, TurnBusy, Abort, Decide, Return, TurnUnlock,
         SessionRelease, Hold, Extend, Resume, Fault, Cancel, RedisError,
         LostReply, Crash, Tick, Quiescent
<1> SUFFICES ASSUME SessionLeasesHonoured
             PROVE  OwnsLock' /\ RefcountCovers' /\ FreshLease'
  BY <1>1, <1>2 DEF SessionInv, SessionLeasesHonoured
<1>3. /\ OwnsLock /\ RefcountCovers /\ FreshLease
      /\ "slow" \notin env /\ "lostReply" \notin env
      /\ "redisError" \in env => "hold" \notin env
  BY DEF SessionInv, SessionLeasesHonoured
<1> USE DEF TypeOK, LockedPhases, Holding, Guarded, Waits, Goto
<1>4. CASE UNCHANGED vars
  BY <1>3, <1>4, QuietSessionInv DEF vars
<1>5. ASSUME NEW c \in Call, Advance(c)
      PROVE  OwnsLock' /\ RefcountCovers' /\ FreshLease'
  <2>1. CASE SessionAcquire(c)
    BY <1>3, <2>1, SessionAcquireStep
  <2>2. CASE SessionRelease(c)
    BY <1>1, <1>3, <2>2, SessionReleaseStep
  <2>3. CASE Bypass(c) \/ SessionBusy(c) \/ Abort(c) \/ Decide(c) \/ Return(c)
    BY <1>1, <1>3, <2>3, QuietSessionInv
       DEF Bypass, SessionBusy, Abort, Decide, Return
  <2>4. CASE TurnAcquire(c) \/ ReadMiscounted(c) \/ TurnBusy(c) \/ TurnUnlock(c)
    BY <1>1, <1>3, <2>4, QuietSessionInv
       DEF TurnAcquire, ReadMiscounted, TurnBusy, TurnUnlock
  <2> QED
    BY <1>5, <2>1, <2>2, <2>3, <2>4 DEF Advance
<1>6. ASSUME NEW c \in Call, Hold(c) \/ Resume(c) \/ Fault(c)
      PROVE  OwnsLock' /\ RefcountCovers' /\ FreshLease'
  BY <1>1, <1>3, <1>6, QuietSessionInv
     DEF Hold, Resume, Fault, Cancel, RedisError, LostReply, NoUnaskedHold
<1>7. ASSUME NEW c \in Call, Extend(c)
      PROVE  OwnsLock' /\ RefcountCovers' /\ FreshLease'
  BY <1>1, <1>3, <1>7, SessionExtendStep
<1>8. CASE Crash
  BY <1>3, <1>8, QuietSessionInv DEF Crash
<1>9. CASE Tick
  BY <1>1, <1>3, <1>9, SessionTickStep
<1>10. CASE Quiescent
  BY <1>3, <1>10, QuietSessionInv DEF Quiescent, vars
<1> QED
  BY <1>4, <1>5, <1>6, <1>7, <1>8, <1>9, <1>10 DEF Next

LEMMA SessionInitially == Init => SessionInv
<1> SUFFICES ASSUME Init PROVE SessionInv
  OBVIOUS
<1>1. \A c \in Call : pc[c] = "session" /\ ~Holding(c)
  BY DEF Init, Holding
<1>2. \A s \in Session : Holders(s) = {} /\ sessionKeys[s].refcount = 0
  BY <1>1 DEF Init, Holders, NoSessionKeys
<1>3. RefcountCovers
  BY <1>2, FS_EmptySet DEF RefcountCovers
<1> QED
  BY <1>1, <1>3
     DEF SessionInv, LockedPhases, NoUnaskedHold, OwnsLock, FreshLease, Waits

\* One turn at a time per session, whatever calls come, clients leave, gateways
\* crash and locks leak, for as long as leases are honoured.
THEOREM SessionExclusion == Spec => []SessionExclusive
<1>1. Init => SessionInv
  BY SessionInitially
<1>2. SessionInv => SessionExclusive
  BY DEF SessionInv, SessionExclusive, OwnsLock, KeysOfSession
<1> QED
  BY <1>1, <1>2, TypeCorrect, SessionInductive, PTL DEF Spec

-----------------------------------------------------------------------------
\* Readers or one writer per turn.

LEMMA ReadersFinite ==
  ASSUME NEW t
  PROVE  IsFiniteSet(Readers(t)) /\ Cardinality(Readers(t)) \in Nat
<1>1. Readers(t) \subseteq Call
  BY DEF Readers
<1> QED
  BY <1>1, FiniteCallsAssumption, FS_Subset, FS_CardinalityType

LEMMA TurnKeysFields ==
  ASSUME NEW keys \in TurnKeys
  PROVE  keys.readers \in Int /\ keys.writer \in Call \cup {NoCall}
BY DEF TurnKeys

\* A step that leaves the keys of turns alone and lets no call run.
LEMMA QuietTurnStep ==
  ASSUME TypeOK, WriterOwnsLock, ReaderBarsWriters, ReadersCovered,
         turnKeys' = turnKeys, req' = req,
         \A d \in Call : Locking(d)' => Locking(d)
  PROVE  WriterOwnsLock' /\ ReaderBarsWriters' /\ ReadersCovered'
<1>1. WriterOwnsLock' /\ ReaderBarsWriters'
  BY DEF WriterOwnsLock, ReaderBarsWriters, KeysOfTurn, Writes, Reads
<1>2. ASSUME NEW t \in Turn
      PROVE  Cardinality(Readers(t)') <= turnKeys[t].readers
  <2>1. Readers(t)' \subseteq Readers(t)
    BY DEF Readers, Reads
  <2>2. /\ Cardinality(Readers(t)') <= Cardinality(Readers(t))
        /\ Cardinality(Readers(t)') \in Nat
    BY <2>1, ReadersFinite, FS_Subset, FS_CardinalityType
  <2>3. turnKeys[t].readers \in Int
    BY TurnKeysFields DEF TypeOK
  <2> QED
    BY <2>2, <2>3, ReadersFinite DEF ReadersCovered
<1> QED
  BY <1>1, <1>2 DEF ReadersCovered

\* A lock is taken only when it excludes nobody it should not.
LEMMA TurnAcquireStep ==
  ASSUME TypeOK, WriterOwnsLock, ReaderBarsWriters, ReadersCovered, LockedPhases,
         NEW c \in Call, TurnAcquire(c)
  PROVE  WriterOwnsLock' /\ ReaderBarsWriters' /\ ReadersCovered'
<1> DEFINE old == KeysOfTurn(c)
           new == LockScript(c, KeysOfTurn(c))
<1>1. /\ turnKeys' = [turnKeys EXCEPT ![req[c].turn] = new]
      /\ pc' = [pc EXCEPT ![c] = "gate"]
      /\ req' = req /\ pc[c] = "turn" /\ Guarded(c)
  BY DEF TurnAcquire, SetKeysOfTurn, Goto, LockedPhases
<1>2. /\ req[c].turn \in Turn /\ old \in TurnKeys /\ new \in TurnKeys
      /\ Reads(c) <=> ~Writes(c)
  BY <1>1, ReqType, LockScriptsType DEF Reads, Writes, Guarded
<1>3. /\ ~Locking(c)
      /\ \A d \in Call : Locking(d)' <=> Locking(d) \/ d = c
  BY <1>1 DEF Locking, Guarded, TypeOK
<1>4. old.writer = NoCall
  BY <1>2 DEF TurnAcquire, ReadLockResult, ReadLockOpen, WriteLockGranted
<1>5. \A d \in Call : /\ req[d].turn \in Turn
                      /\ req[d].turn # req[c].turn =>
                           KeysOfTurn(d)' = KeysOfTurn(d)
                      /\ req[d].turn = req[c].turn =>
                           KeysOfTurn(d) = old /\ KeysOfTurn(d)' = new
  BY <1>1, <1>2, ReqType DEF KeysOfTurn, TypeOK
<1>6. \A t \in Turn \ {req[c].turn} :
        Readers(t)' = Readers(t) /\ turnKeys'[t] = turnKeys[t]
  BY <1>1, <1>3 DEF Readers, Reads, TypeOK
<1>7. CASE Reads(c)
  <2>1. new = [old EXCEPT !.readers = @ + 1, !.readersTTL = TTL]
    BY <1>4, <1>7 DEF LockScript, ReadLockScript, ReadLockOpen
  <2>2. new.writer = NoCall /\ new.readers = old.readers + 1
    BY <1>2, <1>4, <2>1 DEF TurnKeys
  <2>3. \A d \in Call : Locking(d) /\ Writes(d) => req[d].turn # req[c].turn
    BY <1>4, <1>5, CallAssumption DEF WriterOwnsLock
  <2>4. WriterOwnsLock' /\ ReaderBarsWriters'
    BY <1>1, <1>2, <1>3, <1>5, <1>7, <2>2, <2>3
       DEF WriterOwnsLock, ReaderBarsWriters, Reads, Writes
  <2>5. ReadersCovered'
    <3> SUFFICES ASSUME NEW t \in Turn
                 PROVE  Cardinality(Readers(t)') <= turnKeys'[t].readers
      BY DEF ReadersCovered
    <3>1. CASE t # req[c].turn
      BY <1>6, <3>1 DEF ReadersCovered
    <3>2. CASE t = req[c].turn
      <4>1. Readers(t)' = Readers(t) \cup {c} /\ c \notin Readers(t)
        BY <1>1, <1>3, <1>7, <3>2 DEF Readers, Reads
      <4>2. Cardinality(Readers(t)') = Cardinality(Readers(t)) + 1
        BY <4>1, ReadersFinite, FS_AddElement
      <4>3. Cardinality(Readers(t)) <= old.readers
        BY <3>2 DEF ReadersCovered, KeysOfTurn
      <4>4. turnKeys'[t].readers = old.readers + 1 /\ old.readers \in Int
        BY <1>1, <1>2, <2>2, <3>2, TurnKeysFields DEF TypeOK
      <4> QED
        BY <4>2, <4>3, <4>4, ReadersFinite
    <3> QED
      BY <3>1, <3>2
  <2> QED
    BY <2>4, <2>5
<1>8. CASE Writes(c)
  <2>1. old.readers = 0 /\ new = [old EXCEPT !.writer = c, !.writerTTL = TTL]
    BY <1>2, <1>8
       DEF TurnAcquire, LockScript, WriteLockScript, WriteLockGranted
  <2>2. new.writer = c /\ new.readers = 0
    BY <1>2, <2>1 DEF TurnKeys
  <2>3. \A d \in Call : Locking(d) => req[d].turn # req[c].turn
    <3> SUFFICES ASSUME NEW d \in Call, Locking(d), req[d].turn = req[c].turn
                 PROVE  FALSE
      OBVIOUS
    <3>1. CASE Reads(d)
      <4>1. d \in Readers(req[c].turn)
        BY <3>1 DEF Readers
      <4>2. Cardinality(Readers(req[c].turn)) <= 0
        BY <1>2, <2>1 DEF ReadersCovered, KeysOfTurn
      <4>3. Readers(req[c].turn) = {}
        BY <4>2, ReadersFinite, FS_EmptySet
      <4> QED
        BY <4>1, <4>3
    <3>2. CASE Writes(d)
      BY <1>4, <1>5, <3>2, CallAssumption DEF WriterOwnsLock
    <3> QED
      BY <3>1, <3>2, ReqType DEF Reads, Writes, Locking, Guarded
  <2>4. WriterOwnsLock' /\ ReaderBarsWriters'
    BY <1>1, <1>2, <1>3, <1>5, <1>8, <2>2, <2>3
       DEF WriterOwnsLock, ReaderBarsWriters, Reads, Writes
  <2>5. ReadersCovered'
    <3> SUFFICES ASSUME NEW t \in Turn
                 PROVE  Cardinality(Readers(t)') <= turnKeys'[t].readers
      BY DEF ReadersCovered
    <3>1. CASE t # req[c].turn
      BY <1>6, <3>1 DEF ReadersCovered
    <3>2. CASE t = req[c].turn
      <4>1. Readers(t)' = {}
        BY <1>1, <1>2, <1>3, <1>8, <2>3, <3>2 DEF Readers, Reads, Writes
      <4>2. turnKeys'[t].readers = 0
        BY <1>1, <1>2, <2>2, <3>2 DEF TypeOK
      <4> QED
        BY <4>1, <4>2, FS_EmptySet
    <3> QED
      BY <3>1, <3>2
  <2> QED
    BY <2>4, <2>5
<1> QED
  BY <1>2, <1>7, <1>8

\* An unlock gives back what its own call took.
LEMMA TurnUnlockStep ==
  ASSUME TypeOK, WriterOwnsLock, ReaderBarsWriters, ReadersCovered, LockedPhases,
         NEW c \in Call, TurnUnlock(c)
  PROVE  WriterOwnsLock' /\ ReaderBarsWriters' /\ ReadersCovered'
<1> DEFINE old == KeysOfTurn(c)
           new == UnlockScript(c, KeysOfTurn(c))
<1>1. /\ pc' = [pc EXCEPT ![c] = "unlockSession"]
      /\ req' = req /\ pc[c] = "unlockTurn" /\ Guarded(c)
  BY DEF TurnUnlock, Goto, LockedPhases
<1>2. /\ Locking(c)
      /\ \A d \in Call : Locking(d)' <=> Locking(d) /\ d # c
  BY <1>1 DEF Locking, Guarded, TypeOK
<1>3. CASE ~Reaches(c)
  <2>1. turnKeys' = turnKeys
    BY <1>3 DEF TurnUnlock
  <2> QED
    BY <1>1, <1>2, <2>1, QuietTurnStep
<1>4. CASE Reaches(c)
  <2>1. turnKeys' = [turnKeys EXCEPT ![req[c].turn] = new]
    BY <1>4 DEF TurnUnlock, SetKeysOfTurn
  <2>2. /\ req[c].turn \in Turn /\ old \in TurnKeys /\ new \in TurnKeys
        /\ Reads(c) <=> ~Writes(c)
    BY <1>1, ReqType, LockScriptsType DEF Reads, Writes, Guarded
  <2>3. \A d \in Call : /\ req[d].turn \in Turn
                        /\ req[d].turn # req[c].turn =>
                             KeysOfTurn(d)' = KeysOfTurn(d)
                        /\ req[d].turn = req[c].turn =>
                             KeysOfTurn(d) = old /\ KeysOfTurn(d)' = new
    BY <1>1, <2>1, <2>2, ReqType DEF KeysOfTurn, TypeOK
  <2>4. \A t \in Turn \ {req[c].turn} :
          Readers(t)' = Readers(t) /\ turnKeys'[t] = turnKeys[t]
    BY <1>1, <1>2, <2>1 DEF Readers, Reads, TypeOK
  <2>5. CASE Reads(c)
    <3>1. new = [old EXCEPT !.readers = @ - 1]
      BY <2>5 DEF UnlockScript, ReadUnlockScript
    <3>2. new.writer = old.writer /\ new.readers = old.readers - 1
      BY <2>2, <3>1 DEF TurnKeys
    <3>3. WriterOwnsLock' /\ ReaderBarsWriters'
      BY <1>1, <1>2, <2>2, <2>3, <3>2
         DEF WriterOwnsLock, ReaderBarsWriters, Reads, Writes
    <3>4. ReadersCovered'
      <4> SUFFICES ASSUME NEW t \in Turn
                   PROVE  Cardinality(Readers(t)') <= turnKeys'[t].readers
        BY DEF ReadersCovered
      <4>1. CASE t # req[c].turn
        BY <2>4, <4>1 DEF ReadersCovered
      <4>2. CASE t = req[c].turn
        <5>1. Readers(t)' = Readers(t) \ {c} /\ c \in Readers(t)
          BY <1>1, <1>2, <2>5, <4>2 DEF Readers, Reads
        <5>2. Cardinality(Readers(t)') = Cardinality(Readers(t)) - 1
          BY <5>1, ReadersFinite, FS_RemoveElement
        <5>3. Cardinality(Readers(t)) <= old.readers
          BY <4>2 DEF ReadersCovered, KeysOfTurn
        <5>4. turnKeys'[t].readers = old.readers - 1 /\ old.readers \in Int
          BY <2>1, <2>2, <3>2, <4>2, TurnKeysFields DEF TypeOK
        <5> QED
          BY <5>2, <5>3, <5>4, ReadersFinite
      <4> QED
        BY <4>1, <4>2
    <3> QED
      BY <3>3, <3>4
  <2>6. CASE Writes(c)
    <3>1. old.writer = c
      BY <1>2, <2>6 DEF WriterOwnsLock
    <3>2. new = [old EXCEPT !.writer = NoCall, !.writerTTL = 0]
      BY <2>2, <2>6, <3>1 DEF UnlockScript, WriteUnlockScript
    <3>3. new.writer = NoCall /\ new.readers = old.readers
      BY <2>2, <3>2 DEF TurnKeys
    <3>4. \A d \in Call : Locking(d) /\ d # c => req[d].turn # req[c].turn
      <4> SUFFICES ASSUME NEW d \in Call, Locking(d), d # c,
                          req[d].turn = req[c].turn
                   PROVE  FALSE
        OBVIOUS
      <4>1. KeysOfTurn(d).writer = c
        BY <2>3, <3>1
      <4>2. Reads(d) \/ Writes(d)
        BY ReqType DEF Reads, Writes, Locking, Guarded
      <4> QED
        BY <4>1, <4>2, CallAssumption DEF WriterOwnsLock, ReaderBarsWriters
    <3>5. WriterOwnsLock' /\ ReaderBarsWriters'
      BY <1>1, <1>2, <2>3, <3>4
         DEF WriterOwnsLock, ReaderBarsWriters, Reads, Writes
    <3>6. ReadersCovered'
      <4> SUFFICES ASSUME NEW t \in Turn
                   PROVE  Cardinality(Readers(t)') <= turnKeys'[t].readers
        BY DEF ReadersCovered
      <4>1. Readers(t)' = Readers(t)
        BY <1>1, <1>2, <2>2, <2>6 DEF Readers, Reads, Writes
      <4>2. turnKeys'[t].readers = turnKeys[t].readers
        BY <2>1, <2>2, <3>3 DEF TypeOK, KeysOfTurn
      <4> QED
        BY <4>1, <4>2 DEF ReadersCovered
    <3> QED
      BY <3>5, <3>6
  <2> QED
    BY <2>2, <2>5, <2>6
<1> QED
  BY <1>3, <1>4

\* A count that covers the readers is never brought to 0 by one more of them.
LEMMA NoMiscount ==
  ASSUME TypeOK, ReadersCovered, NEW c \in Call
  PROVE  ~ReadMiscounted(c)
<1>1. req[c].turn \in Turn /\ KeysOfTurn(c).readers \in Int
  BY ReqType, TurnKeysFields
<1>2. KeysOfTurn(c).readers >= 0
  BY <1>1, ReadersFinite DEF ReadersCovered, KeysOfTurn
<1> QED
  BY <1>1, <1>2 DEF ReadMiscounted, ReadLockResult

\* Time passes only while nobody locks a turn.
LEMMA TurnTickStep ==
  ASSUME TypeOK, ReadersCovered, LockedPhases, NoUnaskedHold,
         Tick, "slow" \notin env, "hold" \notin env
  PROVE  WriterOwnsLock' /\ ReaderBarsWriters' /\ ReadersCovered'
<1>1. /\ turnKeys' = [t \in Turn |-> TurnKeysAge(turnKeys[t])]
      /\ pc' = pc /\ req' = req
  BY DEF Tick
<1>2. \A c \in Call : ~Locking(c) /\ ~Locking(c)'
  BY <1>1 DEF Tick, Holding, Waits, Locking, Guarded, NoUnaskedHold
<1>3. WriterOwnsLock' /\ ReaderBarsWriters'
  BY <1>2 DEF WriterOwnsLock, ReaderBarsWriters
<1>4. ReadersCovered'
  <2> SUFFICES ASSUME NEW t \in Turn
               PROVE  Cardinality(Readers(t)') <= turnKeys'[t].readers
    BY DEF ReadersCovered
  <2>1. Readers(t) = {} /\ Readers(t)' = {}
    BY <1>2 DEF Readers
  <2>2. turnKeys[t].readers >= 0 /\ turnKeys[t].readers \in Int
    BY <2>1, FS_EmptySet, TurnKeysFields DEF ReadersCovered, TypeOK
  <2>3. turnKeys'[t].readers \in {0, turnKeys[t].readers}
    BY <1>1 DEF TurnKeysAge
  <2> QED
    BY <2>1, <2>2, <2>3, FS_EmptySet
<1> QED
  BY <1>3, <1>4

LEMMA TurnInductive == TypeOK /\ TurnInv /\ [Next]_vars => TurnInv'
<1> SUFFICES ASSUME TypeOK, TurnInv, [Next]_vars PROVE TurnInv'
  OBVIOUS
<1>1. LockedPhases /\ NoUnaskedHold /\ LockedPhases' /\ NoUnaskedHold'
  BY PhasesInductive DEF TurnInv
<1>2. env' = env
  BY DEF Next, vars, Advance, Bypass, SessionAcquire, SessionBusy, TurnAcquire,
         ReadMiscounted, TurnBusy, Abort, Decide, Return, TurnUnlock,
         SessionRelease, Hold, Extend, Resume, Fault, Cancel, RedisError,
         LostReply, Crash, Tick, Quiescent
<1> SUFFICES ASSUME TurnLeasesHonoured
             PROVE  WriterOwnsLock' /\ ReaderBarsWriters' /\ ReadersCovered'
  BY <1>1, <1>2 DEF TurnInv, TurnLeasesHonoured
<1>3. /\ WriterOwnsLock /\ ReaderBarsWriters /\ ReadersCovered
      /\ "slow" \notin env /\ "lostReply" \notin env /\ "hold" \notin env
  BY DEF TurnInv, TurnLeasesHonoured
<1> USE DEF TypeOK, LockedPhases, Locking, Guarded, Goto
<1>4. CASE UNCHANGED vars
  BY <1>3, <1>4, QuietTurnStep DEF vars
<1>5. ASSUME NEW c \in Call, Advance(c)
      PROVE  WriterOwnsLock' /\ ReaderBarsWriters' /\ ReadersCovered'
  <2>1. CASE TurnAcquire(c)
    BY <1>1, <1>3, <2>1, TurnAcquireStep
  <2>2. CASE ReadMiscounted(c)
    BY <1>3, <2>2, NoMiscount
  <2>3. CASE TurnUnlock(c)
    BY <1>1, <1>3, <2>3, TurnUnlockStep
  <2>4. CASE \/ Bypass(c) \/ SessionAcquire(c) \/ SessionBusy(c)
             \/ TurnBusy(c) \/ Abort(c) \/ Decide(c) \/ Return(c)
             \/ SessionRelease(c)
    BY <1>1, <1>3, <2>4, QuietTurnStep
       DEF Bypass, SessionAcquire, SessionBusy, TurnBusy, Abort, Decide, Return,
           SessionRelease
  <2> QED
    BY <1>5, <2>1, <2>2, <2>3, <2>4 DEF Advance
<1>6. ASSUME NEW c \in Call, Hold(c) \/ Extend(c) \/ Resume(c) \/ Fault(c)
      PROVE  WriterOwnsLock' /\ ReaderBarsWriters' /\ ReadersCovered'
  BY <1>1, <1>3, <1>6, QuietTurnStep
     DEF Hold, Extend, Resume, Fault, Cancel, RedisError, LostReply
<1>7. CASE Crash
  BY <1>3, <1>7, QuietTurnStep DEF Crash
<1>8. CASE Tick
  BY <1>1, <1>3, <1>8, TurnTickStep
<1>9. CASE Quiescent
  BY <1>3, <1>9, QuietTurnStep DEF Quiescent, vars
<1> QED
  BY <1>4, <1>5, <1>6, <1>7, <1>8, <1>9 DEF Next

LEMMA TurnInitially == Init => TurnInv
<1> SUFFICES ASSUME Init PROVE TurnInv
  OBVIOUS
<1>1. \A c \in Call : pc[c] = "session" /\ ~Locking(c)
  BY DEF Init, Locking
<1>2. \A t \in Turn : Readers(t) = {} /\ turnKeys[t].readers = 0
  BY <1>1 DEF Init, Readers, NoTurnKeys
<1>3. ReadersCovered
  BY <1>2, FS_EmptySet DEF ReadersCovered
<1> QED
  BY <1>1, <1>3
     DEF TurnInv, LockedPhases, NoUnaskedHold, WriterOwnsLock, ReaderBarsWriters

\* Readers or one writer per turn, for as long as the leases of turns are
\* honoured, whatever clients leave, gateways crash and locks leak.
THEOREM WriteExclusion == Spec => []WriteExclusive
<1>1. Init => TurnInv
  BY TurnInitially
<1>2. TypeOK /\ TurnInv => WriteExclusive
  <2> SUFFICES ASSUME TypeOK, TurnInv, TurnLeasesHonoured,
                      NEW c \in Call, NEW d \in Call, c # d,
                      Executing(c), Executing(d), req[c].turn = req[d].turn
               PROVE  Reads(c) /\ Reads(d)
    BY DEF WriteExclusive
  <2>1. Locking(c) /\ Locking(d) /\ KeysOfTurn(c) = KeysOfTurn(d)
    BY DEF Executing, Locking, KeysOfTurn
  <2>2. (Reads(c) \/ Writes(c)) /\ (Reads(d) \/ Writes(d))
    BY ReqType DEF Executing, Guarded, Reads, Writes
  <2> QED
    BY <2>1, <2>2, CallAssumption
       DEF TurnInv, WriterOwnsLock, ReaderBarsWriters
<1> QED
  BY <1>1, <1>2, TypeCorrect, TurnInductive, PTL DEF Spec

-----------------------------------------------------------------------------
\* The counter of a turn has a TTL unless it is 0, as long as no call outlasts the
\* TTL.  A reader has renewed it when it locked, and no time passes before it
\* unlocks, so its DECR, or its second one, finds the key with its whole TTL.

Leased(keys) == keys.readersTTL = 0 => keys.readers = 0

ReadersRenewed == \A c \in Call : Locking(c) /\ Reads(c) => KeysOfTurn(c).readersTTL = TTL

LeaseInv ==
  /\ LockedPhases
  /\ NoUnaskedHold
  /\ env \cap {"hold", "slow"} = {} =>
       ReadersRenewed /\ \A t \in Turn : Leased(turnKeys[t])

\* What the scripts do to the TTL of the counter.
LEMMA ScriptsLease ==
  ASSUME NEW keys \in TurnKeys, NEW c \in Call, Leased(keys)
  PROVE  /\ Leased(LockScript(c, keys))
         /\ Leased(TurnKeysAge(keys))
         /\ keys.readersTTL = TTL =>
              LockScript(c, keys).readersTTL = TTL /\ UnlockScript(c, keys).readersTTL = TTL
         /\ ~Reads(c) => Leased(UnlockScript(c, keys))
         /\ Reads(c) /\ ReadLockOpen(keys) => LockScript(c, keys).readersTTL = TTL
<1> USE TTLAssumption, CallAssumption DEF TurnKeys, Leased
<1>1. Leased(ReadLockScript(keys)) /\ Leased(WriteLockScript(keys, c))
  BY DEF ReadLockScript, WriteLockScript
<1>2. Leased(TurnKeysAge(keys))
  BY DEF TurnKeysAge
<1>3. Leased(WriteUnlockScript(keys, c))
  BY DEF WriteUnlockScript
<1>4. keys.readersTTL = TTL =>
        /\ ReadLockScript(keys).readersTTL = TTL
        /\ WriteLockScript(keys, c).readersTTL = TTL
        /\ ReadUnlockScript(keys).readersTTL = TTL
        /\ WriteUnlockScript(keys, c).readersTTL = TTL
  BY DEF ReadLockScript, WriteLockScript, ReadUnlockScript, WriteUnlockScript
<1>5. ReadLockOpen(keys) => ReadLockScript(keys).readersTTL = TTL
  BY DEF ReadLockScript
<1> QED
  BY <1>1, <1>2, <1>3, <1>4, <1>5 DEF LockScript, UnlockScript

\* A step that leaves the keys of turns alone and lets no call lock one.
LEMMA QuietLeaseStep ==
  ASSUME ReadersRenewed, \A t \in Turn : Leased(turnKeys[t]),
         turnKeys' = turnKeys, req' = req,
         \A d \in Call : Locking(d)' => Locking(d)
  PROVE  ReadersRenewed' /\ \A t \in Turn : Leased(turnKeys'[t])
BY DEF ReadersRenewed, KeysOfTurn, Reads

\* A step that writes the keys of one turn.
LEMMA WrittenLeaseStep ==
  ASSUME TypeOK, ReadersRenewed, \A t \in Turn : Leased(turnKeys[t]),
         NEW c \in Call, NEW keys, SetKeysOfTurn(c, keys), req' = req,
         Leased(keys),
         KeysOfTurn(c).readersTTL = TTL => keys.readersTTL = TTL,
         \A d \in Call : Locking(d)' => Locking(d) \/ d = c,
         Locking(c)' /\ Reads(c) => keys.readersTTL = TTL
  PROVE  ReadersRenewed' /\ \A t \in Turn : Leased(turnKeys'[t])
<1>1. req[c].turn \in Turn /\ turnKeys \in [Turn -> TurnKeys]
  BY ReqType DEF TypeOK
<1>2. turnKeys' = [turnKeys EXCEPT ![req[c].turn] = keys]
  BY DEF SetKeysOfTurn
<1>3. \A t \in Turn : Leased(turnKeys'[t])
  BY <1>1, <1>2
<1>4. ASSUME NEW d \in Call, Locking(d)', Reads(d)
      PROVE  turnKeys'[req[d].turn].readersTTL = TTL
  <2>1. CASE req[d].turn = req[c].turn
    BY <1>1, <1>2, <1>4, <2>1 DEF ReadersRenewed, KeysOfTurn
  <2>2. CASE req[d].turn # req[c].turn
    BY <1>1, <1>2, <1>4, <2>2, ReqType DEF ReadersRenewed, KeysOfTurn
  <2> QED
    BY <2>1, <2>2
<1> QED
  BY <1>3, <1>4 DEF ReadersRenewed, KeysOfTurn, Reads

LEMMA LeaseInductive == TypeOK /\ LeaseInv /\ [Next]_vars => LeaseInv'
<1> SUFFICES ASSUME TypeOK, LeaseInv, [Next]_vars PROVE LeaseInv'
  OBVIOUS
<1>1. LockedPhases /\ NoUnaskedHold /\ LockedPhases' /\ NoUnaskedHold'
  BY PhasesInductive DEF LeaseInv
<1>2. env' = env
  BY DEF Next, vars, Advance, Bypass, SessionAcquire, SessionBusy, TurnAcquire,
         ReadMiscounted, TurnBusy, Abort, Decide, Return, TurnUnlock,
         SessionRelease, Hold, Extend, Resume, Fault, Cancel, RedisError,
         LostReply, Crash, Tick, Quiescent
<1> DEFINE Goal == ReadersRenewed' /\ \A t \in Turn : Leased(turnKeys'[t])
<1> SUFFICES ASSUME "slow" \notin env, "hold" \notin env PROVE Goal
  BY <1>1, <1>2 DEF LeaseInv
<1>3. ReadersRenewed /\ \A t \in Turn : Leased(turnKeys[t])
  BY DEF LeaseInv
<1>4. \A c \in Call : /\ KeysOfTurn(c) \in TurnKeys
                      /\ Leased(KeysOfTurn(c))
                      /\ Locking(c) /\ Reads(c) => KeysOfTurn(c).readersTTL = TTL
  BY <1>3, ReqType DEF KeysOfTurn, ReadersRenewed
\* The counter that a locked call takes itself off still has its TTL.
<1>5. ASSUME NEW c \in Call, Locking(c)
      PROVE  Leased(UnlockScript(c, KeysOfTurn(c)))
  BY <1>4, <1>5, ScriptsLease, TTLAssumption DEF Leased
<1>6. ASSUME NEW c \in Call, Advance(c) PROVE Goal
  <2> USE DEF TypeOK, LockedPhases, Locking, Guarded, Goto
  <2>1. CASE TurnAcquire(c)
    <3>1. Reads(c) => ReadLockOpen(KeysOfTurn(c))
      BY <2>1 DEF TurnAcquire, ReadLockResult, Reads, Writes
    <3> DEFINE keys == LockScript(c, KeysOfTurn(c))
    <3>2. /\ Leased(keys)
          /\ Reads(c) => keys.readersTTL = TTL
          /\ KeysOfTurn(c).readersTTL = TTL => keys.readersTTL = TTL
      BY <1>4, <3>1, ScriptsLease
    <3>3. /\ SetKeysOfTurn(c, keys) /\ req' = req
          /\ \A d \in Call : Locking(d)' => Locking(d) \/ d = c
      BY <2>1 DEF TurnAcquire
    <3> QED
      BY <1>3, <3>2, <3>3, WrittenLeaseStep
  <2>2. CASE ReadMiscounted(c)
    <3> DEFINE keys == LockScript(c, KeysOfTurn(c))
    <3>1. /\ Leased(keys) /\ keys.readersTTL = TTL
      BY <1>4, <2>2, ScriptsLease DEF ReadMiscounted
    <3>2. /\ SetKeysOfTurn(c, keys) /\ req' = req
          /\ \A d \in Call : Locking(d)' => Locking(d)
      BY <2>2 DEF ReadMiscounted, LockScript
    <3> QED
      BY <1>3, <3>1, <3>2, WrittenLeaseStep
  <2>3. CASE TurnUnlock(c)
    <3>1. Locking(c) /\ req' = req /\ \A d \in Call : Locking(d)' => Locking(d)
      BY <1>1, <2>3 DEF TurnUnlock
    <3>2. CASE turnKeys' = turnKeys
      BY <1>3, <3>1, <3>2, QuietLeaseStep
    <3>3. CASE SetKeysOfTurn(c, UnlockScript(c, KeysOfTurn(c)))
      <4>1. KeysOfTurn(c).readersTTL = TTL =>
              UnlockScript(c, KeysOfTurn(c)).readersTTL = TTL
        BY <1>4, ScriptsLease
      <4>2. ~Locking(c)'
        BY <2>3 DEF TurnUnlock
      <4> QED
        BY <1>3, <1>5, <3>1, <3>3, <4>1, <4>2, WrittenLeaseStep
    <3> QED
      BY <2>3, <3>2, <3>3 DEF TurnUnlock
  <2>4. CASE \/ Bypass(c) \/ SessionAcquire(c) \/ SessionBusy(c)
             \/ TurnBusy(c) \/ Abort(c) \/ Decide(c) \/ Return(c)
             \/ SessionRelease(c)
    BY <1>1, <1>3, <2>4, QuietLeaseStep
       DEF Bypass, SessionAcquire, SessionBusy, TurnBusy, Abort, Decide, Return,
           SessionRelease
  <2> QED
    BY <1>6, <2>1, <2>2, <2>3, <2>4 DEF Advance
\* A script executed twice.
<1>7. ASSUME NEW c \in Call, LostReply(c) PROVE Goal
  <2>1. /\ pc' = pc /\ req' = req /\ Guarded(c)
        /\ \A d \in Call : Locking(d)' <=> Locking(d)
    BY <1>7 DEF LostReply, Locking, Guarded
  <2>2. CASE turnKeys' = turnKeys
    BY <1>3, <2>1, <2>2, QuietLeaseStep
  <2>3. CASE pc[c] = "turn" /\ SetKeysOfTurn(c, LockScript(c, KeysOfTurn(c)))
    <3>1. ~Locking(c)
      BY <2>3 DEF Locking
    <3>2. /\ Leased(LockScript(c, KeysOfTurn(c)))
          /\ KeysOfTurn(c).readersTTL = TTL =>
               LockScript(c, KeysOfTurn(c)).readersTTL = TTL
      BY <1>4, ScriptsLease
    <3> QED
      BY <1>3, <2>1, <2>3, <3>1, <3>2, WrittenLeaseStep
  <2>4. CASE pc[c] = "unlockTurn" /\ SetKeysOfTurn(c, UnlockScript(c, KeysOfTurn(c)))
    <3>1. Locking(c)
      BY <2>1, <2>4 DEF Locking
    <3>2. KeysOfTurn(c).readersTTL = TTL =>
            UnlockScript(c, KeysOfTurn(c)).readersTTL = TTL
      BY <1>4, ScriptsLease
    <3> QED
      BY <1>3, <1>4, <1>5, <2>1, <2>4, <3>1, <3>2, WrittenLeaseStep
  <2> QED
    BY <1>7, <2>2, <2>3, <2>4 DEF LostReply
<1>8. ASSUME NEW c \in Call, Hold(c) \/ Extend(c) \/ Resume(c) \/ Cancel(c) \/ RedisError(c)
      PROVE  Goal
  BY <1>1, <1>3, <1>8, QuietLeaseStep
     DEF Hold, Extend, Resume, Cancel, RedisError, TypeOK, Locking, Guarded, Goto,
         LockedPhases
<1>9. CASE Crash
  BY <1>1, <1>3, <1>9, QuietLeaseStep DEF Crash, TypeOK, Locking, Guarded
\* Time passes only while nobody locks a turn.
<1>10. CASE Tick
  <2>1. /\ turnKeys' = [t \in Turn |-> TurnKeysAge(turnKeys[t])]
        /\ pc' = pc /\ req' = req
    BY <1>10 DEF Tick
  <2>2. \A c \in Call : ~Locking(c)'
    BY <1>1, <1>10, <2>1 DEF Tick, Holding, Waits, Locking, Guarded, NoUnaskedHold
  <2>3. ASSUME NEW t \in Turn PROVE Leased(turnKeys'[t])
    <3>1. turnKeys[t] \in TurnKeys /\ Leased(turnKeys[t])
      BY <1>3 DEF TypeOK
    <3>2. Leased(TurnKeysAge(turnKeys[t]))
      BY <3>1, TTLAssumption DEF TurnKeysAge, Leased, TurnKeys
    <3> QED
      BY <2>1, <3>2
  <2> QED
    BY <2>2, <2>3 DEF ReadersRenewed
<1>11. CASE Quiescent \/ UNCHANGED vars
  BY <1>3, <1>11, QuietLeaseStep DEF Quiescent, vars, Locking, Guarded
<1> QED
  BY <1>6, <1>7, <1>8, <1>9, <1>10, <1>11 DEF Next, Fault

\* No key of a turn is left without a TTL, whatever clients leave, gateways crash,
\* replies are lost and locks are given up, unless a call outlasts the TTL.
THEOREM TurnKeysHaveLeases == Spec => []TurnKeysLeased
<1>1. Init => LeaseInv
  BY DEF Init, LeaseInv, LockedPhases, NoUnaskedHold, ReadersRenewed, Locking, Leased,
     NoTurnKeys
<1>2. LeaseInv => TurnKeysLeased
  BY DEF LeaseInv, TurnKeysLeased, Leased
<1> QED
  BY <1>1, <1>2, TypeCorrect, LeaseInductive, PTL DEF Spec

-----------------------------------------------------------------------------
\* Without faults, the counters are exact.

NoCancellation == env = {} => cancelled = {}

CountsInv == NoCancellation /\ CountsExact

SessionCounts == \A s \in Session : sessionKeys[s].refcount = Cardinality(Holders(s))

TurnCounts == \A t \in Turn : turnKeys[t].readers = Cardinality(Readers(t))

\* Steps of calls that neither take nor release a lock.
LEMMA QuietCounts ==
  ASSUME req' = req
  PROVE  /\ SessionCounts /\ sessionKeys' = sessionKeys
              /\ (\A d \in Call : Holding(d)' <=> Holding(d)) => SessionCounts'
         /\ TurnCounts /\ turnKeys' = turnKeys
              /\ (\A d \in Call : Locking(d)' <=> Locking(d)) => TurnCounts'
<1>1. (\A d \in Call : Holding(d)' <=> Holding(d)) => \A s : Holders(s)' = Holders(s)
  BY DEF Holders
<1>2. (\A d \in Call : Locking(d)' <=> Locking(d)) => \A t : Readers(t)' = Readers(t)
  BY DEF Readers, Reads
<1> QED
  BY <1>1, <1>2 DEF SessionCounts, TurnCounts

\* Steps after which one counter is exact and that leave the others alone.
LEMMA OneSessionCounts ==
  ASSUME SessionCounts, NEW s0 \in Session,
         sessionKeys'[s0].refcount = Cardinality(Holders(s0)'),
         \A s \in Session \ {s0} : Holders(s)' = Holders(s) /\ sessionKeys'[s] = sessionKeys[s]
  PROVE  SessionCounts'
<1> SUFFICES ASSUME NEW s \in Session
             PROVE  sessionKeys'[s].refcount = Cardinality(Holders(s)')
  BY DEF SessionCounts
<1>1. CASE s = s0
  <2>1. Holders(s)' = Holders(s0)'
    BY <1>1 DEF Holders
  <2> QED
    BY <1>1, <2>1
<1>2. CASE s # s0
  BY <1>2 DEF SessionCounts
<1> QED
  BY <1>1, <1>2

LEMMA OneTurnCounts ==
  ASSUME TurnCounts, NEW t0 \in Turn,
         turnKeys'[t0].readers = Cardinality(Readers(t0)'),
         \A t \in Turn \ {t0} : Readers(t)' = Readers(t) /\ turnKeys'[t] = turnKeys[t]
  PROVE  TurnCounts'
<1> SUFFICES ASSUME NEW t \in Turn
             PROVE  turnKeys'[t].readers = Cardinality(Readers(t)')
  BY DEF TurnCounts
<1>1. CASE t = t0
  <2>1. Readers(t)' = Readers(t0)'
    BY <1>1 DEF Readers
  <2> QED
    BY <1>1, <2>1
<1>2. CASE t # t0
  BY <1>2 DEF TurnCounts
<1> QED
  BY <1>1, <1>2

LEMMA SessionAcquireCounts ==
  ASSUME TypeOK, SessionCounts, NEW c \in Call, SessionAcquire(c)
  PROVE  SessionCounts'
<1>0. PICK s0 \in Session : s0 = req[c].session
  BY ReqType
<1> USE <1>0
<1> DEFINE old == KeysOfSession(c)
<1>1. /\ sessionKeys' = [sessionKeys EXCEPT ![s0] = AcquireScript(old, req[c].turn)]
      /\ pc' = [pc EXCEPT ![c] = "turn"] /\ req' = req /\ pc[c] = "session" /\ Guarded(c)
  BY DEF SessionAcquire, SetKeysOfSession, Goto
<1>2. /\ AcquireScript(old, req[c].turn).refcount = old.refcount + 1
      /\ s0 \in Session /\ old = sessionKeys[s0]
  BY ReqType DEF SessionAcquire, AcquireScript, KeysOfSession
<1>3. \A d \in Call : Holding(d)' <=> Holding(d) \/ d = c
  BY <1>1 DEF Holding, Guarded, TypeOK
<1>4. /\ Holders(s0)' = Holders(s0) \cup {c} /\ c \notin Holders(s0)
      /\ \A s \in Session \ {s0} : Holders(s)' = Holders(s)
  BY <1>1, <1>3 DEF Holders, Holding
<1>5. Cardinality(Holders(s0)') = Cardinality(Holders(s0)) + 1
  BY <1>4, HoldersFinite, FS_AddElement
<1>6. /\ sessionKeys'[s0].refcount = old.refcount + 1
      /\ \A s \in Session \ {s0} : sessionKeys'[s] = sessionKeys[s]
  BY <1>1, <1>2 DEF TypeOK
<1>7. sessionKeys'[s0].refcount = Cardinality(Holders(s0)')
  BY <1>2, <1>5, <1>6 DEF SessionCounts
<1> QED
  BY <1>2, <1>4, <1>6, <1>7, OneSessionCounts

\* A call that holds the lock is counted, so its release counts it out.
LEMMA SessionReleaseCounts ==
  ASSUME TypeOK, LockedPhases, OwnsLock, SessionCounts, cancelled = {},
         NEW c \in Call, SessionRelease(c)
  PROVE  SessionCounts'
<1>0. PICK s0 \in Session : s0 = req[c].session
  BY ReqType
<1> USE <1>0
<1> DEFINE old == KeysOfSession(c)
           new == ReleaseScript(old, req[c].turn)
<1>1. /\ sessionKeys' = [sessionKeys EXCEPT ![s0] = new]
      /\ pc' = [pc EXCEPT ![c] = "done"] /\ req' = req
      /\ pc[c] = "unlockSession" /\ Guarded(c)
  BY DEF SessionRelease, SetKeysOfSession, Goto, LockedPhases, Reaches
<1>2. Holding(c) /\ \A d \in Call : Holding(d)' <=> Holding(d) /\ d # c
  BY <1>1 DEF Holding, Guarded, TypeOK
<1>3. /\ s0 \in Session /\ old = sessionKeys[s0] /\ old.turn = req[c].turn
      /\ req[c].turn \in Turn /\ old \in SessionKeys
  BY <1>2, ReqType DEF OwnsLock, KeysOfSession
<1>4. /\ Holders(s0)' = Holders(s0) \ {c} /\ c \in Holders(s0)
      /\ \A s \in Session \ {s0} : Holders(s)' = Holders(s)
  BY <1>1, <1>2 DEF Holders
<1>5. Cardinality(Holders(s0)') = Cardinality(Holders(s0)) - 1
  BY <1>4, HoldersFinite, FS_RemoveElement
<1>6. new.refcount = old.refcount - 1
  <2>1. old # NoSessionKeys
    BY <1>3, TurnAssumption DEF NoSessionKeys
  <2>2. old \in [turn : Turn, refcount : Nat \ {0}, ttl : 1 .. TTL]
    BY <1>3, <2>1 DEF SessionKeys
  <2>3. CASE old.refcount <= 1
    <3>1. old.refcount = 1
      BY <2>2, <2>3
    <3>2. new = NoSessionKeys
      BY <1>3, <2>3 DEF ReleaseScript
    <3> QED
      BY <3>1, <3>2 DEF NoSessionKeys
  <2>4. CASE ~(old.refcount <= 1)
    <3>1. new = [old EXCEPT !.refcount = old.refcount - 1]
      BY <1>3, <2>4 DEF ReleaseScript
    <3> QED
      BY <2>2, <3>1
  <2> QED
    BY <2>3, <2>4
<1>7. sessionKeys'[s0] = new /\ \A s \in Session \ {s0} : sessionKeys'[s] = sessionKeys[s]
  BY <1>1, <1>3 DEF TypeOK
<1>8. sessionKeys'[s0].refcount = Cardinality(Holders(s0)')
  BY <1>3, <1>5, <1>6, <1>7 DEF SessionCounts
<1> QED
  BY <1>3, <1>4, <1>7, <1>8, OneSessionCounts

LEMMA TurnAcquireCounts ==
  ASSUME TypeOK, LockedPhases, TurnCounts, NEW c \in Call, TurnAcquire(c)
  PROVE  TurnCounts'
<1>0. PICK t0 \in Turn : t0 = req[c].turn
  BY ReqType
<1> USE <1>0
<1> DEFINE old == KeysOfTurn(c)
           new == LockScript(c, old)
<1>1. /\ turnKeys' = [turnKeys EXCEPT ![t0] = new]
      /\ pc' = [pc EXCEPT ![c] = "gate"] /\ req' = req /\ pc[c] = "turn" /\ Guarded(c)
  BY DEF TurnAcquire, SetKeysOfTurn, Goto, LockedPhases
<1>2. /\ t0 \in Turn /\ old \in TurnKeys /\ old = turnKeys[t0] /\ (Reads(c) <=> ~Writes(c))
      /\ \A d \in Call : Locking(d)' <=> Locking(d) \/ d = c
  BY <1>1, ReqType DEF Reads, Writes, Guarded, KeysOfTurn, Locking, TypeOK
<1>3. \A t \in Turn \ {t0} : Readers(t)' = Readers(t) /\ turnKeys'[t] = turnKeys[t]
  BY <1>1, <1>2 DEF Readers, Reads, TypeOK
<1>4. turnKeys'[t0] = new
  BY <1>1, <1>2 DEF TypeOK
<1>5. CASE Reads(c)
  <2>1. Readers(t0)' = Readers(t0) \cup {c} /\ c \notin Readers(t0)
    BY <1>1, <1>2, <1>5 DEF Readers, Reads, Locking
  <2>2. Cardinality(Readers(t0)') = Cardinality(Readers(t0)) + 1
    BY <2>1, ReadersFinite, FS_AddElement
  <2>3. new = [old EXCEPT !.readers = @ + 1, !.readersTTL = TTL]
    BY <1>2, <1>5 DEF TurnAcquire, ReadLockResult, ReadLockOpen, LockScript, ReadLockScript
  <2>4. new.readers = old.readers + 1
    BY <1>2, <2>3 DEF TurnKeys
  <2>5. turnKeys'[t0].readers = Cardinality(Readers(t0)')
    BY <1>2, <1>4, <2>2, <2>4 DEF TurnCounts
  <2> QED
    BY <1>2, <1>3, <2>5, OneTurnCounts
<1>6. CASE Writes(c)
  <2>1. Readers(t0)' = Readers(t0)
    BY <1>1, <1>2, <1>6 DEF Readers, Reads
  <2>2. new.readers = old.readers
    BY <1>2, <1>6 DEF LockScript, WriteLockScript, TurnKeys
  <2>5. turnKeys'[t0].readers = Cardinality(Readers(t0)')
    BY <1>2, <1>4, <2>1, <2>2 DEF TurnCounts
  <2> QED
    BY <1>2, <1>3, <2>5, OneTurnCounts
<1> QED
  BY <1>2, <1>5, <1>6

LEMMA TurnUnlockCounts ==
  ASSUME TypeOK, LockedPhases, TurnCounts, cancelled = {}, NEW c \in Call, TurnUnlock(c)
  PROVE  TurnCounts'
<1>0. PICK t0 \in Turn : t0 = req[c].turn
  BY ReqType
<1> USE <1>0
<1> DEFINE old == KeysOfTurn(c)
           new == UnlockScript(c, old)
<1>1. /\ turnKeys' = [turnKeys EXCEPT ![t0] = new]
      /\ pc' = [pc EXCEPT ![c] = "unlockSession"] /\ req' = req
      /\ pc[c] = "unlockTurn" /\ Guarded(c)
  BY DEF TurnUnlock, SetKeysOfTurn, Goto, LockedPhases, Reaches
<1>2. /\ t0 \in Turn /\ old \in TurnKeys /\ old = turnKeys[t0] /\ (Reads(c) <=> ~Writes(c))
      /\ Locking(c) /\ \A d \in Call : Locking(d)' <=> Locking(d) /\ d # c
  BY <1>1, ReqType DEF Reads, Writes, Guarded, KeysOfTurn, Locking, TypeOK
<1>3. \A t \in Turn \ {t0} : Readers(t)' = Readers(t) /\ turnKeys'[t] = turnKeys[t]
  BY <1>1, <1>2 DEF Readers, Reads, TypeOK
<1>4. turnKeys'[t0] = new
  BY <1>1, <1>2 DEF TypeOK
<1>5. CASE Reads(c)
  <2>1. Readers(t0)' = Readers(t0) \ {c} /\ c \in Readers(t0)
    BY <1>1, <1>2, <1>5 DEF Readers, Reads
  <2>2. Cardinality(Readers(t0)') = Cardinality(Readers(t0)) - 1
    BY <2>1, ReadersFinite, FS_RemoveElement
  <2>3. new.readers = old.readers - 1
    BY <1>2, <1>5 DEF UnlockScript, ReadUnlockScript, TurnKeys
  <2>5. turnKeys'[t0].readers = Cardinality(Readers(t0)')
    BY <1>2, <1>4, <2>2, <2>3 DEF TurnCounts
  <2> QED
    BY <1>2, <1>3, <2>5, OneTurnCounts
<1>6. CASE Writes(c)
  <2>1. Readers(t0)' = Readers(t0)
    BY <1>1, <1>2, <1>6 DEF Readers, Reads
  <2>2. new.readers = old.readers
    BY <1>2, <1>6 DEF UnlockScript, WriteUnlockScript, TurnKeys
  <2>5. turnKeys'[t0].readers = Cardinality(Readers(t0)')
    BY <1>2, <1>4, <2>1, <2>2 DEF TurnCounts
  <2> QED
    BY <1>2, <1>3, <2>5, OneTurnCounts
<1> QED
  BY <1>2, <1>5, <1>6

\* Time passes only when no call holds a lock, and takes no counter below 0.
LEMMA TickCounts ==
  ASSUME TypeOK, NoUnaskedHold, env = {}, SessionCounts, TurnCounts, Tick
  PROVE  SessionCounts' /\ TurnCounts'
<1>1. /\ sessionKeys' = [s \in Session |-> SessionKeysAge(sessionKeys[s])]
      /\ turnKeys' = [t \in Turn |-> TurnKeysAge(turnKeys[t])]
      /\ pc' = pc /\ req' = req
  BY DEF Tick
<1>2. \A c \in Call : ~Holding(c) /\ ~Locking(c) /\ ~Holding(c)' /\ ~Locking(c)'
  BY <1>1 DEF Tick, Waits, NoUnaskedHold, Holding, Locking, Guarded
<1>3. \A s : Holders(s) = {} /\ Holders(s)' = {}
  BY <1>2 DEF Holders
<1>4. \A t : Readers(t) = {} /\ Readers(t)' = {}
  BY <1>2 DEF Readers
<1>5. \A s \in Session : SessionKeysAge(sessionKeys[s]).refcount = 0
  <2> TAKE s \in Session
  <2>1. sessionKeys[s].refcount = 0 /\ sessionKeys[s] \in SessionKeys
    BY <1>3, FS_EmptySet DEF SessionCounts, TypeOK
  <2>2. sessionKeys[s] = NoSessionKeys
    BY <2>1 DEF SessionKeys
  <2> QED
    BY <2>2 DEF SessionKeysAge, NoSessionKeys
<1>6. \A t \in Turn : TurnKeysAge(turnKeys[t]).readers = 0
  BY <1>4, FS_EmptySet DEF TurnCounts, TurnKeysAge
<1> QED
  BY <1>1, <1>3, <1>4, <1>5, <1>6, FS_EmptySet DEF SessionCounts, TurnCounts

LEMMA CountsInductive ==
  TypeOK /\ SessionInv /\ TurnInv /\ CountsInv /\ [Next]_vars => CountsInv'
<1> SUFFICES ASSUME TypeOK, SessionInv, TurnInv, CountsInv, [Next]_vars PROVE CountsInv'
  OBVIOUS
<1>1. env' = env
  BY DEF Next, vars, Advance, Bypass, SessionAcquire, SessionBusy, TurnAcquire,
         ReadMiscounted, TurnBusy, Abort, Decide, Return, TurnUnlock,
         SessionRelease, Hold, Extend, Resume, Fault, Cancel, RedisError,
         LostReply, Crash, Tick, Quiescent
<1> SUFFICES ASSUME env = {} PROVE cancelled' = {} /\ SessionCounts' /\ TurnCounts'
  BY <1>1 DEF CountsInv, CountsExact, NoCancellation, SessionCounts, TurnCounts
<1>2. cancelled = {} /\ SessionCounts /\ TurnCounts
  BY DEF CountsInv, CountsExact, NoCancellation, SessionCounts, TurnCounts
<1>3. LockedPhases /\ NoUnaskedHold /\ OwnsLock /\ ReadersCovered
  BY DEF SessionInv, TurnInv, SessionLeasesHonoured, TurnLeasesHonoured
<1>4. ASSUME NEW c \in Call, Advance(c)
      PROVE  cancelled' = {} /\ SessionCounts' /\ TurnCounts'
  <2> USE <1>2, <1>3 DEF TypeOK, LockedPhases, Holding, Locking, Guarded, Goto
  <2>1. ASSUME SessionAcquire(c) PROVE cancelled' = {} /\ SessionCounts' /\ TurnCounts'
    <3>1. SessionCounts'
      BY <2>1, SessionAcquireCounts
    <3> QED
      BY <2>1, <3>1, QuietCounts DEF SessionAcquire
  <2>2. ASSUME SessionRelease(c) PROVE cancelled' = {} /\ SessionCounts' /\ TurnCounts'
    <3>1. SessionCounts'
      BY <2>2, SessionReleaseCounts
    <3> QED
      BY <2>2, <3>1, QuietCounts DEF SessionRelease
  <2>3. ASSUME TurnAcquire(c) PROVE cancelled' = {} /\ SessionCounts' /\ TurnCounts'
    <3>1. TurnCounts'
      BY <2>3, TurnAcquireCounts
    <3> QED
      BY <2>3, <3>1, QuietCounts DEF TurnAcquire
  <2>4. ASSUME TurnUnlock(c) PROVE cancelled' = {} /\ SessionCounts' /\ TurnCounts'
    <3>1. TurnCounts'
      BY <2>4, TurnUnlockCounts
    <3> QED
      BY <2>4, <3>1, QuietCounts DEF TurnUnlock
  <2>5. ~ReadMiscounted(c)
    BY NoMiscount
  <2>6. CASE Bypass(c) \/ SessionBusy(c) \/ TurnBusy(c) \/ Abort(c) \/ Decide(c) \/ Return(c)
    BY <2>6, QuietCounts DEF Bypass, SessionBusy, TurnBusy, Abort, Decide, Return, Reaches
  <2> QED
    BY <1>4, <2>1, <2>2, <2>3, <2>4, <2>5, <2>6 DEF Advance
<1>5. CASE Tick
  BY <1>2, <1>3, <1>5, TickCounts DEF Tick
<1>6. CASE UNCHANGED vars
  BY <1>2, <1>6, QuietCounts DEF vars, Holding, Locking, Guarded
<1>7. \A c \in Call : ~Hold(c) /\ ~Extend(c) /\ ~Resume(c) /\ ~Fault(c)
  BY <1>3 DEF Hold, Extend, Resume, Fault, Cancel, RedisError, LostReply, NoUnaskedHold,
     TypeOK
<1> QED
  BY <1>4, <1>5, <1>6, <1>7 DEF Next, Crash, Quiescent

LEMMA CountsInitially == Init => CountsInv
<1> SUFFICES ASSUME Init PROVE CountsInv
  OBVIOUS
<1>1. \A s : Holders(s) = {}
  BY DEF Init, Holders, Holding
<1>2. \A t : Readers(t) = {}
  BY DEF Init, Readers, Locking
<1> QED
  BY <1>1, <1>2, FS_EmptySet
     DEF Init, CountsInv, NoCancellation, CountsExact, NoSessionKeys, NoTurnKeys

\* Without faults, the refcount of a session is the number of calls that hold it, and
\* the readers of a turn are counted exactly: every path releases what it took, once.
THEOREM CountsAreExact == Spec => []CountsExact
<1>1. Init => CountsInv
  BY CountsInitially
<1>2. CountsInv => CountsExact
  BY DEF CountsInv
<1> QED
  BY <1>1, <1>2, TypeCorrect, SessionInitially, TurnInitially, TypeInductive,
     SessionInductive, TurnInductive, CountsInductive, PTL DEF Spec

-----------------------------------------------------------------------------
\* Without faults, a call is refused only for another call.

\* No two sessions use the same turn ID, which the turn keys do not tell apart.
TurnsOfOneSession ==
  \A r1, r2 \in Requests : r1.turn = r2.turn => r1.session = r2.session

\* A write lock key has its writer, so no call waits for a key that nobody will delete.
WritersThere ==
  \A t \in Turn :
    LET d == turnKeys[t].writer
    IN  d # NoCall => d \in Call /\ Locking(d) /\ Writes(d) /\ req[d].turn = t

WritersInv == env = {} => WritersThere

\* A step that leaves the keys of turns and the calls that lock them alone.
LEMMA QuietWriters ==
  ASSUME WritersThere, req' = req, turnKeys' = turnKeys,
         \A d \in Call : Locking(d)' <=> Locking(d)
  PROVE  WritersThere'
BY DEF WritersThere, Writes

LEMMA TurnAcquireWriters ==
  ASSUME TypeOK, LockedPhases, WritersThere, NEW c \in Call, TurnAcquire(c)
  PROVE  WritersThere'
<1>0. PICK t0 \in Turn : t0 = req[c].turn
  BY ReqType
<1> USE <1>0
<1> DEFINE old == KeysOfTurn(c)
           new == LockScript(c, old)
<1>1. /\ turnKeys' = [turnKeys EXCEPT ![t0] = new]
      /\ pc' = [pc EXCEPT ![c] = "gate"] /\ req' = req /\ pc[c] = "turn" /\ Guarded(c)
  BY DEF TurnAcquire, SetKeysOfTurn, Goto, LockedPhases
<1>2. /\ old \in TurnKeys /\ old = turnKeys[t0] /\ (Reads(c) <=> ~Writes(c))
      /\ Locking(c)' /\ \A d \in Call : Locking(d) => Locking(d)'
  BY <1>1, ReqType DEF Reads, Writes, Guarded, KeysOfTurn, Locking, TypeOK
<1>3. turnKeys'[t0] = new /\ \A t \in Turn \ {t0} : turnKeys'[t] = turnKeys[t]
  BY <1>1, <1>2 DEF TypeOK
<1>4. new.writer = old.writer \/ (new.writer = c /\ Writes(c))
  BY <1>2 DEF LockScript, ReadLockScript, WriteLockScript, TurnKeys
<1> QED
  BY <1>1, <1>2, <1>3, <1>4 DEF WritersThere, Writes

LEMMA TurnUnlockWriters ==
  ASSUME TypeOK, LockedPhases, WriterOwnsLock, WritersThere, cancelled = {},
         NEW c \in Call, TurnUnlock(c)
  PROVE  WritersThere'
<1>0. PICK t0 \in Turn : t0 = req[c].turn
  BY ReqType
<1> USE <1>0
<1> DEFINE old == KeysOfTurn(c)
           new == UnlockScript(c, old)
<1>1. /\ turnKeys' = [turnKeys EXCEPT ![t0] = new]
      /\ pc' = [pc EXCEPT ![c] = "unlockSession"] /\ req' = req
      /\ pc[c] = "unlockTurn" /\ Guarded(c)
  BY DEF TurnUnlock, SetKeysOfTurn, Goto, LockedPhases, Reaches
<1>2. /\ old \in TurnKeys /\ old = turnKeys[t0] /\ (Reads(c) <=> ~Writes(c))
      /\ Locking(c) /\ \A d \in Call : Locking(d)' <=> Locking(d) /\ d # c
  BY <1>1, ReqType DEF Reads, Writes, Guarded, KeysOfTurn, Locking, TypeOK
<1>3. turnKeys'[t0] = new /\ \A t \in Turn \ {t0} : turnKeys'[t] = turnKeys[t]
  BY <1>1, <1>2 DEF TypeOK
<1>4. \/ new.writer = NoCall
      \/ new.writer = old.writer /\ ~Writes(c)
  <2>1. CASE Writes(c)
    <3>1. old.writer = c
      BY <1>2, <2>1 DEF WriterOwnsLock
    <3> QED
      BY <1>2, <2>1, <3>1 DEF UnlockScript, WriteUnlockScript, TurnKeys
  <2>2. CASE Reads(c)
    BY <1>2, <2>2 DEF UnlockScript, ReadUnlockScript, TurnKeys
  <2> QED
    BY <1>2, <2>1, <2>2
<1> QED
  <2> SUFFICES ASSUME NEW t \in Turn, NEW d, d = turnKeys'[t].writer, d # NoCall
               PROVE  d \in Call /\ Locking(d)' /\ Writes(d)' /\ req'[d].turn = t
    BY DEF WritersThere
  <2>1. turnKeys[t].writer = d
    BY <1>2, <1>3, <1>4
  <2>2. d \in Call /\ Locking(d) /\ Writes(d) /\ req[d].turn = t
    BY <2>1 DEF WritersThere
  <2>3. d # c
    BY <1>1, <1>2, <1>3, <1>4, <2>2
  <2> QED
    BY <1>1, <1>2, <2>2, <2>3 DEF Writes

LEMMA WritersInductive ==
  TypeOK /\ SessionInv /\ TurnInv /\ CountsInv /\ WritersInv /\ [Next]_vars => WritersInv'
<1> SUFFICES ASSUME TypeOK, SessionInv, TurnInv, CountsInv, WritersInv, [Next]_vars
             PROVE  WritersInv'
  OBVIOUS
<1>1. env' = env
  BY DEF Next, vars, Advance, Bypass, SessionAcquire, SessionBusy, TurnAcquire,
         ReadMiscounted, TurnBusy, Abort, Decide, Return, TurnUnlock,
         SessionRelease, Hold, Extend, Resume, Fault, Cancel, RedisError,
         LostReply, Crash, Tick, Quiescent
<1> SUFFICES ASSUME env = {} PROVE WritersThere'
  BY <1>1 DEF WritersInv
<1>2. cancelled = {} /\ WritersThere
  BY DEF CountsInv, NoCancellation, WritersInv
<1>3. LockedPhases /\ NoUnaskedHold /\ ReadersCovered /\ WriterOwnsLock
  BY DEF SessionInv, TurnInv, TurnLeasesHonoured
<1>4. ASSUME NEW c \in Call, Advance(c) PROVE WritersThere'
  <2>1. CASE TurnAcquire(c)
    BY <1>2, <1>3, <2>1, TurnAcquireWriters
  <2>2. CASE TurnUnlock(c)
    BY <1>2, <1>3, <2>2, TurnUnlockWriters
  <2>3. ~ReadMiscounted(c)
    BY <1>3, NoMiscount
  <2>4. CASE \/ Bypass(c) \/ SessionAcquire(c) \/ SessionBusy(c) \/ TurnBusy(c) \/ Abort(c)
             \/ Decide(c) \/ Return(c) \/ SessionRelease(c)
    <3>1. /\ req' = req /\ turnKeys' = turnKeys
          /\ \A d \in Call : Locking(d)' <=> Locking(d)
      BY <1>3, <2>4 DEF TypeOK, LockedPhases, Locking, Guarded, Goto, Bypass, SessionAcquire,
         SessionBusy, TurnBusy, Abort, Decide, Return, SessionRelease
    <3> QED
      BY <1>2, <3>1, QuietWriters
  <2> QED
    BY <1>4, <2>1, <2>2, <2>3, <2>4 DEF Advance
<1>5. CASE Tick
  <2>1. /\ turnKeys' = [t \in Turn |-> TurnKeysAge(turnKeys[t])]
        /\ \A c \in Call : ~Locking(c)
    BY <1>3, <1>5 DEF Tick, Waits, NoUnaskedHold, Holding, Locking, Guarded
  <2>2. ASSUME NEW t \in Turn PROVE TurnKeysAge(turnKeys[t]).writer = NoCall
    BY <1>2, <2>1 DEF WritersThere, TurnKeysAge
  <2> QED
    BY <2>1, <2>2 DEF WritersThere
<1>6. CASE UNCHANGED vars
  BY <1>2, <1>6, QuietWriters DEF vars, Locking, Guarded
<1>7. \A c \in Call : ~Hold(c) /\ ~Extend(c) /\ ~Resume(c) /\ ~Fault(c)
  BY <1>3 DEF Hold, Extend, Resume, Fault, Cancel, RedisError, LostReply, NoUnaskedHold,
     TypeOK
<1> QED
  BY <1>4, <1>5, <1>6, <1>7 DEF Next, Crash, Quiescent

\* Who stands in the way of a call that the session lock refuses: a call that is
\* counted, and that belongs to the turn in the key.
LEMMA SessionBusyJustified ==
  ASSUME TypeOK, OwnsLock, SessionCounts, NEW c \in Call, SessionBusy(c)
  PROVE  \E d \in Call : InTheWay(d, c)
<1>0. PICK s0 \in Session : s0 = req[c].session
  BY ReqType
<1> DEFINE keys == sessionKeys[s0]
<1>1. /\ keys \in SessionKeys /\ keys.turn # NoTurn /\ keys.turn # req[c].turn
      /\ pc[c] = "session"
  BY <1>0, ReqType DEF SessionBusy, AcquireGranted, KeysOfSession
<1>2. keys.refcount # 0
  BY <1>1 DEF SessionKeys, NoSessionKeys
<1>3. Cardinality(Holders(s0)) # 0
  BY <1>2 DEF SessionCounts
<1>4. Holders(s0) # {}
  BY <1>3, FS_EmptySet
<1>5. PICK d \in Call : Holding(d) /\ req[d].session = s0
  BY <1>4 DEF Holders
<1>6. req[d].turn = keys.turn
  BY <1>5 DEF OwnsLock, KeysOfSession
<1>7. d # c
  BY <1>1, <1>5 DEF Holding
<1> QED
  BY <1>0, <1>1, <1>5, <1>6, <1>7 DEF InTheWay

\* Who stands in the way at the turn lock: its writer, or a reader that is counted.
LEMMA TurnBusyJustified ==
  ASSUME TypeOK, TurnsOfOneSession, WritersThere, TurnCounts, NEW c \in Call, TurnBusy(c)
  PROVE  \E d \in Call : InTheWay(d, c)
<1>0. PICK t0 \in Turn : t0 = req[c].turn
  BY ReqType
<1> DEFINE keys == turnKeys[t0]
<1>1. /\ pc[c] = "turn" /\ ~Locking(c)
      /\ \/ keys.writer # NoCall
         \/ Writes(c) /\ keys.readers # 0
  BY <1>0 DEF TurnBusy, ReadLockOpen, WriteLockGranted, KeysOfTurn, Locking
<1>2. ASSUME NEW d \in Call, req[d].turn = t0, Locking(d), Writes(d) \/ Writes(c)
      PROVE  InTheWay(d, c)
  <2>1. req[d].session = req[c].session
    BY <1>0, <1>2 DEF TurnsOfOneSession, TypeOK
  <2>2. d # c
    BY <1>1, <1>2
  <2> QED
    BY <1>0, <1>2, <2>1, <2>2 DEF InTheWay
<1>3. CASE keys.writer # NoCall
  BY <1>2, <1>3 DEF WritersThere
<1>4. CASE Writes(c) /\ keys.readers # 0
  <2>1. Cardinality(Readers(t0)) # 0
    BY <1>4 DEF TurnCounts
  <2>2. Readers(t0) # {}
    BY <2>1, FS_EmptySet
  <2>3. PICK d \in Call : Locking(d) /\ req[d].turn = t0
    BY <2>2 DEF Readers
  <2> QED
    BY <1>2, <1>4, <2>3
<1> QED
  BY <1>1, <1>3, <1>4

\* Without faults, no call is refused unless another call of its own session stands in
\* its way at that moment: no key outlives the call it is there for.
THEOREM RefusalsAreJustified ==
  ASSUME TurnsOfOneSession
  PROVE  Spec => RefusalJustified
<1> DEFINE Justified ==
             env = {} => \A c \in Call : Refused(c) => \E d \in Call : InTheWay(d, c)
<1>1. Init => CountsInv /\ WritersInv
  <2> SUFFICES ASSUME Init PROVE CountsInv /\ WritersInv
    OBVIOUS
  <2>1. CountsInv
    BY CountsInitially
  <2>2. \A t \in Turn : turnKeys[t].writer = NoCall
    BY DEF Init, NoTurnKeys
  <2> QED
    BY <2>1, <2>2 DEF WritersInv, WritersThere
<1>2. TypeOK /\ SessionInv /\ TurnInv /\ CountsInv /\ WritersInv /\ [Next]_vars
        => [Justified]_vars
  <2> SUFFICES ASSUME TypeOK, SessionInv, TurnInv, CountsInv, WritersInv, Next,
                      env = {}, NEW c \in Call, Refused(c)
               PROVE  \E d \in Call : InTheWay(d, c)
    OBVIOUS
  <2>1. /\ cancelled = {} /\ SessionCounts /\ TurnCounts /\ WritersThere
        /\ LockedPhases /\ NoUnaskedHold /\ OwnsLock /\ ReadersCovered
    BY DEF SessionInv, TurnInv, CountsInv, CountsExact, NoCancellation, SessionCounts,
       TurnCounts, WritersInv, SessionLeasesHonoured, TurnLeasesHonoured
  <2>2. \/ pc[c] = "session" /\ Guarded(c) /\ pc'[c] = "done"
        \/ pc[c] = "turn" /\ pc'[c] = "unlockSession"
    BY DEF Refused
  <2>3. SessionBusy(c) \/ TurnBusy(c)
    <3>1. \A d \in Call : ~ReadMiscounted(d)
      BY <2>1, NoMiscount
    <3>2. ASSUME NEW d \in Call, Advance(d) PROVE SessionBusy(c) \/ TurnBusy(c)
      BY <2>1, <2>2, <3>1, <3>2 DEF Advance, Bypass, SessionAcquire, SessionBusy, TurnAcquire,
         TurnBusy, Abort, Reaches, Decide, Return, TurnUnlock, SessionRelease, Goto, TypeOK
    <3>3. \A d \in Call : ~Hold(d) /\ ~Extend(d) /\ ~Resume(d) /\ ~Fault(d)
      BY <2>1 DEF Hold, Extend, Resume, Fault, Cancel, RedisError, LostReply, NoUnaskedHold,
         TypeOK
    <3>4. ~Tick /\ ~Quiescent /\ ~Crash
      BY <2>2 DEF Tick, Quiescent, vars, Crash
    <3> QED
      BY <3>2, <3>3, <3>4 DEF Next
  <2> QED
    BY <2>1, <2>3, SessionBusyJustified, TurnBusyJustified
<1>3. RefusalJustified <=> [][Justified]_vars
  BY DEF RefusalJustified
<1> HIDE DEF Justified
<1> QED
  BY <1>1, <1>2, <1>3, TypeCorrect, SessionInitially, TurnInitially, TypeInductive,
     SessionInductive, TurnInductive, CountsInductive, WritersInductive, PTL DEF Spec

-----------------------------------------------------------------------------
\* The guard implements the abstract scheduler.

ExecutingCalls == { c \in Call : Executing(c) }
DoneCalls      == { c \in Call : pc[c] = "done" }

\* Entering the pipeline is a step the scheduler allows: the exclusion that
\* holds after the step says that nobody who conflicts is there.
LEMMA TurnAcquireStarts ==
  ASSUME TypeOK, LockedPhases, SessionExclusive', WriteExclusive',
         NEW c \in Call, TurnAcquire(c)
  PROVE  Scheduling!Start(c)
<1>1. /\ pc' = [pc EXCEPT ![c] = "gate"]
      /\ req' = req /\ env' = env
      /\ pc[c] = "turn" /\ Guarded(c)
  BY DEF TurnAcquire, Goto, LockedPhases
<1>2. /\ ~Executing(c) /\ Executing(c)'
      /\ \A d \in Call : Executing(d)' <=> Executing(d) \/ d = c
  BY <1>1 DEF Executing, Guarded, TypeOK
<1>3. ExecutingCalls' = ExecutingCalls \cup {c} /\ DoneCalls' = DoneCalls
  BY <1>1, <1>2 DEF ExecutingCalls, DoneCalls, TypeOK
<1>4. ASSUME SessionLeasesHonoured /\ TurnLeasesHonoured,
             NEW d \in Call, Executing(d)
      PROVE  ~Scheduling!Conflict(c, d)
  <2>1. SessionLeasesHonoured' /\ TurnLeasesHonoured'
    BY <1>1, <1>4 DEF SessionLeasesHonoured, TurnLeasesHonoured
  <2>2. c # d /\ Executing(d)' /\ Holding(c)' /\ Holding(d)'
    BY <1>2, <1>4 DEF Executing, Holding, Guarded
  <2>3. req[c].session = req[d].session => req[c].turn = req[d].turn
    BY <1>1, <2>1, <2>2 DEF SessionExclusive
  <2>4. req[c].turn = req[d].turn => Reads(c) /\ Reads(d)
    BY <1>1, <1>2, <2>1, <2>2 DEF WriteExclusive, Reads
  <2> QED
    BY <2>3, <2>4 DEF Scheduling!Conflict, Reads
<1>5. (SessionLeasesHonoured /\ TurnLeasesHonoured)
        = (SessionLeasesHonoured /\ TurnLeasesHonoured)'
  BY <1>1 DEF SessionLeasesHonoured, TurnLeasesHonoured
<1> QED
  BY <1>1, <1>2, <1>3, <1>4, <1>5
     DEF Scheduling!Start, ExecutingCalls, DoneCalls

LEMMA StepImplements ==
  ASSUME TypeOK, LockedPhases, SessionExclusive', WriteExclusive', [Next]_vars
  PROVE  [Scheduling!Next]_Scheduling!schedulingVars
<1> DEFINE reliable == SessionLeasesHonoured /\ TurnLeasesHonoured
           Stutter  == UNCHANGED <<reliable, req, ExecutingCalls, DoneCalls>>
<1>1. Stutter => UNCHANGED Scheduling!schedulingVars
  BY DEF Scheduling!schedulingVars, ExecutingCalls, DoneCalls
<1>2. env' = env /\ req' = req
  BY DEF Next, vars, Advance, Bypass, SessionAcquire, SessionBusy, TurnAcquire,
         ReadMiscounted, TurnBusy, Abort, Decide, Return, TurnUnlock,
         SessionRelease, Hold, Extend, Resume, Fault, Cancel, RedisError,
         LostReply, Crash, Tick, Quiescent
<1>3. reliable' = reliable
  BY <1>2 DEF SessionLeasesHonoured, TurnLeasesHonoured
\* A step of one call from one phase to another.
<1>4. ASSUME NEW c \in Call, NEW phase \in Phases, Goto(c, phase),
             \/ ~Executing(c) /\ phase \in Phases \ {"gate", "held", "forward"}
             \/ ~Executing(c) /\ ~Guarded(c)
             \/ Executing(c) /\ phase # "done",
             pc[c] # "done"
      PROVE  [Scheduling!Next]_Scheduling!schedulingVars
  <2>1. /\ \A d \in Call \ {c} : /\ Executing(d)' <=> Executing(d)
                                 /\ pc'[d] = pc[d]
        /\ pc'[c] = phase /\ Guarded(c)' = Guarded(c)
    BY <1>2, <1>4 DEF Goto, TypeOK, Executing, Guarded
  <2>2. CASE Executing(c)' <=> Executing(c)
    <3>1. ExecutingCalls' = ExecutingCalls
      BY <2>1, <2>2 DEF ExecutingCalls
    <3>2. CASE phase # "done"
      <4>1. DoneCalls' = DoneCalls
        BY <1>4, <2>1, <3>2 DEF DoneCalls
      <4> QED
        BY <1>1, <1>2, <1>3, <3>1, <4>1
    <3>3. CASE phase = "done"
      <4>1. DoneCalls' = DoneCalls \cup {c} /\ c \notin DoneCalls
        BY <1>4, <2>1, <3>3 DEF DoneCalls
      <4>2. c \notin ExecutingCalls
        BY <1>4, <3>3 DEF ExecutingCalls
      <4>3. Scheduling!Answer(c)
        BY <1>2, <1>3, <3>1, <4>1, <4>2
           DEF Scheduling!Answer, ExecutingCalls, DoneCalls
      <4> QED
        BY <4>3 DEF Scheduling!Next
    <3> QED
      BY <3>2, <3>3
  <2>3. CASE ~(Executing(c)' <=> Executing(c))
    <3>1. Executing(c) /\ ~Executing(c)' /\ phase # "done"
      BY <1>4, <2>1, <2>3 DEF Executing
    <3>2. ExecutingCalls' = ExecutingCalls \ {c} /\ c \in ExecutingCalls
      BY <2>1, <3>1 DEF ExecutingCalls
    <3>3. DoneCalls' = DoneCalls
      BY <1>4, <2>1, <3>1 DEF DoneCalls
    <3>4. Scheduling!Finish(c)
      BY <1>2, <1>3, <3>2, <3>3
         DEF Scheduling!Finish, ExecutingCalls, DoneCalls
    <3> QED
      BY <3>4 DEF Scheduling!Next
  <2> QED
    BY <2>2, <2>3
<1>5. ASSUME pc' = pc
      PROVE  [Scheduling!Next]_Scheduling!schedulingVars
  BY <1>1, <1>2, <1>3, <1>5 DEF ExecutingCalls, DoneCalls, Executing, Guarded
<1>6. ASSUME NEW c \in Call, Advance(c)
      PROVE  [Scheduling!Next]_Scheduling!schedulingVars
  <2>1. CASE TurnAcquire(c)
    BY <2>1, TurnAcquireStarts DEF Scheduling!Next
  <2>2. CASE \/ Bypass(c) \/ SessionAcquire(c) \/ SessionBusy(c)
             \/ ReadMiscounted(c) \/ TurnBusy(c) \/ Abort(c)
    BY <1>4, <2>2
       DEF Bypass, SessionAcquire, SessionBusy, ReadMiscounted, TurnBusy, Abort,
           Executing, Phases
  <2>3. CASE Decide(c) \/ Return(c)
    BY <1>4, <2>3 DEF Decide, Return, Executing, Phases, LockedPhases
  <2>4. CASE TurnUnlock(c) \/ SessionRelease(c)
    BY <1>4, <2>4 DEF TurnUnlock, SessionRelease, Executing, Phases
  <2> QED
    BY <1>6, <2>1, <2>2, <2>3, <2>4 DEF Advance
<1>7. ASSUME NEW c \in Call, Hold(c) \/ Resume(c)
      PROVE  [Scheduling!Next]_Scheduling!schedulingVars
  BY <1>4, <1>7 DEF Hold, Resume, Executing, Phases, LockedPhases
<1>8. ASSUME NEW c \in Call, RedisError(c)
      PROVE  [Scheduling!Next]_Scheduling!schedulingVars
  BY <1>4, <1>5, <1>8 DEF RedisError, Executing, Phases
<1>9. ASSUME NEW c \in Call, Extend(c) \/ Cancel(c) \/ LostReply(c)
      PROVE  [Scheduling!Next]_Scheduling!schedulingVars
  BY <1>5, <1>9 DEF Extend, Cancel, LostReply
<1>10. CASE Crash
  <2>1. pc' = [c \in Call |-> IF pc[c] = "session" THEN "session" ELSE "done"]
    BY <1>10 DEF Crash
  <2>2. ExecutingCalls' = {} /\ ExecutingCalls \subseteq DoneCalls'
    BY <2>1 DEF ExecutingCalls, DoneCalls, Executing
  <2>3. DoneCalls' = DoneCalls \cup DoneCalls' /\ DoneCalls' \subseteq Call
    BY <2>1 DEF DoneCalls
  <2>4. PICK lost \in SUBSET Call : lost = DoneCalls'
    BY <2>3
  <2>5. Scheduling!Lose(lost)
    BY <1>2, <1>3, <2>2, <2>3, <2>4
       DEF Scheduling!Lose, ExecutingCalls, DoneCalls
  <2> QED
    BY <2>5 DEF Scheduling!Next
<1>11. CASE Tick \/ Quiescent \/ UNCHANGED vars
  BY <1>5, <1>11 DEF Tick, Quiescent, vars
<1> QED
  BY <1>6, <1>7, <1>8, <1>9, <1>10, <1>11 DEF Next, Fault

\* Every behavior of the guard is one of the scheduler: pipelines start only
\* where they conflict with none that runs, and never after their answer.
THEOREM ImplementsTurnScheduling == Spec => ImplementsScheduling
<1>1. Init => Scheduling!Init
  BY DEF Init, Scheduling!Init, Executing, SessionLeasesHonoured,
         TurnLeasesHonoured
<1>2. TypeOK /\ LockedPhases /\ SessionExclusive' /\ WriteExclusive' /\ [Next]_vars
        => [Scheduling!Next]_Scheduling!schedulingVars
  BY StepImplements
<1>3. Spec => []LockedPhases
  <2>1. Init => LockedPhases /\ NoUnaskedHold
    BY DEF Init, LockedPhases, NoUnaskedHold
  <2> QED
    BY <2>1, PhasesInductive, TypeCorrect, PTL DEF Spec
<1> QED
  BY <1>1, <1>2, <1>3, TypeCorrect, SessionExclusion, WriteExclusion, PTL
     DEF Spec, ImplementsScheduling, Scheduling!Spec
=============================================================================
