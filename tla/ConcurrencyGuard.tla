-------------------------- MODULE ConcurrencyGuard --------------------------
(***************************************************************************)
(* ConcurrencyGuard.Execute of cmd/gateway/concurrency_guard.go with the   *)
(* two locks it takes in Redis: concurrent tool calls of one or several    *)
(* gateway processes poll for the session lock, then for the turn's        *)
(* read/write lock, run the pipeline, and release both in reverse order.   *)
(*                                                                         *)
(* Time is a coarse clock.  A tick is lockExtendInterval = lockTTL / 2.    *)
(* Unless the environment is "slow", the part of a call that holds locks   *)
(* and is not an approval wait is short against a tick.                    *)
(***************************************************************************)
EXTENDS SessionLocker, TurnRWLock, FiniteSets

CONSTANTS
  Session,       \* session IDs
  Requests,      \* the requests clients send
  Environments   \* the environments to consider, sets of FaultKinds

\* What may happen beside the calls themselves:
\*   hold        a policy asks for approval, and the wait outlasts leases
\*   slow        a pipeline run outlasts leases
\*   cancel      a client goes away and its request context is cancelled
\*   crash       the gateway process stops and starts again
\*   redisError  a script is not executed and its call gets an error
\*   lostReply   a script is executed, its reply lost, the command sent again
FaultKinds == {"hold", "slow", "cancel", "crash", "redisError", "lostReply"}

\* Class "none" stands for a request without a tool name.
RequestType ==
  [session : Session, turn : Turn, class : {"read", "write", "none"}]

ASSUME RequestsAssumption     == Requests \subseteq RequestType
ASSUME EnvironmentsAssumption == Environments \subseteq SUBSET FaultKinds
ASSUME FiniteCallsAssumption  == IsFiniteSet(Call)

VARIABLES
  env,          \* the faults that may happen in this behavior
  req,          \* the request of each call
  pc,           \* where each call is in Execute
  sessionKeys,  \* Redis: the session lock keys of each session
  turnKeys,     \* Redis: the turn lock keys of each turn
  extendDue,    \* held calls whose extension ticker has fired
  cancelled,    \* calls whose request context is done
  resent        \* calls one script of which has been executed twice

vars == <<env, req, pc, sessionKeys, turnKeys, extendDue, cancelled, resent>>

\* "session" and "turn" poll for a lock; "gate" is the pipeline up to the
\* policy decision, "held" the approval wait, "forward" the rest of it;
\* "unlockTurn" and "unlockSession" are the deferred releases.
Phases ==
  {"session", "turn", "gate", "held", "forward",
   "unlockTurn", "unlockSession", "done"}

TypeOK ==
  /\ env \in Environments
  /\ req \in [Call -> Requests]
  /\ pc \in [Call -> Phases]
  /\ sessionKeys \in [Session -> SessionKeys]
  /\ turnKeys \in [Turn -> TurnKeys]
  /\ extendDue \subseteq { c \in Call : pc[c] = "held" }
  /\ cancelled \subseteq Call
  /\ resent \subseteq Call

Init ==
  /\ env \in Environments
  /\ req \in [Call -> Requests]
  /\ pc = [c \in Call |-> "session"]
  /\ sessionKeys = [s \in Session |-> NoSessionKeys]
  /\ turnKeys = [t \in Turn |-> NoTurnKeys]
  /\ extendDue = {}
  /\ cancelled = {}
  /\ resent = {}

-----------------------------------------------------------------------------

Guarded(c) == req[c].class # "none"
Reads(c)   == req[c].class = "read"
Writes(c)  == req[c].class = "write"

KeysOfSession(c) == sessionKeys[req[c].session]
KeysOfTurn(c)    == turnKeys[req[c].turn]

\* The call has acquired its session lock and has not yet released it.
Holding(c) ==
  /\ Guarded(c)
  /\ pc[c] \in {"turn", "gate", "held", "forward", "unlockTurn", "unlockSession"}

\* The call has acquired its turn lock and has not yet released it.
Locking(c) == Guarded(c) /\ pc[c] \in {"gate", "held", "forward", "unlockTurn"}

\* The calls that hold the lock of a session, the reads that lock a turn.
Holders(s) == { c \in Call : Holding(c) /\ req[c].session = s }
Readers(t) == { c \in Call : Locking(c) /\ Reads(c) /\ req[c].turn = t }

\* The pipeline runs on behalf of the call, under its locks.
Executing(c) == Guarded(c) /\ pc[c] \in {"gate", "held", "forward"}

SetKeysOfSession(c, keys) ==
  sessionKeys' = [sessionKeys EXCEPT ![req[c].session] = keys]
SetKeysOfTurn(c, keys) ==
  turnKeys' = [turnKeys EXCEPT ![req[c].turn] = keys]

Goto(c, phase) == pc' = [pc EXCEPT ![c] = phase]

\* A command on a cancelled context fails before it reaches Redis.
Reaches(c) == c \notin cancelled

-----------------------------------------------------------------------------
\* Execute without a tool name: no lock at all.
Bypass(c) ==
  /\ pc[c] = "session" /\ ~Guarded(c)
  /\ Goto(c, "forward")
  /\ UNCHANGED <<env, req, sessionKeys, turnKeys, extendDue, cancelled, resent>>

\* SessionLocker.Acquire: the poll that gets the lock.
SessionAcquire(c) ==
  /\ pc[c] = "session" /\ Guarded(c) /\ Reaches(c)
  /\ AcquireGranted(KeysOfSession(c), req[c].turn)
  /\ SetKeysOfSession(c, AcquireScript(KeysOfSession(c), req[c].turn))
  /\ Goto(c, "turn")
  /\ UNCHANGED <<env, req, turnKeys, extendDue, cancelled, resent>>

\* SessionLocker.Acquire: a failing poll at the deadline, LockTimeoutError.
SessionBusy(c) ==
  /\ pc[c] = "session" /\ Guarded(c) /\ Reaches(c)
  /\ ~AcquireGranted(KeysOfSession(c), req[c].turn)
  /\ Goto(c, "done")
  /\ UNCHANGED <<env, req, sessionKeys, turnKeys, extendDue, cancelled, resent>>

LockScript(c, keys) ==
  IF Reads(c) THEN ReadLockScript(keys) ELSE WriteLockScript(keys, c)

UnlockScript(c, keys) ==
  IF Reads(c) THEN ReadUnlockScript(keys) ELSE WriteUnlockScript(keys, c)

\* TurnRWLock.WriteLock, and ReadLock when the counter does not become 0.
TurnAcquire(c) ==
  /\ pc[c] = "turn" /\ Reaches(c)
  /\ \/ Reads(c)  /\ ReadLockResult(KeysOfTurn(c)) # 0
     \/ Writes(c) /\ WriteLockGranted(KeysOfTurn(c))
  /\ SetKeysOfTurn(c, LockScript(c, KeysOfTurn(c)))
  /\ Goto(c, "gate")
  /\ UNCHANGED <<env, req, sessionKeys, extendDue, cancelled, resent>>

\* TurnRWLock.ReadLock: INCR made the counter 0, which reads as "blocked".
\* The poll has counted a reader all the same; it polls again, or gives up.
ReadMiscounted(c) ==
  /\ pc[c] = "turn" /\ Reads(c) /\ Reaches(c)
  /\ ReadLockOpen(KeysOfTurn(c)) /\ ReadLockResult(KeysOfTurn(c)) = 0
  /\ SetKeysOfTurn(c, ReadLockScript(KeysOfTurn(c)))
  /\ \E phase \in {"turn", "unlockSession"} : Goto(c, phase)
  /\ UNCHANGED <<env, req, sessionKeys, extendDue, cancelled, resent>>

\* A turn lock poll without a deadline (mutant).
TurnBusyForever(c) == FALSE /\ UNCHANGED vars

\* A turn lock timeout that forgets the session lock (mutant).
TurnBusyKeepsSession(c) ==
  /\ pc[c] = "turn" /\ Reaches(c)
  /\ \/ Reads(c)  /\ ~ReadLockOpen(KeysOfTurn(c))
     \/ Writes(c) /\ ~WriteLockGranted(KeysOfTurn(c))
  /\ Goto(c, "done")
  /\ UNCHANGED <<env, req, sessionKeys, turnKeys, extendDue, cancelled, resent>>

\* TurnRWLock: a failing poll at the deadline, LockTimeoutError; the deferred
\* release of the session lock follows.
TurnBusy(c) ==
  /\ pc[c] = "turn" /\ Reaches(c)
  /\ \/ Reads(c)  /\ ~ReadLockOpen(KeysOfTurn(c))
     \/ Writes(c) /\ ~WriteLockGranted(KeysOfTurn(c))
  /\ Goto(c, "unlockSession")
  /\ UNCHANGED <<env, req, sessionKeys, turnKeys, extendDue, cancelled, resent>>

\* A poll returns the error of its cancelled context.
Abort(c) ==
  /\ pc[c] \in {"session", "turn"} /\ Guarded(c) /\ ~Reaches(c)
  /\ Goto(c, IF pc[c] = "session" THEN "done" ELSE "unlockSession")
  /\ UNCHANGED <<env, req, sessionKeys, turnKeys, extendDue, cancelled, resent>>

\* fn: the policy gate forwards the call or answers it itself.
Decide(c) ==
  /\ pc[c] = "gate"
  /\ \E phase \in {"forward", "unlockTurn"} : Goto(c, phase)
  /\ UNCHANGED <<env, req, sessionKeys, turnKeys, extendDue, cancelled, resent>>

\* fn: the policy gate asks for approval and waits.
Hold(c) ==
  /\ "hold" \in env
  /\ pc[c] = "gate"
  /\ Goto(c, "held")
  /\ UNCHANGED <<env, req, sessionKeys, turnKeys, extendDue, cancelled, resent>>

\* WaitForDecision: the ticker extends the session lock.  An error is logged.
Extend(c) ==
  /\ c \in extendDue
  /\ IF Reaches(c)
     THEN SetKeysOfSession(c, ExtendScript(KeysOfSession(c), req[c].turn))
     ELSE UNCHANGED sessionKeys
  /\ extendDue' = extendDue \ {c}
  /\ UNCHANGED <<env, req, pc, turnKeys, cancelled, resent>>

\* WaitForDecision returns: approved, or denied, timed out or cancelled.
Resume(c) ==
  /\ pc[c] = "held"
  /\ \E phase \in {"forward", "unlockTurn"} : Goto(c, phase)
  /\ extendDue' = extendDue \ {c}
  /\ UNCHANGED <<env, req, sessionKeys, turnKeys, cancelled, resent>>

\* fn returns, with a response, an error or a panic: the deferred calls run.
Return(c) ==
  /\ pc[c] = "forward"
  /\ Goto(c, IF Guarded(c) THEN "unlockTurn" ELSE "done")
  /\ UNCHANGED <<env, req, sessionKeys, turnKeys, extendDue, cancelled, resent>>

\* Deferred ReadUnlock or WriteUnlock.  It runs on the context of the request,
\* so a cancelled one leaves the keys as they are.
TurnUnlock(c) ==
  /\ pc[c] = "unlockTurn"
  /\ IF Reaches(c)
     THEN SetKeysOfTurn(c, UnlockScript(c, KeysOfTurn(c)))
     ELSE UNCHANGED turnKeys
  /\ Goto(c, "unlockSession")
  /\ UNCHANGED <<env, req, sessionKeys, extendDue, cancelled, resent>>

\* Deferred SessionLocker.Release, on the context of the request too.
SessionRelease(c) ==
  /\ pc[c] = "unlockSession"
  /\ IF Reaches(c)
     THEN SetKeysOfSession(c, ReleaseScript(KeysOfSession(c), req[c].turn))
     ELSE UNCHANGED sessionKeys
  /\ Goto(c, "done")
  /\ UNCHANGED <<env, req, turnKeys, extendDue, cancelled, resent>>

-----------------------------------------------------------------------------
\* The client goes away.  To a call without locks it makes no difference here.
Cancel(c) ==
  /\ "cancel" \in env
  /\ Guarded(c) /\ pc[c] # "done" /\ c \notin cancelled
  /\ cancelled' = cancelled \cup {c}
  /\ UNCHANGED <<env, req, pc, sessionKeys, turnKeys, extendDue, resent>>

\* Redis is not reached: an acquisition fails, an extension or a release is
\* given up.
RedisError(c) ==
  /\ "redisError" \in env
  /\ Guarded(c) /\ Reaches(c)
  /\ \/ /\ pc[c] \in {"session", "turn", "unlockTurn", "unlockSession"}
        /\ Goto(c, IF pc[c] \in {"turn", "unlockTurn"} THEN "unlockSession"
                                                       ELSE "done")
        /\ UNCHANGED extendDue
     \/ /\ c \in extendDue
        /\ extendDue' = extendDue \ {c}
        /\ UNCHANGED pc
  /\ UNCHANGED <<env, req, sessionKeys, turnKeys, cancelled, resent>>

\* The reply to a script is lost after Redis has executed it; the client
\* library sends the command again, so the call stays where it is.  The bound:
\* once per call.
LostReply(c) ==
  /\ "lostReply" \in env
  /\ Guarded(c) /\ Reaches(c) /\ c \notin resent
  /\ \/ /\ pc[c] = "session"
        /\ SetKeysOfSession(c, AcquireScript(KeysOfSession(c), req[c].turn))
        /\ UNCHANGED turnKeys
     \/ /\ pc[c] = "unlockSession"
        /\ SetKeysOfSession(c, ReleaseScript(KeysOfSession(c), req[c].turn))
        /\ UNCHANGED turnKeys
     \/ /\ pc[c] = "turn"
        /\ SetKeysOfTurn(c, LockScript(c, KeysOfTurn(c)))
        /\ UNCHANGED sessionKeys
     \/ /\ pc[c] = "unlockTurn"
        /\ SetKeysOfTurn(c, UnlockScript(c, KeysOfTurn(c)))
        /\ UNCHANGED sessionKeys
  /\ resent' = resent \cup {c}
  /\ UNCHANGED <<env, req, pc, extendDue, cancelled>>

\* The gateway stops and starts again.  Its calls are gone and their keys stay.
\* A call that only polls holds nothing: it may as well arrive after the start.
Crash ==
  /\ "crash" \in env
  /\ \E c \in Call : pc[c] \notin {"session", "done"}
  /\ pc' = [c \in Call |-> IF pc[c] = "session" THEN "session" ELSE "done"]
  /\ extendDue' = {}
  /\ UNCHANGED <<env, req, sessionKeys, turnKeys, cancelled, resent>>

\* A call that may hold its locks for a whole interval: one that waits for an
\* approval, as long as its client is there.
Waits(c) == pc[c] = "held" /\ c \notin cancelled

\* Time passes for the keys.  Extensions that are due come first.
Tick ==
  /\ extendDue = {}
  /\ "slow" \in env \/ \A c \in Call : Holding(c) => Waits(c)
  /\ sessionKeys' = [s \in Session |-> SessionKeysAge(sessionKeys[s])]
  /\ turnKeys' = [t \in Turn |-> TurnKeysAge(turnKeys[t])]
  /\ extendDue' = { c \in Call : pc[c] = "held" }
  /\ UNCHANGED <<env, req, pc, cancelled, resent>>

\* Every call has been answered and there is nothing left to expire.
Quiescent ==
  /\ \A c \in Call : pc[c] = "done"
  /\ UNCHANGED vars

-----------------------------------------------------------------------------
\* The steps by which a call gets on, whatever happens around it.
Advance(c) ==
  \/ Bypass(c)
  \/ SessionAcquire(c) \/ SessionBusy(c)
  \/ TurnAcquire(c) \/ ReadMiscounted(c) \/ TurnBusy(c)
  \/ Abort(c)
  \/ Decide(c) \/ Return(c)
  \/ TurnUnlock(c) \/ SessionRelease(c)

Fault(c) == Cancel(c) \/ RedisError(c) \/ LostReply(c)

Next ==
  \/ \E c \in Call : Advance(c) \/ Hold(c) \/ Extend(c) \/ Resume(c) \/ Fault(c)
  \/ Crash
  \/ Tick
  \/ Quiescent

\* A request's goroutine runs, its poll loops have deadlines, an approval wait
\* has a timer and a ticker, and time passes.  No fault is ever owed.
Fairness ==
  /\ \A c \in Call :
       WF_vars(Advance(c)) /\ WF_vars(Extend(c)) /\ WF_vars(Resume(c))
  /\ WF_vars(Tick)

Spec == Init /\ [][Next]_vars /\ Fairness

-----------------------------------------------------------------------------
\* The environments in which no session lease lapses under its holder: runs
\* are short, no script is executed twice, and every extension arrives.
SessionLeasesHonoured ==
  /\ env \cap {"slow", "lostReply"} = {}
  /\ ~({"hold", "redisError"} \subseteq env)

\* The environments in which no turn lease does.  Nothing extends the turn
\* keys, so there must be no approval wait either.
TurnLeasesHonoured == env \cap {"slow", "lostReply", "hold"} = {}

\* One turn at a time per session: as long as session leases are honoured, all
\* calls between Acquire and Release of one session belong to one turn, across
\* cancelled clients, crashes, leaked locks and approval waits.
SessionExclusive ==
  SessionLeasesHonoured =>
    \A c, d \in Call :
      Holding(c) /\ Holding(d) /\ req[c].session = req[d].session
        => req[c].turn = req[d].turn

\* Readers or one writer per turn: as long as turn leases are honoured, two
\* calls whose pipelines run in one turn are both reads.
WriteExclusive ==
  TurnLeasesHonoured =>
    \A c, d \in Call :
      c # d /\ Executing(c) /\ Executing(d) /\ req[c].turn = req[d].turn
        => Reads(c) /\ Reads(d)

\* Without faults the counters in Redis are exact: the refcount of a session
\* is the number of calls between Acquire and Release, readers the number of
\* reads between ReadLock and ReadUnlock, so every error path releases what it
\* took, once.
CountsExact ==
  env = {} =>
    /\ \A s \in Session :
         sessionKeys[s].refcount = Cardinality(Holders(s))
    /\ \A t \in Turn :
         turnKeys[t].readers = Cardinality(Readers(t))

\* A readers key without a TTL would keep writers out for ever.  Only the DECR of
\* a late unlock makes one, so there is none as long as no call outlasts the TTL:
\* not by a reader that was miscounted, timed out, cancelled or lost in a crash,
\* nor by an unlock that is executed twice.
TurnKeysLeased ==
  env \cap {"hold", "slow"} = {} =>
    \A t \in Turn : turnKeys[t].readersTTL = 0 => turnKeys[t].readers = 0

\* The call is refused: LockTimeoutError at the session or the turn lock.
Refused(c) ==
  \/ pc[c] = "session" /\ Guarded(c) /\ pc'[c] = "done"
  \/ pc[c] = "turn" /\ pc'[c] = "unlockSession"

\* A call that stands in the way of c: one of another turn of the session, or
\* a locked one of the same turn and session unless both only read.
InTheWay(d, c) ==
  /\ d # c /\ req[d].session = req[c].session
  /\ \/ Holding(d) /\ req[d].turn # req[c].turn
     \/ /\ Locking(d) /\ req[d].turn = req[c].turn
        /\ Writes(d) \/ Writes(c)

\* No call waits in vain: without faults, a call is refused only while another
\* call of its own session stands in its way.  Parallel reads never refuse one
\* another, and sessions do not wait for each other.
RefusalJustified ==
  [][ env = {} =>
        \A c \in Call : Refused(c) => \E d \in Call : InTheWay(d, c) ]_vars

\* Every call is answered in the end, whatever faults happen: no poll loop, no
\* approval wait and no lock left behind keeps a call for ever.
EveryCallAnswered == \A c \in Call : <>(pc[c] = "done")

\* Nothing stays locked: the session lock of every session is free in the end,
\* whatever faults happen, and the keys of every turn are gone unless a call
\* outlasted their TTL.
LeasesDrain ==
  /\ <>[](\A s \in Session : sessionKeys[s] = NoSessionKeys)
  /\ env \cap {"hold", "slow"} = {} =>
       <>[](\A t \in Turn : turnKeys[t] = NoTurnKeys)

\* The invariant that SessionExclusive rests on.  It must relate the lock to
\* its holders one by one (OwnsLock), count them, or a release could delete the
\* keys under a call that still holds them (RefcountCovers), and say how much of
\* the lease is left, or a tick could take it away (FreshLease).
LockedPhases ==
  \A c \in Call : pc[c] \notin {"session", "forward", "done"} => Guarded(c)

NoUnaskedHold == "hold" \notin env => \A c \in Call : pc[c] # "held"

OwnsLock == \A c \in Call : Holding(c) => KeysOfSession(c).turn = req[c].turn

RefcountCovers ==
  \A s \in Session : Cardinality(Holders(s)) <= sessionKeys[s].refcount

FreshLease ==
  \A c \in Call :
    /\ pc[c] \in {"turn", "gate"} => KeysOfSession(c).ttl = TTL
    /\ Waits(c) /\ c \notin extendDue => KeysOfSession(c).ttl >= 2

SessionInv ==
  /\ LockedPhases
  /\ NoUnaskedHold
  /\ SessionLeasesHonoured => OwnsLock /\ RefcountCovers /\ FreshLease

\* The invariant that WriteExclusive rests on: a writer holds the write lock
\* key, a reader keeps every writer out and is counted.
WriterOwnsLock ==
  \A c \in Call : Locking(c) /\ Writes(c) => KeysOfTurn(c).writer = c

ReaderBarsWriters ==
  \A c \in Call : Locking(c) /\ Reads(c) => KeysOfTurn(c).writer = NoCall

ReadersCovered ==
  \A t \in Turn : Cardinality(Readers(t)) <= turnKeys[t].readers

TurnInv ==
  /\ LockedPhases
  /\ NoUnaskedHold
  /\ TurnLeasesHonoured => WriterOwnsLock /\ ReaderBarsWriters /\ ReadersCovered

\* The abstract scheduler, and how the guard maps to it.
Scheduling ==
  INSTANCE TurnScheduling
    WITH reliable  <- SessionLeasesHonoured /\ TurnLeasesHonoured,
         executing <- { c \in Call : Executing(c) },
         answered  <- { c \in Call : pc[c] = "done" }

\* The guard implements the abstract scheduler: a pipeline starts only when it
\* conflicts with none that runs, and a call answered never runs again.
ImplementsScheduling == Scheduling!Spec

-----------------------------------------------------------------------------
\* What the session-mgmt documents say, which the code does not keep.

\* Requirement 3.3: "no two write-class calls proceed at the same time".
WritesSerialized ==
  \A c, d \in Call :
    c # d /\ Executing(c) /\ Executing(d) /\ req[c].turn = req[d].turn
      => ~(Writes(c) /\ Writes(d))

\* Requirement 2.3: when a turn completes the gateway releases its session
\* lock, so a held lock has a call of its turn behind it.
LockHasHolder ==
  \A s \in Session :
    sessionKeys[s].turn # NoTurn =>
      \E c \in Call :
        /\ Holding(c)
        /\ req[c].session = s /\ req[c].turn = sessionKeys[s].turn

\* design.md, Redis keys: they "auto-expire via TTL".
TurnKeysExpire == <>[](\A t \in Turn : turnKeys[t] = NoTurnKeys)
=============================================================================
