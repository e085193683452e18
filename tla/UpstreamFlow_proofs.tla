------------------------ MODULE UpstreamFlow_proofs ------------------------
(***************************************************************************)
(* Theorems about UpstreamFlow, for all requests, environments and numbers *)
(* of restarts.                                                            *)
(***************************************************************************)
EXTENDS UpstreamFlow, TLAPS

\* A step is one request's, or one of the steps that concern them all.
LEMMA Steps ==
  ASSUME [Next]_vars
  PROVE  \/ \E r \in Request :
              \/ Initialize(r) \/ Enter(r) \/ Invalid(r) \/ Refuse(r) \/ Send(r)
              \/ Serve(r) \/ ServeInitialize(r) \/ Reject(r) \/ Fail(r)
              \/ ReceiveStale(r) \/ ReceiveReinit(r) \/ Receive(r)
              \/ Respond(r) \/ RespondEmpty(r) \/ RespondError(r)
              \/ Delete(r)
         \/ Restart \/ Crash \/ UNCHANGED vars
BY DEF Next, Quiescent, Begin, Progress, UpstreamStep, ForwarderStep, ServerStep

LEMMA ConstantsKept == [Next]_vars => UNCHANGED constants
BY Steps DEF constants, vars, Initialize, Enter, Invalid, Refuse, Send, Serve,
   ServeInitialize, Reject, Fail, Reply, ReceiveStale, ReceiveReinit, Receive,
   Respond, RespondEmpty, RespondError, Delete, Restart, Crash

-----------------------------------------------------------------------------
\* Type correctness.

LEMMA FallbackType == \A m : Fallback(m) \in {"cached", "error"}
BY DEF Fallback

LEMMA TypeInductive == TypeOK /\ [Next]_vars => TypeOK'
<1> SUFFICES ASSUME TypeOK, [Next]_vars PROVE TypeOK'
  OBVIOUS
<1> USE DEF TypeOK, Goto, constants, upstreamVars, serverVars, Outcomes, Replies,
            Legs, Cached, NoId
<1>1. ASSUME NEW r \in Request,
             Initialize(r) \/ Enter(r) \/ Send(r) \/ Delete(r)
      PROVE  TypeOK'
  BY <1>1 DEF Initialize, Enter, Send, Delete
<1>2. ASSUME NEW r \in Request,
             Invalid(r) \/ Refuse(r) \/ RespondEmpty(r) \/ RespondError(r)
      PROVE  TypeOK'
  <2>1. PICK a \in Outcomes : Answer(r, a)
    BY <1>2, FallbackType DEF Invalid, Refuse, RespondEmpty, RespondError
  <2>2. UNCHANGED <<constants, leg, used, reply, upstreamVars, sid, serverVars>>
    BY <1>2 DEF Invalid, Refuse, RespondEmpty, RespondError
  <2> QED
    BY <2>1, <2>2 DEF Answer
<1>3. ASSUME NEW r \in Request, NEW status \in Replies, NEW id \in Nat,
             pc[r] = "sent", Reply(r, status, id),
             executed' \in [Request -> Nat],
             sessions' \subseteq Nat, issued' \in Nat
      PROVE  TypeOK'
  BY <1>3 DEF Reply
<1>4. ASSUME NEW r \in Request, Executes(r) PROVE executed' \in [Request -> Nat]
  BY <1>4 DEF Executes
<1>5. ASSUME NewSession PROVE sessions' \subseteq Nat /\ issued' \in Nat
  BY <1>5 DEF NewSession
<1>6. ASSUME NEW r \in Request, Serve(r) PROVE TypeOK'
  BY <1>3, <1>4, <1>6 DEF Serve, Responses
<1>7. ASSUME NEW r \in Request, ServeInitialize(r) PROVE TypeOK'
  <2>1. PICK status \in Replies, id \in Nat : Reply(r, status, id)
    BY <1>7 DEF ServeInitialize
  <2>2. sessions' \subseteq Nat /\ issued' \in Nat
    BY <1>5, <1>7 DEF ServeInitialize
  <2>3. pc[r] = "sent" /\ executed' \in [Request -> Nat]
    BY <1>4, <1>7 DEF ServeInitialize
  <2> QED
    BY <1>3, <2>1, <2>2, <2>3
<1>8. ASSUME NEW r \in Request, Reject(r) PROVE TypeOK'
  BY <1>3, <1>8 DEF Reject
<1>9. ASSUME NEW r \in Request, Fail(r) PROVE TypeOK'
  <2>1. PICK status \in Replies, id \in Nat : Reply(r, status, id)
    BY <1>9 DEF Fail
  <2>2. sessions' \subseteq Nat /\ issued' \in Nat
    BY <1>5, <1>9 DEF Fail
  <2>3. pc[r] = "sent" /\ executed' \in [Request -> Nat]
    BY <1>4, <1>9 DEF Fail
  <2> QED
    BY <1>3, <2>1, <2>2, <2>3
<1>10. ASSUME NEW r \in Request, ReceiveStale(r) PROVE TypeOK'
  <2>1. CASE leg[r] = "first"
    BY <1>10, <2>1 DEF ReceiveStale
  <2>2. CASE leg[r] = "retry"
    BY <1>10, <2>2 DEF ReceiveStale, Return
  <2> QED
    BY <1>10, <2>1, <2>2 DEF ReceiveStale
<1>11. ASSUME NEW r \in Request, ReceiveReinit(r) PROVE TypeOK'
  <2>1. sid' \in Nat
    BY <1>11 DEF ReceiveReinit, Store
  <2>2. CASE Good(r)
    BY <1>11, <2>1, <2>2 DEF ReceiveReinit
  <2>3. CASE ~Good(r)
    <3>1. Return(r, "failed") /\ pc[r] = "replied"
      BY <1>11, <2>3 DEF ReceiveReinit
    <3>2. UNCHANGED <<constants, leg, used, outcome, upstreamVars, serverVars>>
      BY <1>11, <2>3 DEF ReceiveReinit
    <3> QED
      BY <2>1, <3>1, <3>2 DEF Return
  <2> QED
    BY <2>2, <2>3
<1>12. ASSUME NEW r \in Request, Receive(r) PROVE TypeOK'
  BY <1>12 DEF Receive, Return, Store
<1>13. ASSUME NEW r \in Request, Respond(r) PROVE TypeOK'
  BY <1>13 DEF Respond, Good, Answer
<1>14. CASE Restart
  BY <1>14, MaxRestartsAssumption DEF Restart
<1>15. CASE Crash
  BY <1>15 DEF Crash, UnderWay
<1>16. CASE UNCHANGED vars
  BY <1>16 DEF vars
<1> QED
  BY Steps, <1>1, <1>2, <1>6, <1>7, <1>8, <1>9, <1>10, <1>11, <1>12, <1>13,
     <1>14, <1>15, <1>16

\* The variables stay in their types, in particular a request has an answer
\* exactly when it is over.
THEOREM TypeCorrect == Spec => []TypeOK
<1>1. Init => TypeOK
  BY MaxRestartsAssumption, ProgramsAssumption
  DEF Init, TypeOK, NoReply, Replies, Legs, NoId
<1> QED
  BY <1>1, TypeInductive, PTL DEF Spec

-----------------------------------------------------------------------------
\* Executions.

LEMMA ExecutionInductive ==
  TypeOK /\ ExecutionInv /\ [Next]_vars => ExecutionInv'
<1> SUFFICES ASSUME TypeOK, ExecutionInv, [Next]_vars, NEW q \in Request
             PROVE  ExecutionOf(q)'
  BY DEF ExecutionInv
<1>q. ExecutionOf(q)
  BY DEF ExecutionInv
<1>1. CASE UNCHANGED <<pc[q], reply[q], leg[q], executed[q]>>
  BY <1>q, <1>1 DEF ExecutionOf, Good
<1>2. ASSUME NEW r \in Request, r # q,
             \/ Initialize(r) \/ Enter(r) \/ Invalid(r) \/ Refuse(r) \/ Send(r)
             \/ Serve(r) \/ ServeInitialize(r) \/ Reject(r) \/ Fail(r)
             \/ ReceiveStale(r) \/ ReceiveReinit(r) \/ Receive(r)
             \/ Respond(r) \/ RespondEmpty(r) \/ RespondError(r) \/ Delete(r)
      PROVE  UNCHANGED <<pc[q], reply[q], leg[q], executed[q]>>
  BY <1>2 DEF TypeOK, Initialize, Enter, Invalid, Refuse, Send, Serve,
     ServeInitialize, Reject, Fail, ReceiveStale, ReceiveReinit, Receive, Respond,
     RespondEmpty, RespondError, Delete, Goto, Answer, Reply, Executes, Return,
     upstreamVars
<1>3. CASE Restart \/ UNCHANGED vars
  BY <1>1, <1>3 DEF Restart, vars
<1>4. CASE Crash
  BY <1>q, <1>4 DEF Crash, upstreamVars, ExecutionOf, Good, UnderWay, TypeOK
<1> USE <1>q DEF TypeOK, ExecutionOf, Good
<1>5. CASE Initialize(q) \/ Enter(q) \/ Send(q)
  BY <1>5 DEF Initialize, Enter, Send, Goto, upstreamVars
<1>6. CASE \/ Invalid(q) \/ Refuse(q) \/ Respond(q) \/ RespondEmpty(q)
           \/ RespondError(q)
  BY <1>6 DEF Invalid, Refuse, Respond, RespondEmpty, RespondError, Answer, Goto,
     upstreamVars
<1>7. CASE Serve(q)
  BY <1>7 DEF Serve, Reply, Executes, Goto, Responses, Initializes
<1>8. CASE ServeInitialize(q)
  BY <1>8 DEF ServeInitialize, Reply, Executes, Goto
<1>9. CASE Reject(q) \/ Fail(q)
  BY <1>9 DEF Reject, Fail, Reply, Executes, Goto
<1>10. CASE ReceiveStale(q)
  BY <1>10 DEF ReceiveStale, Stale, Return, Goto, upstreamVars
<1>11. CASE ReceiveReinit(q)
  BY <1>11 DEF ReceiveReinit, Return, Goto, upstreamVars
<1>12. CASE Receive(q)
  BY <1>12 DEF Receive, Return, Goto, upstreamVars
<1>13. CASE Delete(q)
  BY <1>1, <1>13 DEF Delete, upstreamVars
<1> QED
  BY Steps, <1>1, <1>2, <1>3, <1>4, <1>5, <1>6, <1>7, <1>8, <1>9, <1>10, <1>11,
     <1>12, <1>13

LEMMA ExecutionInvariant == Spec => [](TypeOK /\ ExecutionInv)
<1>1. Init => ExecutionInv
  BY DEF Init, ExecutionInv, ExecutionOf
<1> QED
  BY <1>1, TypeCorrect, TypeInductive, ExecutionInductive, PTL DEF Spec

-----------------------------------------------------------------------------
\* Refinement.

LEMMA StepRefined ==
  TypeOK /\ ExecutionInv /\ [Next]_vars => [Remote!Next]_(Remote!remoteVars)
<1> SUFFICES ASSUME TypeOK, ExecutionInv, [Next]_vars
             PROVE  Remote!Next \/ UNCHANGED <<executed, outcome>>
  BY DEF Remote!remoteVars
<1> USE DEF TypeOK, ExecutionInv, ExecutionOf, constants, upstreamVars
<1>1. CASE UNCHANGED <<executed, outcome>>
  BY <1>1
<1>2. ASSUME NEW r \in Request, NEW a, Answer(r, a), pc[r] # "done",
             UNCHANGED executed,
             a \in Remote!Delivered \cup Remote!Rejected \cup Remote!Doubtful,
             a \in Remote!Delivered => executed[r] = 1,
             a \in Remote!Rejected => executed[r] = 0
      PROVE  Remote!Next
  <2>1. outcome[r] = "none"
    BY <1>2
  <2>2. Remote!Answer(r)
    BY <1>2, <2>1 DEF Answer, Remote!Answer
  <2> QED
    BY <2>2 DEF Remote!Next
<1>3. ASSUME NEW r \in Request, Invalid(r) \/ Refuse(r) \/ RespondEmpty(r)
      PROVE  Remote!Next
  BY <1>2, <1>3 DEF Invalid, Refuse, RespondEmpty, Remote!Delivered,
     Remote!Rejected, Remote!Doubtful
<1>4. ASSUME NEW r \in Request, Respond(r) PROVE Remote!Next
  BY <1>2, <1>4 DEF Respond, Good, Remote!Delivered, Remote!Rejected,
     Remote!Doubtful
<1>5. ASSUME NEW r \in Request, RespondError(r) PROVE Remote!Next
  BY <1>2, <1>5, FallbackType DEF RespondError, Remote!Delivered,
     Remote!Rejected, Remote!Doubtful
<1>6. ASSUME NEW r \in Request, pc[r] = "sent", Executes(r), UNCHANGED outcome
      PROVE  Remote!Next \/ UNCHANGED <<executed, outcome>>
  <2>1. CASE leg[r] = "reinit"
    BY <1>6, <2>1 DEF Executes
  <2>2. CASE leg[r] # "reinit"
    <3>1. executed[r] = 0 /\ outcome[r] = "none"
      BY <1>6
    <3>2. Remote!Execute(r)
      BY <1>6, <2>2, <3>1 DEF Executes, Remote!Execute
    <3> QED
      BY <3>2 DEF Remote!Next
  <2> QED
    BY <2>1, <2>2
<1>7. ASSUME NEW r \in Request,
             Serve(r) \/ ServeInitialize(r) \/ Reject(r) \/ Fail(r)
      PROVE  Remote!Next \/ UNCHANGED <<executed, outcome>>
  <2>1. pc[r] = "sent" /\ (Executes(r) \/ UNCHANGED executed) /\ UNCHANGED outcome
    BY <1>7 DEF Serve, ServeInitialize, Reject, Fail, Reply
  <2> QED
    BY <1>6, <2>1
<1>8. ASSUME NEW r \in Request,
             \/ Initialize(r) \/ Enter(r) \/ Send(r) \/ Delete(r)
             \/ ReceiveStale(r) \/ ReceiveReinit(r) \/ Receive(r)
      PROVE  UNCHANGED <<executed, outcome>>
  BY <1>8 DEF Initialize, Enter, Send, Delete, ReceiveStale, ReceiveReinit, Receive
<1>9. CASE Crash
  <2> DEFINE lost == { r \in Request : UnderWay(r) }
  <2>1. \A r \in lost : outcome[r] = "none"
    BY DEF UnderWay
  <2>2. outcome' = [r \in Request |-> IF r \in lost THEN "lost" ELSE outcome[r]]
    BY <1>9 DEF Crash
  <2>3. Remote!Lose(lost)
    BY <1>9, <2>1, <2>2 DEF Crash, Remote!Lose
  <2>4. lost \in SUBSET Request
    OBVIOUS
  <2> QED
    BY <2>3, <2>4 DEF Remote!Next
<1>10. CASE Restart \/ UNCHANGED vars
  BY <1>10 DEF Restart, vars
<1> QED
  BY Steps, <1>3, <1>4, <1>5, <1>7, <1>8, <1>9, <1>10

\* Every behavior of the server and the forwarder is one of RemoteCall: a request
\* is executed at most once, and what the client is told agrees with that.
THEOREM ImplementsAtMostOnce == Spec => ImplementsRemoteCall
<1>1. Init => Remote!Init
  BY DEF Init, Remote!Init
<1> QED
  BY <1>1, ExecutionInvariant, StepRefined, PTL
  DEF Spec, ImplementsRemoteCall, Remote!Spec

-----------------------------------------------------------------------------
\* Sessions.

LEMMA NoIdUnknown == TypeOK /\ NoId \notin sessions /\ [Next]_vars => NoId \notin sessions'
<1> SUFFICES ASSUME TypeOK, NoId \notin sessions, [Next]_vars
             PROVE  NoId \notin sessions'
  OBVIOUS
<1>1. ASSUME NewSession PROVE NoId \notin sessions'
  BY <1>1 DEF NewSession, TypeOK, NoId
<1>2. ASSUME NEW r \in Request, ServeInitialize(r) \/ Fail(r)
      PROVE  NoId \notin sessions'
  BY <1>1, <1>2 DEF ServeInitialize, Fail
<1>3. CASE Restart \/ UNCHANGED sessions
  BY <1>3 DEF Restart
<1>4. CASE Crash \/ UNCHANGED vars
  BY <1>4 DEF Crash, vars, upstreamVars
<1>5. ASSUME NEW r \in Request,
             \/ Initialize(r) \/ Enter(r) \/ Invalid(r) \/ Refuse(r) \/ Send(r)
             \/ Serve(r) \/ Reject(r)
             \/ ReceiveStale(r) \/ ReceiveReinit(r) \/ Receive(r)
             \/ Respond(r) \/ RespondEmpty(r) \/ RespondError(r) \/ Delete(r)
      PROVE  UNCHANGED sessions
  BY <1>5 DEF Initialize, Enter, Invalid, Refuse, Send, Serve, Reject, ReceiveStale,
     ReceiveReinit, Receive, Respond, RespondEmpty, RespondError, Delete, upstreamVars
<1> QED
  BY Steps, <1>2, <1>3, <1>4, <1>5

\* In an environment that loses nothing most steps are impossible, and the others
\* lose no session.
LEMMA SessionsKept ==
  ASSUME TypeOK, SessionInv, NothingLost, [Next]_vars
  PROVE  /\ sessions \subseteq sessions'
         /\ UNCHANGED constants
         /\ sid' \in {NoId} \cup sessions'
         /\ sid # NoId => sid' # NoId \/ Crash
<1> USE DEF NothingLost, constants, upstreamVars
<1>1. ASSUME NewSession PROVE sessions \subseteq sessions'
  BY <1>1 DEF NewSession
<1>2. ASSUME NEW r \in Request,
             \/ Initialize(r) \/ Enter(r) \/ Invalid(r) \/ Refuse(r) \/ Send(r)
             \/ Respond(r) \/ RespondEmpty(r) \/ RespondError(r) \/ Delete(r)
      PROVE  UNCHANGED <<constants, sessions, sid>>
  BY <1>2 DEF Initialize, Enter, Invalid, Refuse, Send, Respond, RespondEmpty,
     RespondError, Delete
<1>3. ASSUME NEW r \in Request,
             Serve(r) \/ ServeInitialize(r) \/ Reject(r) \/ Fail(r)
      PROVE  sessions \subseteq sessions' /\ UNCHANGED <<constants, sid>>
  BY <1>1, <1>3 DEF Serve, ServeInitialize, Reject, Fail, Reply
<1>4. ASSUME NEW r \in Request, ReceiveStale(r) \/ ReceiveReinit(r) PROVE FALSE
  BY <1>4 DEF ReceiveStale, ReceiveReinit, Stale, SessionInv, SessionOf
<1>5. ASSUME NEW r \in Request, Receive(r)
      PROVE  /\ UNCHANGED <<constants, sessions>>
             /\ sid' \in {NoId} \cup sessions
             /\ sid # NoId => sid' # NoId
  BY <1>5 DEF Receive, Store, SessionInv, SessionOf
<1>6. CASE Restart
  BY <1>6 DEF Restart
<1>7. CASE Crash
  BY <1>7 DEF Crash
<1>8. CASE UNCHANGED vars
  BY <1>8 DEF vars, SessionInv
<1> QED
  BY Steps, <1>2, <1>3, <1>4, <1>5, <1>6, <1>7, <1>8 DEF SessionInv

LEMMA SessionInductive ==
  TypeOK /\ SessionInv /\ [Next]_vars => SessionInv'
<1> SUFFICES ASSUME TypeOK, SessionInv, [Next]_vars, NothingLost,
                    NEW q \in Request
             PROVE  SessionOf(q)'
  <2>1. TypeOK /\ SessionInv /\ [Next]_vars /\ ~NothingLost => ~NothingLost'
    BY ConstantsKept DEF NothingLost, constants
  <2> QED
    BY <2>1, NoIdUnknown, SessionsKept DEF SessionInv
<1>k. /\ sessions \subseteq sessions'
      /\ UNCHANGED constants
      /\ sid' \in {NoId} \cup sessions'
      /\ sid # NoId => sid' # NoId \/ Crash
  BY SessionsKept
<1>q. SessionOf(q) /\ NoId \notin sessions /\ sid \in {NoId} \cup sessions
  BY DEF SessionInv
<1> USE <1>k, <1>q DEF SessionOf, NothingLost, Initializes, UnderWay, constants
<1>1. CASE /\ UNCHANGED <<pc[q], reply[q], leg[q], used[q]>>
           /\ registry' \subseteq registry \cup (Request \ {q})
           /\ ~Crash
  BY <1>1
<1>2. ASSUME NEW r \in Request, r # q,
             \/ Initialize(r) \/ Enter(r) \/ Invalid(r) \/ Refuse(r) \/ Send(r)
             \/ Serve(r) \/ ServeInitialize(r) \/ Reject(r) \/ Fail(r)
             \/ ReceiveStale(r) \/ ReceiveReinit(r) \/ Receive(r)
             \/ Respond(r) \/ RespondEmpty(r) \/ RespondError(r) \/ Delete(r)
      PROVE  /\ UNCHANGED <<pc[q], reply[q], leg[q], used[q]>>
             /\ registry' \subseteq registry \cup (Request \ {q})
  BY <1>2 DEF TypeOK, Initialize, Enter, Invalid, Refuse, Send, Serve,
     ServeInitialize, Reject, Fail, ReceiveStale, ReceiveReinit, Receive, Respond,
     RespondEmpty, RespondError, Delete, Goto, Answer, Reply, Return, serverVars
<1>3. CASE Crash
  BY <1>3 DEF Crash, TypeOK, upstreamVars
<1>4. CASE UNCHANGED vars
  BY <1>4 DEF vars
<1>5. CASE Restart
  BY <1>5 DEF Restart
<1> USE DEF TypeOK, Goto, upstreamVars, serverVars
<1>6. CASE Initialize(q)
  BY <1>6 DEF Initialize
<1>7. CASE Enter(q)
  <2>1. PICK s \in registry : ~UnderWay(s)
    BY <1>7 DEF Enter, Known
  <2>2. sid # NoId
    BY <2>1 DEF SessionInv
  <2> QED
    BY <1>7, <2>2 DEF Enter
<1>8. CASE \/ Invalid(q) \/ Refuse(q) \/ Respond(q) \/ RespondEmpty(q)
           \/ RespondError(q)
  BY <1>8 DEF Invalid, Refuse, Respond, RespondEmpty, RespondError, Answer
<1>9. CASE Send(q)
  BY <1>9 DEF Send
<1>10. CASE Serve(q)
  BY <1>10 DEF Serve, Reply, Responses
<1>11. CASE ServeInitialize(q)
  BY <1>11 DEF ServeInitialize, Reply, NewSession, NoId
<1>12. CASE Reject(q) \/ Fail(q)
  BY <1>12 DEF Reject, Fail
<1>13. CASE ReceiveStale(q) \/ ReceiveReinit(q)
  BY <1>13 DEF ReceiveStale, ReceiveReinit, Stale
<1>14. CASE Receive(q)
  BY <1>14 DEF Receive, Return, Store
<1>15. CASE Delete(q)
  BY <1>15 DEF Delete
<1> QED
  BY Steps, <1>1, <1>2, <1>3, <1>4, <1>5, <1>6, <1>7, <1>8, <1>9, <1>10, <1>11,
     <1>12, <1>13, <1>14, <1>15

LEMMA SessionInvariant == Spec => [](TypeOK /\ SessionInv)
<1>1. Init => SessionInv
  BY DEF Init, SessionInv, SessionOf, NoReply, Initializes, UnderWay
<1> QED
  BY <1>1, TypeCorrect, TypeInductive, SessionInductive, PTL DEF Spec

\* A request the server lets in is sent upstream in a session that is known
\* there, as long as the upstream server keeps its sessions and answers.
THEOREM ForwardedInSession == Spec => []SentInSession
<1>1. TypeOK /\ SessionInv => SentInSession
  BY DEF SessionInv, SessionOf, SentInSession, NothingLost
<1> QED
  BY <1>1, SessionInvariant, PTL

-----------------------------------------------------------------------------
\* Healing.

LEMMA LoneInductive ==
  TypeOK /\ SessionInv /\ LoneInv /\ [Next]_vars => LoneInv'
<1> SUFFICES ASSUME TypeOK, SessionInv, LoneInv, [Next]_vars, Alone
             PROVE  LoneInv'
  BY ConstantsKept DEF LoneInv, Alone, constants
<1> USE DEF constants, upstreamVars, serverVars, Goto, UnderWay
<1> DEFINE Frame(r) ==
             \A q \in Request : q # r => UNCHANGED <<pc[q], leg[q], outcome[q]>>
<1>n. NoId \notin sessions
  BY DEF SessionInv
<1>calm. ~Calm \/ \A r \in Request : ~UnderWay(r)
  BY DEF Calm, Alone
<1>r. (\A r \in Request : ~UnderWay(r)) => Rested
  BY DEF LoneInv
<1>l. \A r \in Request :
        /\ outcome[r] \notin {"error", "empty"}
        /\ pc[r] = "idle" => leg[r] = "first"
        /\ UnderWay(r) => LoneRequest(r)
  BY DEF LoneInv
\* The four kinds of steps.
<1>1. ASSUME \A r \in Request : ~UnderWay(r),
             NEW r \in Request, pc'[r] = "send", outcome'[r] = outcome[r],
             LoneRequest(r)', Frame(r)
      PROVE  LoneInv'
  <2>1. \A q \in Request : q # r => ~UnderWay(q)'
    BY <1>1
  <2>2. UnderWay(r)'
    BY <1>1
  <2>3. \A q \in Request :
          /\ outcome'[q] \notin {"error", "empty"}
          /\ pc'[q] = "idle" => leg'[q] = "first"
    BY <1>1, <1>l
  <2> HIDE DEF UnderWay
  <2> QED
    BY <1>1, <2>1, <2>2, <2>3 DEF LoneInv
<1>2. ASSUME NEW r \in Request, UnderWay(r), UnderWay(r)',
             outcome'[r] = outcome[r], LoneRequest(r)', Frame(r)
      PROVE  LoneInv'
  <2>1. \A q \in Request : q # r => ~UnderWay(q) /\ ~UnderWay(q)'
    BY <1>2 DEF LoneInv
  <2>3. \A q \in Request :
          /\ outcome'[q] \notin {"error", "empty"}
          /\ pc'[q] = "idle" => leg'[q] = "first"
    BY <1>2, <1>l
  <2> HIDE DEF UnderWay
  <2> QED
    BY <1>2, <2>1, <2>3 DEF LoneInv
<1>3. ASSUME NEW r \in Request, UnderWay(r), pc'[r] = "done",
             outcome'[r] \notin {"error", "empty"}, Rested', Frame(r)
      PROVE  LoneInv'
  <2>1. \A q \in Request : ~UnderWay(q)'
    BY <1>3 DEF LoneInv
  <2>3. \A q \in Request :
          /\ outcome'[q] \notin {"error", "empty"}
          /\ pc'[q] = "idle" => leg'[q] = "first"
    BY <1>3, <1>l
  <2> HIDE DEF UnderWay
  <2> QED
    BY <1>3, <2>1, <2>3 DEF LoneInv
<1>4. ASSUME \A r \in Request : ~UnderWay(r) /\ ~UnderWay(r)',
             \A r \in Request :
               /\ outcome'[r] \notin {"error", "empty"}
               /\ pc'[r] = "idle" => leg'[r] = "first",
             Rested'
      PROVE  LoneInv'
  BY <1>4 DEF LoneInv
\* A request begins.
<1>5. ASSUME NEW r \in Request, Initialize(r) \/ Enter(r) PROVE LoneInv'
  <2>1. (\A q \in Request : ~UnderWay(q)) /\ Rested /\ pc[r] = "idle" /\ leg[r] = "first"
    BY <1>5, <1>calm, <1>r, <1>l DEF Initialize, Enter
  <2>2. Frame(r) /\ pc'[r] = "send" /\ outcome'[r] = outcome[r]
    BY <1>5 DEF Initialize, Enter, Goto, TypeOK
  <2>3. UNCHANGED <<method, leg, sid, cache, used, reply>>
    BY <1>5 DEF Initialize, Enter, constants, serverVars
  <2>4. method[r] # "initialize" => sid # NoId
    BY <1>5, <2>1 DEF Initialize, Enter, Rested
  <2>5. LoneRequest(r)'
    BY <2>1, <2>2, <2>3, <2>4 DEF Rested, LoneRequest, HasCache, Initializes
  <2> QED
    BY <1>1, <2>1, <2>2, <2>5
\* It goes on.
<1>6. ASSUME NEW r \in Request, Send(r) PROVE LoneInv'
  <2>1. UnderWay(r) /\ UnderWay(r)' /\ Frame(r) /\ outcome'[r] = outcome[r]
    BY <1>6 DEF Send, TypeOK
  <2>2. LoneRequest(r)'
    BY <1>6, <1>l, <1>n DEF Send, TypeOK, LoneRequest, HasCache, Initializes
  <2> QED
    BY <1>2, <2>1, <2>2
<1>7. ASSUME NEW r \in Request,
             Serve(r) \/ ServeInitialize(r) \/ Reject(r) \/ Fail(r)
      PROVE  LoneInv'
  <2>1. UnderWay(r) /\ UnderWay(r)' /\ Frame(r) /\ outcome'[r] = outcome[r]
    BY <1>7 DEF Serve, ServeInitialize, Reject, Fail, Reply, TypeOK
  <2>2. LoneRequest(r) /\ pc[r] = "sent"
    BY <1>7, <1>l DEF Serve, ServeInitialize, Reject, Fail
  <2>3. ASSUME Serve(r) PROVE LoneRequest(r)'
    BY <1>n, <2>2, <2>3 DEF Serve, Reply, Responses, Alone, TypeOK, LoneRequest,
       HasCache, Initializes
  <2>4. ASSUME ServeInitialize(r) PROVE LoneRequest(r)'
    BY <1>n, <2>2, <2>4 DEF ServeInitialize, NewSession, Reply, Alone, TypeOK,
       LoneRequest, HasCache, Initializes, NoId
  <2>5. ASSUME Reject(r) PROVE LoneRequest(r)'
    BY <1>n, <2>2, <2>5 DEF Reject, Reply, Alone, TypeOK, LoneRequest, HasCache,
       Initializes
  <2>6. ASSUME Fail(r) PROVE LoneRequest(r)'
    BY <2>6 DEF Fail, Alone
  <2> QED
    BY <1>2, <1>7, <2>1, <2>3, <2>4, <2>5, <2>6
<1>8. ASSUME NEW r \in Request, ReceiveStale(r) \/ ReceiveReinit(r) \/ Receive(r)
      PROVE  LoneInv'
  <2>1. UnderWay(r) /\ UnderWay(r)' /\ Frame(r) /\ outcome'[r] = outcome[r]
    BY <1>8 DEF ReceiveStale, ReceiveReinit, Receive, Return, TypeOK
  <2>2. LoneRequest(r) /\ pc[r] = "replied"
    BY <1>8, <1>l DEF ReceiveStale, ReceiveReinit, Receive
  <2>3. ASSUME ReceiveStale(r) PROVE LoneRequest(r)'
    BY <1>n, <2>2, <2>3 DEF ReceiveStale, Stale, TypeOK, LoneRequest, HasCache,
       Initializes
  <2>4. ASSUME ReceiveReinit(r) PROVE LoneRequest(r)'
    BY <1>n, <2>2, <2>4 DEF ReceiveReinit, Good, Store, TypeOK, LoneRequest, HasCache,
       Initializes
  <2>5. ASSUME Receive(r) PROVE LoneRequest(r)'
    BY <1>n, <2>2, <2>5 DEF Receive, Stale, Good, Store, Return, TypeOK, LoneRequest,
       HasCache, Initializes, Legs
  <2> QED
    BY <1>2, <1>8, <2>1, <2>3, <2>4, <2>5
\* It ends.
<1>9. ASSUME NEW r \in Request,
             Refuse(r) \/ Respond(r) \/ RespondEmpty(r) \/ RespondError(r)
      PROVE  LoneInv'
  <2>1. UnderWay(r) /\ pc'[r] = "done" /\ Frame(r) /\ UNCHANGED <<method, sid>>
    BY <1>9 DEF Refuse, Respond, RespondEmpty, RespondError, Answer, TypeOK
  <2>2. LoneRequest(r)
    BY <1>l, <2>1
  <2>3. sid # NoId
    BY <1>9, <1>n, <2>2 DEF Refuse, Respond, RespondEmpty, RespondError, LoneRequest,
       Initializes
  <2>4. HasCache' /\ outcome'[r] \notin {"error", "empty"}
    <3>1. CASE Refuse(r)
      BY <2>2, <3>1 DEF Refuse, Answer, LoneRequest, HasCache, Initializes, TypeOK
    <3>2. CASE Respond(r)
      BY <2>2, <3>2 DEF Respond, Good, Answer, LoneRequest, HasCache, TypeOK, Cached
    <3>3. CASE RespondEmpty(r)
      BY <2>2, <3>3 DEF RespondEmpty, LoneRequest
    <3>4. CASE RespondError(r)
      BY <2>2, <3>4 DEF RespondError, Answer, Fallback, LoneRequest, HasCache, Alone,
         TypeOK, Cached
    <3> QED
      BY <1>9, <3>1, <3>2, <3>3, <3>4
  <2> QED
    BY <1>3, <2>1, <2>3, <2>4 DEF Rested
\* Between requests.
<1>10. ASSUME NEW r \in Request, Invalid(r) PROVE LoneInv'
  BY <1>4, <1>10, <1>calm, <1>r, <1>l DEF Invalid, Answer, TypeOK, Rested, HasCache
<1>11. ASSUME NEW r \in Request, Delete(r) PROVE LoneInv'
  BY <1>4, <1>11, <1>calm, <1>r, <1>l DEF Delete, Rested, HasCache
<1>12. CASE Restart
  BY <1>4, <1>12, <1>calm, <1>r, <1>l DEF Restart, Rested, HasCache
<1>13. CASE Crash
  BY <1>4, <1>13, <1>calm, <1>l DEF Crash, Rested, HasCache, TypeOK
<1>14. CASE UNCHANGED vars
  BY <1>14 DEF vars, LoneInv, Alone, Rested, LoneRequest, HasCache, Initializes
<1> QED
  BY Steps, <1>5, <1>6, <1>7, <1>8, <1>9, <1>10, <1>11, <1>12, <1>13, <1>14

\* A request that nothing else happens beside is answered by the upstream server
\* or from the cache, whatever has restarted before.
THEOREM LoneRequestsHeal == Spec => []HealsAlone
<1>1. Init => LoneInv
  BY DEF Init, LoneInv, UnderWay, Rested
<1>2. LoneInv => HealsAlone
  BY DEF LoneInv, HealsAlone
<1> QED
  BY <1>1, <1>2, SessionInvariant, TypeInductive, SessionInductive, LoneInductive,
     PTL DEF Spec

-----------------------------------------------------------------------------
\* Retries end.

\* What Work is at each place and leg.
WorkTable ==
  \A r \in Request :
    /\ pc[r] = "done" => Work(r) = 0
    /\ pc[r] = "handled" => Work(r) = 1
    /\ leg[r] = "retry" =>
         /\ pc[r] = "send" => Work(r) = 4
         /\ pc[r] = "sent" => Work(r) = 3
         /\ pc[r] = "replied" => Work(r) = 2
    /\ leg[r] = "reinit" =>
         /\ pc[r] = "send" => Work(r) = 7
         /\ pc[r] = "sent" => Work(r) = 6
         /\ pc[r] = "replied" => Work(r) = 5
    /\ leg[r] = "first" =>
         /\ pc[r] = "send" => Work(r) = 10
         /\ pc[r] = "sent" => Work(r) = 9
         /\ pc[r] = "replied" => Work(r) = 8

LEMMA WorkIsKnown == WorkTable
BY DEF WorkTable, Work

\* One request's share of RetriesEnd.
GetsOn(r) ==
  /\ UnderWay(r) /\ <<pc[r], leg[r]>>' # <<pc[r], leg[r]>> => Work(r)' < Work(r)
  /\ pc[r] = "done" => <<pc[r], outcome[r]>>' = <<pc[r], outcome[r]>>

LEMMA StepGetsOn ==
  TypeOK /\ [Next]_vars => \A r \in Request : GetsOn(r)
<1> SUFFICES ASSUME TypeOK, [Next]_vars, NEW r \in Request PROVE GetsOn(r)
  OBVIOUS
<1> USE DEF Goto
<1>w. WorkTable /\ WorkTable'
  BY WorkIsKnown, PTL
<1>k. ASSUME UNCHANGED <<pc[r], leg[r], outcome[r]>> PROVE GetsOn(r)
  BY <1>k DEF GetsOn
\* The steps that begin or end a request.
<1>1. ASSUME NEW q \in Request, Initialize(q) \/ Enter(q) \/ Invalid(q) PROVE GetsOn(r)
  BY <1>1, <1>k DEF Initialize, Enter, Invalid, Answer, TypeOK, GetsOn, UnderWay
<1>2. ASSUME NEW q \in Request,
             Refuse(q) \/ Respond(q) \/ RespondEmpty(q) \/ RespondError(q)
      PROVE  GetsOn(r)
  <2>1. /\ pc[q] \in {"send", "handled"} /\ pc' = [pc EXCEPT ![q] = "done"]
        /\ pc[q] = "send" => leg[q] = "first"
        /\ UNCHANGED leg
        /\ \A p \in Request : p # q => outcome'[p] = outcome[p]
    BY <1>2 DEF Refuse, Respond, RespondEmpty, RespondError, Answer, TypeOK
  <2>2. CASE r # q
    BY <1>k, <2>1, <2>2 DEF TypeOK
  <2>3. CASE r = q
    BY <1>w, <2>1, <2>3 DEF WorkTable, GetsOn, TypeOK
  <2> QED
    BY <2>2, <2>3
\* The steps of one leg.
<1>3. ASSUME NEW q \in Request, Send(q) PROVE GetsOn(r)
  BY <1>3, <1>k, <1>w DEF Send, TypeOK, Legs, WorkTable, GetsOn
<1>4. ASSUME NEW q \in Request, Serve(q) \/ ServeInitialize(q) \/ Reject(q) \/ Fail(q)
      PROVE  GetsOn(r)
  <2>1. pc[q] = "sent" /\ pc' = [pc EXCEPT ![q] = "replied"] /\ UNCHANGED <<leg, outcome>>
    BY <1>4 DEF Serve, ServeInitialize, Reject, Fail, Reply, constants
  <2> QED
    BY <1>k, <1>w, <2>1 DEF TypeOK, Legs, WorkTable, GetsOn
\* Handle returns, or goes on to the next leg.
<1>5. ASSUME NEW q \in Request, ReceiveStale(q) \/ ReceiveReinit(q) \/ Receive(q)
      PROVE  GetsOn(r)
  <2>1. /\ pc[q] = "replied" /\ UNCHANGED outcome
        /\ \/ pc' = [pc EXCEPT ![q] = "handled"] /\ UNCHANGED leg
           \/ /\ pc' = [pc EXCEPT ![q] = "send"]
              /\ \/ leg[q] = "first" /\ leg' = [leg EXCEPT ![q] = "reinit"]
                 \/ leg[q] = "reinit" /\ leg' = [leg EXCEPT ![q] = "retry"]
    BY <1>5 DEF ReceiveStale, ReceiveReinit, Receive, Return
  <2>2. CASE r # q
    BY <1>k, <2>1, <2>2 DEF TypeOK
  <2>3. CASE r = q
    BY <1>w, <2>1, <2>3 DEF TypeOK, Legs, WorkTable, GetsOn
  <2> QED
    BY <2>2, <2>3
\* The steps that concern all requests.
<1>6. ASSUME NEW q \in Request, Delete(q) PROVE GetsOn(r)
  BY <1>6, <1>k DEF Delete
<1>7. CASE Restart
  BY <1>7, <1>k DEF Restart
<1>8. CASE Crash
  <2>1. CASE UnderWay(r)
    BY <1>8, <1>w, <2>1 DEF Crash, UnderWay, TypeOK, Legs, WorkTable, GetsOn
  <2>2. CASE ~UnderWay(r)
    BY <1>8, <1>k, <2>2 DEF Crash, TypeOK
  <2> QED
    BY <2>1, <2>2
<1>9. CASE UNCHANGED vars
  BY <1>9, <1>k DEF vars
<1> QED
  BY Steps, <1>1, <1>2, <1>3, <1>4, <1>5, <1>6, <1>7, <1>8, <1>9

\* A request does not go round: each of its steps leaves it less to do, for any number
\* of requests and restarts, and its answer is final.
THEOREM EachStepLeavesLess == Spec => RetriesEnd
<1>1. TypeOK /\ [Next]_vars =>
        [\A r \in Request :
           /\ UnderWay(r) /\ <<pc[r], leg[r]>>' # <<pc[r], leg[r]>> => Work(r)' < Work(r)
           /\ pc[r] = "done" => <<pc[r], outcome[r]>>' = <<pc[r], outcome[r]>>]_vars
  BY StepGetsOn DEF GetsOn
<1> QED
  BY <1>1, TypeCorrect, PTL DEF Spec, RetriesEnd

-----------------------------------------------------------------------------
\* The cache.

\* What a client has been answered is final, and so is whether its request has been
\* executed, as the abstract remote call says.
LEMMA AnswersStay ==
  ASSUME TypeOK, ExecutionInv, [Next]_vars, NEW r \in Request, outcome[r] # "none"
  PROVE  outcome'[r] = outcome[r] /\ executed'[r] = executed[r]
<1>1. Remote!Next \/ UNCHANGED <<executed, outcome>>
  BY StepRefined DEF Remote!remoteVars
<1>2. ASSUME NEW q \in Request, Remote!Execute(q) \/ Remote!Answer(q)
      PROVE  outcome'[r] = outcome[r] /\ executed'[r] = executed[r]
  BY <1>2 DEF Remote!Execute, Remote!Answer, TypeOK
<1>3. ASSUME NEW lost \in SUBSET Request, Remote!Lose(lost)
      PROVE  outcome'[r] = outcome[r] /\ executed'[r] = executed[r]
  BY <1>3 DEF Remote!Lose
<1> QED
  BY <1>1, <1>2, <1>3 DEF Remote!Next

LEMMA CacheInductive ==
  TypeOK /\ ExecutionInv /\ CacheHasSource /\ [Next]_vars => CacheHasSource'
<1> SUFFICES ASSUME TypeOK, ExecutionInv, CacheHasSource, [Next]_vars PROVE CacheHasSource'
  OBVIOUS
<1>m. UNCHANGED method
  BY ConstantsKept DEF constants
\* The witness of an entry stays one.
<1>s. ASSUME NEW m \in Cached, cache[m] # "none"
      PROVE  \E r \in Request :
               method'[r] = m /\ outcome'[r] = cache[m] /\ executed'[r] = 1
  <2>1. PICK r \in Request : method[r] = m /\ outcome[r] = cache[m] /\ executed[r] = 1
    BY <1>s DEF CacheHasSource
  <2> QED
    BY <1>m, <1>s, <2>1, AnswersStay
<1>o. ASSUME NEW r \in Request, outcome[r] = "cached"
      PROVE  \E q \in Request :
               method'[q] = method'[r] /\ outcome'[q] \in {"result", "rpcError"}
  <2>1. PICK q \in Request :
          method[q] = method[r] /\ outcome[q] \in {"result", "rpcError"}
    BY <1>o DEF CacheHasSource
  <2> QED
    BY <1>m, <2>1, AnswersStay
\* Steps that leave the cache alone, and answer nobody from it.
<1>1. ASSUME UNCHANGED cache,
             \A r \in Request : outcome'[r] = outcome[r] \/ outcome'[r] # "cached"
      PROVE  CacheHasSource'
  BY <1>1, <1>s, <1>o DEF CacheHasSource
<1>2. ASSUME NEW r \in Request,
             \/ Initialize(r) \/ Enter(r) \/ Send(r) \/ Delete(r)
             \/ Serve(r) \/ ServeInitialize(r) \/ Reject(r) \/ Fail(r)
             \/ ReceiveStale(r) \/ ReceiveReinit(r) \/ Receive(r)
      PROVE  UNCHANGED <<cache, outcome>>
  BY <1>2 DEF Initialize, Enter, Send, Delete, Serve, ServeInitialize, Reject, Fail,
     Reply, ReceiveStale, ReceiveReinit, Receive, serverVars
<1>3. ASSUME NEW r \in Request, Invalid(r) \/ Refuse(r) \/ RespondEmpty(r)
      PROVE  CacheHasSource'
  BY <1>1, <1>3 DEF Invalid, Refuse, RespondEmpty, Answer, serverVars, TypeOK
<1>4. CASE Restart \/ UNCHANGED vars
  BY <1>1, <1>4 DEF Restart, serverVars, vars
<1>5. CASE Crash
  BY <1>5, <1>o DEF Crash, CacheHasSource
\* A response is cached.
<1>6. ASSUME NEW r \in Request, Respond(r) PROVE CacheHasSource'
  <2>1. /\ outcome' = [outcome EXCEPT ![r] = reply[r].status]
        /\ reply[r].status \in {"result", "rpcError"}
        /\ cache' = [m \in Cached |-> IF m = method[r] THEN reply[r].status ELSE cache[m]]
        /\ UNCHANGED executed
    BY <1>6 DEF Respond, Answer, Good, upstreamVars
  <2>2. executed[r] = 1
    BY <1>6 DEF Respond, ExecutionInv, ExecutionOf
  <2>3. ASSUME NEW m \in Cached, cache'[m] # "none"
        PROVE  \E q \in Request :
                 method'[q] = m /\ outcome'[q] = cache'[m] /\ executed'[q] = 1
    BY <1>m, <1>s, <2>1, <2>2, <2>3 DEF TypeOK
  <2>4. ASSUME NEW q \in Request, outcome'[q] = "cached" PROVE outcome[q] = "cached"
    BY <2>1, <2>4 DEF TypeOK
  <2> QED
    BY <1>o, <2>3, <2>4 DEF CacheHasSource
\* The cache is fallen back on.
<1>7. ASSUME NEW r \in Request, RespondError(r) PROVE CacheHasSource'
  <2>1. outcome' = [outcome EXCEPT ![r] = Fallback(method[r])] /\ UNCHANGED cache
    BY <1>7 DEF RespondError, Answer, serverVars
  <2>2. CASE Fallback(method[r]) # "cached"
    BY <1>1, <2>1, <2>2 DEF TypeOK
  <2>3. CASE Fallback(method[r]) = "cached"
    <3>1. method[r] \in Cached /\ cache[method[r]] # "none"
      BY <2>3 DEF Fallback
    <3>2. cache[method[r]] \in {"result", "rpcError"}
      BY <3>1 DEF TypeOK
    <3>3. \E q \in Request :
            method'[q] = method'[r] /\ outcome'[q] \in {"result", "rpcError"}
      BY <1>m, <1>s, <3>1, <3>2
    <3>4. ASSUME NEW p \in Request, p # r, outcome'[p] = "cached"
          PROVE  outcome[p] = "cached"
      BY <2>1, <3>4 DEF TypeOK
    <3> QED
      BY <1>o, <1>s, <2>1, <3>3, <3>4 DEF CacheHasSource
  <2> QED
    BY <2>2, <2>3
<1> QED
  BY Steps, <1>1, <1>2, <1>3, <1>4, <1>5, <1>6, <1>7

\* The cache holds nothing but what the upstream server has answered to a client for the
\* same method, having executed it, and nobody is answered from it before that.
THEOREM CacheHasAnswers == Spec => []CacheHasSource
<1>1. Init => CacheHasSource
  BY DEF Init, CacheHasSource
<1> QED
  BY <1>1, ExecutionInvariant, CacheInductive, PTL DEF Spec
=============================================================================
