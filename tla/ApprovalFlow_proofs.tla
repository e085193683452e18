------------------------ MODULE ApprovalFlow_proofs ------------------------
(***************************************************************************)
(* Theorems about ApprovalFlow, for every set of clicks and environments.  *)
(***************************************************************************)
EXTENDS ApprovalFlow, TLAPS

-----------------------------------------------------------------------------
\* The elements of a sequence.

LEMMA AppendElements ==
  ASSUME NEW S, NEW s \in Seq(S), NEW x \in S
  PROVE  /\ Append(s, x) \in Seq(S)
         /\ Elements(Append(s, x)) = Elements(s) \cup {x}
<1>1. /\ Append(s, x) \in Seq(S)
      /\ Len(Append(s, x)) = Len(s) + 1
      /\ \A i \in 1 .. Len(s) : Append(s, x)[i] = s[i]
      /\ Append(s, x)[Len(s) + 1] = x
      /\ Len(s) \in Nat
  OBVIOUS
<1>2. 1 .. Len(Append(s, x)) = (1 .. Len(s)) \cup {Len(s) + 1}
  BY <1>1
<1> QED
  BY <1>1, <1>2, Zenon DEF Elements

LEMMA HeadTailElements ==
  ASSUME NEW S, NEW s \in Seq(S), s # <<>>
  PROVE  /\ Head(s) \in S /\ Head(s) \in Elements(s)
         /\ Tail(s) \in Seq(S)
         /\ Elements(Tail(s)) \subseteq Elements(s)
         /\ Len(Tail(s)) = Len(s) - 1
<1>1. /\ Head(s) = s[1] /\ 1 \in 1 .. Len(s) /\ Head(s) \in S
      /\ Tail(s) \in Seq(S)
      /\ Len(Tail(s)) = Len(s) - 1
      /\ \A i \in 1 .. Len(Tail(s)) : i + 1 \in 1 .. Len(s) /\ Tail(s)[i] = s[i + 1]
  OBVIOUS
<1> QED
  BY <1>1 DEF Elements

LEMMA EmptyElements == Elements(<<>>) = {}
BY DEF Elements

LEMMA NonEmptyElements ==
  ASSUME NEW S, NEW s \in Seq(S)
  PROVE  s # <<>> => Elements(s) # {}
BY HeadTailElements

-----------------------------------------------------------------------------
\* Type correctness.

LEMMA UpdateStatusType ==
  ASSUME TypeOK, NEW status \in Statuses
  PROVE  /\ UpdateStatus(status) \in {"none"} \cup Statuses
         /\ UpdateStatusFails(status) => ticket' \in {"none"} \cup Statuses
BY DEF TypeOK, UpdateStatus, UpdateStatusFails

LEMMA TypeInductive == TypeOK /\ [Next]_vars => TypeOK'
<1> SUFFICES ASSUME TypeOK, [Next]_vars PROVE TypeOK'
  OBVIOUS
<1> USE DEF TypeOK
<1>1. CASE UNCHANGED vars
  BY <1>1 DEF vars
<1>2. CASE Insert
  BY <1>2 DEF Insert, Statuses
<1>3. CASE TakeSignal
  BY <1>3, HeadTailElements DEF TakeSignal, Return, Outcomes, Messages
<1>4. CASE TakeClosed
  BY <1>4, HeadTailElements DEF TakeClosed
<1>5. CASE TimerFires
  BY <1>5 DEF TimerFires, subscriptionVars
<1>6. CASE Expire
  <2>1. ticket' \in {"none"} \cup Statuses
    BY <1>6, UpdateStatusType DEF Expire, Statuses
  <2> QED
    BY <1>6, <2>1 DEF Expire, Return, Outcomes
<1>7. CASE Abort
  BY <1>7 DEF Abort, Return, Outcomes
<1>8. CASE PumpSignal
  <2>1. Head(queue) \in Messages /\ Tail(queue) \in Seq(Verdicts)
    BY <1>8, HeadTailElements DEF PumpSignal, Messages
  <2>2. /\ Append(buffer, Head(queue)) \in Seq(Messages)
        /\ Len(Append(buffer, Head(queue))) <= 1
    BY <1>8, <2>1 DEF PumpSignal, Room
  <2> QED
    BY <1>8, <2>1, <2>2 DEF PumpSignal
<1>9. CASE PumpExit
  <2>1. /\ Append(buffer, "closed") \in Seq(Messages)
        /\ Len(Append(buffer, "closed")) <= 1
    BY <1>9 DEF PumpExit, Room, Messages
  <2> QED
    BY <1>9, <2>1 DEF PumpExit
<1>10. CASE Notify
  BY <1>10 DEF Notify, subscriptionVars
<1>11. CASE Subscribe
  BY <1>11 DEF Subscribe
<1>12. ASSUME NEW k \in Click, Press(k) \/ WebhookStep(k)
       PROVE  TypeOK'
  <2>1. CASE Press(k)
    BY <2>1 DEF Press, subscriptionVars
  <2>2. CASE Reject(k)
    BY <2>2 DEF Reject, subscriptionVars
  <2>3. CASE Persist(k)
    <3>1. ticket' \in {"none"} \cup Statuses
      BY <2>3, UpdateStatusType DEF Persist, Statuses, Verdicts
    <3> QED
      BY <2>3, <3>1 DEF Persist, subscriptionVars
  <2>4. CASE PersistFails(k)
    <3>1. ticket' \in {"none"} \cup Statuses
      BY <2>4, UpdateStatusType DEF PersistFails, Statuses, Verdicts
    <3> QED
      BY <2>4, <3>1 DEF PersistFails, subscriptionVars
  <2>5. CASE Publish(k)
    <3>1. queue' \in Seq(Verdicts)
      BY <2>5, AppendElements DEF Publish
    <3> QED
      BY <2>5, <3>1 DEF Publish
  <2> QED
    BY <1>12, <2>1, <2>2, <2>3, <2>4, <2>5 DEF WebhookStep
<1>13. CASE Disconnect
  BY <1>13 DEF Disconnect
<1>14. CASE Cancel
  BY <1>14 DEF Cancel, subscriptionVars
<1>15. CASE Crash
  BY <1>15 DEF Crash, Outcomes
<1> QED
  BY <1>1, <1>2, <1>3, <1>4, <1>5, <1>6, <1>7, <1>8, <1>9, <1>10, <1>11,
     <1>12, <1>13, <1>14, <1>15
     DEF Next, HoldStep, PumpStep, Quiescent

LEMMA InitType == Init => TypeOK
<1> SUFFICES ASSUME Init PROVE TypeOK
  OBVIOUS
<1>1. queue \in Seq(Verdicts)
  BY DEF Init
<1>2. buffer \in Seq(Messages) /\ Len(buffer) <= 1
  BY DEF Init
<1> QED
  BY <1>1, <1>2 DEF Init, TypeOK

\* Every variable keeps its type: in particular the pump never puts more into
\* its channel than the channel holds.
THEOREM TypeCorrect == Spec => []TypeOK
<1>1. Init => TypeOK
  BY InitType
<1> QED
  BY <1>1, TypeInductive, PTL DEF Spec

-----------------------------------------------------------------------------
\* The signals under way: only Publish adds one.

LEMMA FlightUnchanged ==
  UNCHANGED <<queue, buffer>> => UNCHANGED InFlight
BY DEF InFlight, LeftOver, Elements

LEMMA TakenFlight ==
  ASSUME TypeOK, buffer # <<>>, buffer' = Tail(buffer), UNCHANGED queue
  PROVE  /\ InFlight' \subseteq InFlight
         /\ Head(buffer) # "closed" => Head(buffer) \in InFlight
<1>1. Head(buffer) \in Elements(buffer) /\ Elements(buffer') \subseteq Elements(buffer)
  BY HeadTailElements DEF TypeOK
<1>2. Elements(queue') = Elements(queue)
  OBVIOUS
<1> QED
  BY <1>1, <1>2 DEF InFlight, LeftOver

LEMMA PumpedFlight ==
  ASSUME TypeOK, PumpSignal \/ PumpExit
  PROVE  InFlight' \subseteq InFlight
<1>1. CASE PumpSignal
  <2>1. /\ Head(queue) \in Verdicts /\ Head(queue) \in Elements(queue)
        /\ Elements(queue') \subseteq Elements(queue)
    BY <1>1, HeadTailElements DEF PumpSignal, TypeOK
  <2>2. Elements(buffer') = Elements(buffer) \cup {Head(queue)}
    BY <1>1, <2>1, AppendElements DEF PumpSignal, TypeOK, Messages
  <2> QED
    BY <2>1, <2>2 DEF InFlight, LeftOver
<1>2. CASE PumpExit
  <2>1. Elements(buffer') = Elements(buffer) \cup {"closed"}
    BY <1>2, AppendElements DEF PumpExit, TypeOK, Messages
  <2>2. Elements(queue') = Elements(queue)
    BY <1>2 DEF PumpExit
  <2> QED
    BY <2>1, <2>2 DEF InFlight, LeftOver
<1> QED
  BY <1>1, <1>2

LEMMA PublishedFlight ==
  ASSUME TypeOK, NEW k \in Click, Publish(k)
  PROVE  InFlight' \subseteq InFlight \cup {verdict[k]}
<1>1. Elements(queue') \subseteq Elements(queue) \cup {verdict[k]}
  <2>1. CASE queue' = queue
    BY <2>1
  <2>2. CASE queue' = Append(queue, verdict[k])
    <3>1. Elements(queue') = Elements(queue) \cup {verdict[k]}
      BY <2>2, AppendElements DEF TypeOK
    <3> QED
      BY <3>1
  <2> QED
    BY <2>1, <2>2 DEF Publish
<1>2. Elements(buffer') = Elements(buffer)
  BY DEF Publish
<1> QED
  BY <1>1, <1>2 DEF InFlight, LeftOver

LEMMA NoFlight ==
  queue = <<>> /\ buffer = <<>> => InFlight = {}
BY EmptyElements DEF InFlight, LeftOver

-----------------------------------------------------------------------------
\* The inductive invariant.

LEMMA InvInitially == Init => ApprovalInv
<1> SUFFICES ASSUME Init PROVE ApprovalInv
  OBVIOUS
<1>1. InFlight = {}
  BY NoFlight DEF Init
<1> QED
  BY <1>1 DEF Init, ApprovalInv, NothingBeforeInsert, SignalsHaveClicks,
       ClicksDecide, SignalsDecided, Resumed, StatusHasAuthor, FaultsAreAsked,
       Verdicts

LEMMA InvInductive == TypeOK /\ ApprovalInv /\ [Next]_vars => ApprovalInv'
<1> SUFFICES ASSUME TypeOK, ApprovalInv, [Next]_vars PROVE ApprovalInv'
  OBVIOUS
<1> USE DEF ApprovalInv, NothingBeforeInsert, SignalsHaveClicks, SignalHasClick,
            ClicksDecide, SignalsDecided, Resumed, StatusHasAuthor,
            FaultsAreAsked
<1>1. CASE UNCHANGED vars
  BY <1>1, FlightUnchanged DEF vars
<1>2. CASE Insert
  BY <1>2, FlightUnchanged, NoFlight DEF Insert, Verdicts
<1>3. CASE TakeSignal
  BY <1>3, TakenFlight DEF TakeSignal, Return, Verdicts
<1>4. CASE TakeClosed
  BY <1>4, TakenFlight DEF TakeClosed
<1>5. CASE TimerFires
  BY <1>5, FlightUnchanged DEF TimerFires, subscriptionVars
<1>6. CASE Expire
  BY <1>6, FlightUnchanged
     DEF Expire, Return, UpdateStatus, UpdateStatusFails, Verdicts
<1>7. CASE Abort
  BY <1>7, FlightUnchanged DEF Abort, Return
<1>8. CASE PumpSignal
  BY <1>8, PumpedFlight DEF PumpSignal
<1>9. CASE PumpExit
  BY <1>9, PumpedFlight DEF PumpExit
<1>10. CASE Notify
  BY <1>10, FlightUnchanged DEF Notify, subscriptionVars
<1>11. CASE Subscribe
  BY <1>11, FlightUnchanged DEF Subscribe
<1>12. ASSUME NEW k \in Click, Press(k) \/ WebhookStep(k)
       PROVE  ApprovalInv'
  <2>1. CASE Press(k)
    BY <2>1, FlightUnchanged DEF Press, subscriptionVars, TypeOK
  <2>2. CASE Reject(k)
    BY <2>2, FlightUnchanged DEF Reject, subscriptionVars, TypeOK
  <2>3. CASE Persist(k)
    BY <2>3, FlightUnchanged
       DEF Persist, UpdateStatus, subscriptionVars, TypeOK, Verdicts
  <2>4. CASE PersistFails(k)
    BY <2>4, FlightUnchanged
       DEF PersistFails, UpdateStatusFails, UpdateStatus, subscriptionVars,
           TypeOK, Verdicts
  <2>5. CASE Publish(k)
    BY <2>5, PublishedFlight DEF Publish, TypeOK
  <2> QED
    BY <1>12, <2>1, <2>2, <2>3, <2>4, <2>5 DEF WebhookStep
<1>13. CASE Disconnect
  BY <1>13, FlightUnchanged DEF Disconnect
<1>14. CASE Cancel
  BY <1>14, FlightUnchanged DEF Cancel, subscriptionVars
<1>15. CASE Crash
  <2>1. InFlight' = {}
    BY <1>15, EmptyElements DEF Crash, InFlight, LeftOver
  <2>2. \A k \in Click : click'[k] # "persisted" /\ (click'[k] = "done" => click[k] = "done")
    BY <1>15 DEF Crash
  <2> QED
    BY <1>15, <2>1, <2>2 DEF Crash, Over, Outcomes
<1> QED
  BY <1>1, <1>2, <1>3, <1>4, <1>5, <1>6, <1>7, <1>8, <1>9, <1>10, <1>11,
     <1>12, <1>13, <1>14, <1>15
     DEF Next, HoldStep, PumpStep, Quiescent

LEMMA InvHolds == Spec => [](TypeOK /\ ApprovalInv)
<1>1. Init => TypeOK
  BY InitType
<1> QED
  BY <1>1, TypeInductive, InvInitially, InvInductive, PTL DEF Spec

-----------------------------------------------------------------------------
\* A held call is forwarded only after an approver's click has been recorded
\* and its signal published, whatever fails.
THEOREM ForwardingNeedsApprover == Spec => []ForwardedByApprover
<1>1. ApprovalInv => ForwardedByApprover
  BY DEF ApprovalInv, SignalsHaveClicks, SignalHasClick, ForwardedByApprover
<1> QED
  BY <1>1, InvHolds, PTL

\* The update of the ticket comes before every signal, requirement 4.3.
THEOREM DecisionBeforeSignal == Spec => []SignalAfterDecision
<1>1. TypeOK /\ ApprovalInv => SignalAfterDecision
  <2>1. TypeOK /\ queue # <<>> => InFlight # {}
    BY NonEmptyElements DEF TypeOK, InFlight
  <2>2. LeftOver # {} => InFlight # {}
    BY DEF InFlight
  <2> QED
    BY <2>1, <2>2 DEF ApprovalInv, SignalsDecided, SignalAfterDecision
<1> QED
  BY <1>1, InvHolds, PTL

\* As long as the clicks agree, a resumed call finds its verdict in the ticket.
THEOREM VerdictIsRecorded == Spec => []VerdictRecorded
<1>1. TypeOK /\ ApprovalInv => VerdictRecorded
  <2> SUFFICES ASSUME TypeOK, ApprovalInv, Unanimous, Resumed
               PROVE  /\ hold = "forwarded" => ticket = "approved"
                      /\ hold = "denied" => ticket = "denied"
    BY DEF VerdictRecorded, Resumed
  <2>1. ticket \in Verdicts
    BY DEF TypeOK, Statuses, Verdicts, ApprovalInv, SignalsDecided,
           StatusHasAuthor, Resumed
  <2>2. PICK k \in Click : verdict[k] = ticket
    BY <2>1 DEF ApprovalInv, StatusHasAuthor
  <2>3. \A l \in Click : verdict[l] = ticket
    BY <2>2 DEF Unanimous
  <2> QED
    BY <2>3 DEF ApprovalInv, SignalsHaveClicks, SignalHasClick
<1> QED
  BY <1>1, InvHolds, PTL

\* An answered call leaves no pending ticket, unless an update failed, the
\* client went away or the gateway stopped.
THEOREM TicketIsSettled == Spec => []TicketSettled
<1>1. TypeOK /\ ApprovalInv => TicketSettled
  BY DEF TypeOK, ApprovalInv, SignalsDecided, Resumed, FaultsAreAsked,
         TicketSettled, Over, Outcomes
<1> QED
  BY <1>1, InvHolds, PTL

\* The first decision on a ticket stands.
THEOREM TicketDecidedOnce == Spec => DecidedOnce
<1>1. TypeOK /\ ApprovalInv /\ [Next]_vars
        => [ticket \notin {"none", "pending"} => ticket' = ticket]_ticket
  <2> SUFFICES ASSUME ApprovalInv, Next, ticket \notin {"none", "pending"}
               PROVE  ticket' = ticket
    BY DEF vars
  <2>1. CASE HoldStep
    BY <2>1 DEF HoldStep, Insert, TakeSignal, TakeClosed, TimerFires, Expire,
                Abort, UpdateStatus, UpdateStatusFails, ApprovalInv,
                NothingBeforeInsert
  <2>2. CASE PumpStep \/ Notify \/ Subscribe
    BY <2>2 DEF PumpStep, PumpSignal, PumpExit, Notify, Subscribe
  <2>3. ASSUME NEW k \in Click, Press(k) \/ WebhookStep(k)
        PROVE  ticket' = ticket
    BY <2>3 DEF Press, WebhookStep, Reject, Persist, PersistFails, Publish,
                UpdateStatus, UpdateStatusFails
  <2>4. CASE Disconnect \/ Cancel \/ Crash \/ Quiescent
    BY <2>4 DEF Disconnect, Cancel, Crash, Quiescent, vars
  <2> QED
    BY <2>1, <2>2, <2>3, <2>4 DEF Next
<1> QED
  BY <1>1, InvHolds, PTL DEF Spec, DecidedOnce

-----------------------------------------------------------------------------
\* The hold as an abstract held call.

Outcome == IF Over THEN hold ELSE "held"

Voices == { verdict[k] : k \in { l \in Click : click[l] = "done" /\ ticket # "none" } }

\* Steps that publish nothing.
LEMMA VoicesKept ==
  ASSUME UNCHANGED verdict, ticket = "none" <=> ticket' = "none",
         \A k \in Click : click'[k] = "done" <=> click[k] = "done"
  PROVE  UNCHANGED Voices
BY DEF Voices

LEMMA StepHeld ==
  TypeOK /\ ApprovalInv /\ [Next]_vars => [Held!Next]_(Held!heldVars)
<1> SUFFICES ASSUME TypeOK, ApprovalInv, [Next]_vars
             PROVE  Held!Next \/ UNCHANGED <<ticket, Outcome, Voices>>
  BY DEF Held!heldVars, Outcome, Voices
<1> USE DEF TypeOK, Outcome, Over, Outcomes
<1>1. CASE Insert
  <2>1. Voices = {} /\ Voices' = {} /\ ticket = "none" /\ ~Over /\ ~Over'
    BY <1>1 DEF Insert, ApprovalInv, NothingBeforeInsert, Voices
  <2>2. CASE ticket' = "pending"
    BY <2>1, <2>2 DEF Held!Next, Held!Ask, Voices
  <2>3. CASE ticket' = "none"
    BY <2>1, <2>3
  <2> QED
    BY <1>1, <2>2, <2>3 DEF Insert
<1>2. CASE TakeSignal
  <2>1. Head(buffer) \in InFlight /\ Head(buffer) \in Verdicts
    BY <1>2, TakenFlight DEF TakeSignal, Verdicts
  <2>2. Head(buffer) \in Voices
    BY <2>1 DEF Voices, ApprovalInv, SignalsHaveClicks, SignalHasClick, SignalsDecided
  <2>3. UNCHANGED <<ticket, Voices>> /\ ~Over
    BY <1>2, VoicesKept DEF TakeSignal
  <2>4. hold' = IF Head(buffer) = "approved" THEN "forwarded" ELSE "denied"
    BY <1>2 DEF TakeSignal, Return
  <2>5. Held!Resume
    BY <2>1, <2>2, <2>3, <2>4 DEF Held!Resume, Voices, Verdicts
  <2> QED
    BY <2>5 DEF Held!Next
<1>3. CASE Expire
  <2>1. ticket' \in {ticket} \cup { t \in {"expired"} : ticket = "pending" }
    BY <1>3 DEF Expire, UpdateStatus, UpdateStatusFails
  <2>2. UNCHANGED Voices /\ ~Over /\ hold' = "timedOut"
    BY <1>3, <2>1, VoicesKept DEF Expire, Return
  <2>3. Held!TimeOut
    BY <2>1, <2>2 DEF Held!TimeOut, Voices
  <2> QED
    BY <2>3 DEF Held!Next
<1>4. CASE Abort \/ Crash
  <2>1. \A k \in Click : click'[k] = "done" <=> click[k] = "done"
    BY <1>4 DEF Abort, Crash
  <2>2. UNCHANGED <<ticket, Voices>> /\ ~Over /\ hold' \in {"aborted", "lost"}
    BY <1>4, <2>1, VoicesKept DEF Abort, Crash, Return
  <2>3. Held!GiveUp
    BY <2>2 DEF Held!GiveUp, Voices
  <2> QED
    BY <2>3 DEF Held!Next
\* An approver's verdict decides a pending ticket, and no other.
<1>5. ASSUME NEW k \in Click, Persist(k) \/ PersistFails(k)
      PROVE  Held!Next \/ UNCHANGED <<ticket, Outcome, Voices>>
  <2>1. ticket' = ticket \/ (ticket = "pending" /\ ticket' \in {"approved", "denied"})
    BY <1>5 DEF Persist, PersistFails, UpdateStatus, UpdateStatusFails, Verdicts
  <2>2. \A l \in Click : click'[l] = "done" <=> click[l] = "done"
    BY <1>5 DEF Persist, PersistFails
  <2>3. UNCHANGED <<hold, Voices>>
    BY <1>5, <2>1, <2>2, VoicesKept DEF Persist, PersistFails
  <2>4. ticket = "pending" /\ ticket' \in {"approved", "denied"} => Held!Decide
    BY <2>3 DEF Held!Decide, Voices
  <2> QED
    BY <2>1, <2>3, <2>4 DEF Held!Next
<1>6. ASSUME NEW k \in Click, Reject(k) PROVE UNCHANGED <<ticket, Outcome, Voices>>
  <2>1. ticket = "none" /\ ticket' = "none" /\ UNCHANGED hold
    BY <1>6 DEF Reject
  <2>2. Voices = {} /\ Voices' = {}
    BY <2>1 DEF Voices
  <2> QED
    BY <2>1, <2>2
\* The verdict is made known: the ticket is decided by now, by this one or another.
<1>7. ASSUME NEW k \in Click, Publish(k)
      PROVE  Held!Next \/ UNCHANGED <<ticket, Outcome, Voices>>
  <2>1. /\ ticket \notin {"none", "pending"} /\ UNCHANGED <<ticket, hold, verdict>>
        /\ click' = [click EXCEPT ![k] = "done"]
    BY <1>7 DEF Publish, ApprovalInv, ClicksDecide
  <2>2. Voices' = Voices \cup {verdict[k]} /\ verdict[k] \in {"approved", "denied"}
    BY <2>1 DEF Voices, Verdicts
  <2>3. Held!Speak
    BY <2>1, <2>2 DEF Held!Speak, Voices
  <2> QED
    BY <2>3 DEF Held!Next
<1>8. ASSUME NEW k \in Click, Press(k) PROVE UNCHANGED <<ticket, Outcome, Voices>>
  BY <1>8, VoicesKept DEF Press
<1>9. CASE \/ TakeClosed \/ TimerFires \/ PumpSignal \/ PumpExit \/ Notify \/ Subscribe
           \/ Disconnect \/ Cancel \/ Quiescent \/ UNCHANGED vars
  <2>1. UNCHANGED <<ticket, verdict, click>> /\ UNCHANGED Over /\ (Over => UNCHANGED hold)
    BY <1>9
       DEF TakeClosed, TimerFires, PumpSignal, PumpExit, Notify, Subscribe, Disconnect,
           Cancel, Quiescent, vars
  <2> QED
    BY <2>1, VoicesKept
<1> QED
  BY <1>1, <1>2, <1>3, <1>4, <1>5, <1>6, <1>7, <1>8, <1>9
     DEF Next, HoldStep, PumpStep, WebhookStep

\* Every behavior of hold, clicks, pump and ticket is one of the abstract held call: it
\* ends once, on the word of an approver or refused, and its ticket is decided once.
THEOREM ImplementsHold == Spec => ImplementsHeldCall
<1>1. Init => Held!Init
  BY DEF Init, Held!Init, Over, Outcomes
<1> QED
  BY <1>1, InvHolds, StepHeld, PTL DEF Spec, ImplementsHeldCall, Held!Spec
=============================================================================
