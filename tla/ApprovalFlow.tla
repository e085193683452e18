---------------------------- MODULE ApprovalFlow ----------------------------
(***************************************************************************)
(* One tool call that a policy holds for approval: the approvalRequired    *)
(* branch of PolicyGateHandler.Handle, the wait in RedisApprovalBridge,    *)
(* the notifier goroutine, and the LarkWebhookHandler requests that the    *)
(* buttons of the card cause.                                              *)
(*                                                                         *)
(* They meet in two places.  The ticket row in Postgres is changed by      *)
(* conditional updates.  The ticket's Redis channel carries a signal to    *)
(* whoever listens at that moment.  Holds share neither: the ID of a       *)
(* ticket names both, so one hold stands for all.                          *)
(***************************************************************************)
EXTENDS Sequences, Naturals

CONSTANTS
  Click,          \* presses of a button of the card, repeated ones included
  Environments    \* the environments to consider, sets of FaultKinds

\* What may happen beside the hold and the clicks:
\*   dbError       a statement fails, executed or not
\*   publishError  a signal does not reach Redis
\*   disconnect    the subscription breaks, or its channel is closed
\*   notifyError   the card is not sent
\*   cancel        the client goes away
\*   crash         the gateway process stops
FaultKinds ==
  {"dbError", "publishError", "disconnect", "notifyError", "cancel", "crash"}

ASSUME EnvironmentsAssumption == Environments \subseteq SUBSET FaultKinds

VARIABLES
  env,        \* the faults that may happen in this behavior
  verdict,    \* what each click says
  hold,       \* where the held call is
  cancelled,  \* the call's request context is done
  ticket,     \* Postgres: the status of the ticket
  card,       \* the approval card
  sub,        \* the subscription to the ticket's channel
  queue,      \* signals received on it that the pump has not taken
  buffer,     \* the pump's channel to the wait
  pump,       \* the pump goroutine
  click       \* where each click's webhook request is

vars == <<env, verdict, hold, cancelled, ticket, card, sub, queue, buffer,
          pump, click>>

subscriptionVars == <<sub, queue, buffer, pump>>

Verdicts == {"approved", "denied"}

\* A hold is over when the call has gone on to the upstream server
\* ("forwarded"), when it has been refused because of a signal, a timeout or a
\* cancelled context, or when its process is gone.
Outcomes == {"forwarded", "denied", "timedOut", "aborted", "lost"}

Statuses == {"pending", "approved", "denied", "expired"}

\* A message of the pump: a signal, or isNil, the end of the subscription.
Messages == Verdicts \cup {"closed"}

TypeOK ==
  /\ env \in Environments
  /\ verdict \in [Click -> Verdicts]
  /\ hold \in {"insert", "wait", "expiring"} \cup Outcomes
  /\ cancelled \in BOOLEAN
  /\ ticket \in {"none"} \cup Statuses
  /\ card \in {"unsent", "sending", "shown", "failed"}
  /\ sub \in {"off", "on", "closed"}
  /\ queue \in Seq(Verdicts)
  /\ buffer \in Seq(Messages) /\ Len(buffer) <= 1
  /\ pump \in {"unstarted", "running", "exited"}
  /\ click \in [Click -> {"idle", "received", "persisted", "done"}]

Init ==
  /\ env \in Environments
  /\ verdict \in [Click -> Verdicts]
  /\ hold = "insert"
  /\ cancelled = FALSE
  /\ ticket = "none"
  /\ card = "unsent"
  /\ sub = "off"
  /\ queue = <<>>
  /\ buffer = <<>>
  /\ pump = "unstarted"
  /\ click = [k \in Click |-> "idle"]

-----------------------------------------------------------------------------

Over == hold \in Outcomes

\* An update that does not ask for a pending ticket (mutant).
UpdateStatusAlways(status) == IF ticket = "none" THEN "none" ELSE status

\* ticketUpdateStatusSQL: the first decision stands.  No row, a row that is
\* not pending: nothing is updated, and no error reported.
UpdateStatus(status) == IF ticket = "pending" THEN status ELSE ticket

\* Updates that fail: executed or not, the caller gets an error.
UpdateStatusFails(status) ==
  /\ "dbError" \in env
  /\ ticket' \in {ticket, UpdateStatus(status)}

-----------------------------------------------------------------------------
\* Handle: the ticket is inserted, the notifier started, and the wait begun.  A
\* failing insert yields an empty ticket ID and the hold goes on: to the hold
\* there is no ticket, even if there is a row.
Insert ==
  /\ hold = "insert"
  /\ \/ ~cancelled /\ ticket' = "pending"
     \/ (cancelled \/ "dbError" \in env) /\ ticket' = "none"
  /\ hold' = "wait"
  /\ card' = "sending"
  /\ pump' = "running"
  /\ UNCHANGED <<env, verdict, cancelled, sub, queue, buffer, click>>

\* SendApprovalRequest, on a context of its own.
Notify ==
  /\ card = "sending"
  /\ \/ card' = "shown"
     \/ "notifyError" \in env /\ card' = "failed"
  /\ UNCHANGED <<env, verdict, hold, cancelled, ticket, subscriptionVars, click>>

\* The subscription is established, at first or again.  WaitForDecision does
\* not wait for it.
Subscribe ==
  /\ sub = "off" /\ pump = "running"
  /\ sub' = "on"
  /\ UNCHANGED <<env, verdict, hold, cancelled, ticket, card, queue, buffer,
                 pump, click>>

\* The connection breaks: the client library subscribes again, or closes the
\* channel.
Disconnect ==
  /\ "disconnect" \in env
  /\ sub = "on"
  /\ sub' \in {"off", "closed"}
  /\ UNCHANGED <<env, verdict, hold, cancelled, ticket, card, queue, buffer,
                 pump, click>>

\* A pump that does not wait for room (mutant).
RoomAlways == Len(buffer) >= 0

\* Room in an unbuffered channel: the receiver must be there (mutant).
RoomForReceiver == buffer = <<>> /\ hold = "wait"

\* The channel of the pump has room for one message.
Room == Len(buffer) < 1

\* pump: hand a signal over.
PumpSignal ==
  /\ pump = "running" /\ queue # <<>> /\ Room
  /\ buffer' = Append(buffer, Head(queue))
  /\ queue' = Tail(queue)
  /\ UNCHANGED <<env, verdict, hold, cancelled, ticket, card, sub, pump, click>>

\* pump: the subscription is closed and its signals handed over.
PumpExit ==
  /\ pump = "running" /\ sub = "closed" /\ queue = <<>> /\ Room
  /\ buffer' = Append(buffer, "closed")
  /\ pump' = "exited"
  /\ UNCHANGED <<env, verdict, hold, cancelled, ticket, card, sub, queue, click>>

\* WaitForDecision returns: the deferred Close ends the subscription.
Return(outcome) == hold' = outcome /\ sub' = "closed"

\* A lost channel taken for a decision (mutant).
TakeSignalOpen ==
  /\ hold = "wait" /\ buffer # <<>>
  /\ Return(IF Head(buffer) = "denied" THEN "denied" ELSE "forwarded")
  /\ buffer' = Tail(buffer)
  /\ UNCHANGED <<env, verdict, cancelled, ticket, card, queue, pump, click>>

\* A signal that is taken after the timer has refused the call, too (mutant).
TakeSignalLate ==
  /\ hold \in {"wait", "timedOut"} /\ buffer # <<>> /\ Head(buffer) \in Verdicts
  /\ Return(IF Head(buffer) = "approved" THEN "forwarded" ELSE "denied")
  /\ buffer' = Tail(buffer)
  /\ UNCHANGED <<env, verdict, cancelled, ticket, card, queue, pump, click>>

\* WaitForDecision: select takes a signal.
TakeSignal ==
  /\ hold = "wait" /\ buffer # <<>> /\ Head(buffer) \in Verdicts
  /\ Return(IF Head(buffer) = "approved" THEN "forwarded" ELSE "denied")
  /\ buffer' = Tail(buffer)
  /\ UNCHANGED <<env, verdict, cancelled, ticket, card, queue, pump, click>>

\* WaitForDecision: the channel is closed, which is treated as a timeout.
TakeClosed ==
  /\ hold = "wait" /\ buffer # <<>> /\ Head(buffer) = "closed"
  /\ hold' = "expiring"
  /\ buffer' = Tail(buffer)
  /\ UNCHANGED <<env, verdict, cancelled, ticket, card, sub, queue, pump, click>>

\* A wait without a timer (mutant).
NoTimer == FALSE /\ UNCHANGED vars

\* WaitForDecision: select takes the timer, whatever else is ready.
TimerFires ==
  /\ hold = "wait"
  /\ hold' = "expiring"
  /\ UNCHANGED <<env, verdict, cancelled, ticket, card, subscriptionVars, click>>

\* A timeout that leaves the ticket alone (mutant).
ExpireOnlyCall ==
  /\ hold = "expiring"
  /\ Return("timedOut")
  /\ UNCHANGED <<env, verdict, cancelled, ticket, card, queue, buffer, pump, click>>

\* A timeout after which the wait goes on (mutant).
ExpireKeepsWaiting ==
  /\ hold = "expiring"
  /\ ticket' = UpdateStatus("expired")
  /\ hold' = "wait"
  /\ UNCHANGED <<env, verdict, cancelled, card, subscriptionVars, click>>

\* handleTimeout: the ticket is updated, unless somebody has decided it or the
\* update fails, and the call is refused.
Expire ==
  /\ hold = "expiring"
  /\ \/ ~cancelled /\ ticket' = UpdateStatus("expired")
     \/ cancelled /\ UNCHANGED ticket
     \/ UpdateStatusFails("expired")
  /\ Return("timedOut")
  /\ UNCHANGED <<env, verdict, cancelled, card, queue, buffer, pump, click>>

\* WaitForDecision: select takes the cancelled context.  The ticket stays.
Abort ==
  /\ hold = "wait" /\ cancelled
  /\ Return("aborted")
  /\ UNCHANGED <<env, verdict, cancelled, ticket, card, queue, buffer, pump, click>>

-----------------------------------------------------------------------------
\* A button of the card is pressed, or Lark repeats a request it got no answer
\* to.  The card stays where it is, so this may be long after the hold.
Press(k) ==
  /\ card = "shown" /\ click[k] = "idle"
  /\ click' = [click EXCEPT ![k] = "received"]
  /\ UNCHANGED <<env, verdict, hold, cancelled, ticket, card, subscriptionVars>>

\* ServeHTTP: a card without a ticket ID, status 400.
Reject(k) ==
  /\ click[k] = "received" /\ ticket = "none"
  /\ click' = [click EXCEPT ![k] = "done"]
  /\ UNCHANGED <<env, verdict, hold, cancelled, ticket, card, subscriptionVars>>

\* ServeHTTP: the decision is written to the ticket.
Persist(k) ==
  /\ click[k] = "received" /\ ticket # "none"
  /\ ticket' = UpdateStatus(verdict[k])
  /\ click' = [click EXCEPT ![k] = "persisted"]
  /\ UNCHANGED <<env, verdict, hold, cancelled, card, subscriptionVars>>

\* A failing update that does not stop the request (mutant).
PersistFailsQuietly(k) ==
  /\ click[k] = "received" /\ ticket # "none"
  /\ UpdateStatusFails(verdict[k])
  /\ click' = [click EXCEPT ![k] = "persisted"]
  /\ UNCHANGED <<env, verdict, hold, cancelled, card, subscriptionVars>>

\* ServeHTTP: the update fails, status 500.  Nothing is published.
PersistFails(k) ==
  /\ click[k] = "received" /\ ticket # "none"
  /\ UpdateStatusFails(verdict[k])
  /\ click' = [click EXCEPT ![k] = "idle"]
  /\ UNCHANGED <<env, verdict, hold, cancelled, card, subscriptionVars>>

\* ServeHTTP: the signal is published, whether or not the update changed the
\* ticket, and reaches the hold if it listens.  An error is logged.
Publish(k) ==
  /\ click[k] = "persisted"
  /\ \/ queue' = IF sub = "on" THEN Append(queue, verdict[k]) ELSE queue
     \/ "publishError" \in env /\ UNCHANGED queue
  /\ click' = [click EXCEPT ![k] = "done"]
  /\ UNCHANGED <<env, verdict, hold, cancelled, ticket, card, sub, buffer, pump>>

-----------------------------------------------------------------------------
\* The client goes away while its call is held.
Cancel ==
  /\ "cancel" \in env
  /\ ~Over /\ ~cancelled
  /\ cancelled' = TRUE
  /\ UNCHANGED <<env, verdict, hold, ticket, card, subscriptionVars, click>>

\* The gateway stops: the hold is gone, and so are its goroutines and the
\* webhook requests under way, which Lark may repeat to the next process.
Crash ==
  /\ "crash" \in env
  /\ ~Over
  /\ hold' = "lost"
  /\ card' = IF card = "sending" THEN "failed" ELSE card
  /\ sub' = "closed" /\ queue' = <<>> /\ buffer' = <<>> /\ pump' = "exited"
  /\ click' = [k \in Click |-> IF click[k] = "done" THEN "done" ELSE "idle"]
  /\ UNCHANGED <<env, verdict, cancelled, ticket>>

\* The hold is over; nobody has to press a button, and a pump may be left.
Quiescent == Over /\ UNCHANGED vars

-----------------------------------------------------------------------------
\* WaitForDecision and the Insert before it.
HoldStep ==
  Insert \/ TakeSignal \/ TakeClosed \/ TimerFires \/ Expire \/ Abort

PumpStep == PumpSignal \/ PumpExit

WebhookStep(k) == Reject(k) \/ Persist(k) \/ PersistFails(k) \/ Publish(k)

Next ==
  \/ HoldStep \/ PumpStep
  \/ Notify \/ Subscribe
  \/ \E k \in Click : Press(k) \/ WebhookStep(k)
  \/ Disconnect \/ Cancel \/ Crash
  \/ Quiescent

\* Goroutines run and the timer fires.  Nobody owes a click, and no fault is
\* owed.
Fairness ==
  /\ WF_vars(HoldStep)
  /\ WF_vars(PumpStep)
  /\ WF_vars(Notify)
  /\ WF_vars(Subscribe)
  /\ \A k \in Click : WF_vars(WebhookStep(k))

Spec == Init /\ [][Next]_vars /\ Fairness

-----------------------------------------------------------------------------
\* Nothing but an approver lets a call pass: a held call goes on to the
\* upstream server only if somebody pressed Approve and that request has been
\* through the update of the ticket.  No timeout, no lost connection, no missing
\* ticket and no deny can let it pass.
ForwardedByApprover ==
  hold = "forwarded" =>
    \E k \in Click : verdict[k] = "approved" /\ click[k] = "done"

\* A signal has ended the wait.
Resumed == hold \in {"forwarded", "denied"}

Elements(s) == { s[i] : i \in 1 .. Len(s) }

\* The signal that has been handed over and not been taken.
LeftOver == Elements(buffer) \ {"closed"}

\* Requirement 4.3, the ticket is updated before the signal is published, as
\* the waiting side sees it: whatever has failed and been repeated, a call that
\* a signal resumed, and a signal under way, find the ticket decided.
SignalAfterDecision ==
  Resumed \/ queue # <<>> \/ LeftOver # {} => ticket \notin {"none", "pending"}

\* The ticket tells what became of the call as long as all clicks agree: a
\* call resumed by a signal has its verdict in the ticket, never "expired" and
\* never "pending".
Unanimous == \A k, l \in Click : verdict[k] = verdict[l]

VerdictRecorded ==
  Unanimous =>
    /\ hold = "forwarded" => ticket = "approved"
    /\ hold = "denied" => ticket = "denied"

\* A decided ticket is never decided again, by a second click, a repeated
\* request or a late timeout.
DecidedOnce == [][ticket \notin {"none", "pending"} => ticket' = ticket]_ticket

\* Requirement 5.2: no call is answered and leaves a pending ticket behind, as
\* long as updates succeed and neither client nor gateway go away.
TicketSettled ==
  env \cap {"dbError", "cancel", "crash"} = {} => (Over => ticket # "pending")

\* Every hold ends, whatever is lost: the signal, the card or the ticket.
HoldEnds == <>Over

\* The pump goroutine ends after its hold, unless a signal came that the hold
\* did not take: only then does the message that closes find no room.
PumpEnds == <>[](pump = "exited" \/ LeftOver # {})

\* The invariant that the four state properties above rest on.  It follows a
\* signal back to its click, and a status back to who wrote it.
NothingBeforeInsert ==
  hold = "insert" =>
    /\ ticket = "none" /\ card = "unsent" /\ sub = "off" /\ pump = "unstarted"
    /\ queue = <<>> /\ buffer = <<>>
    /\ \A k \in Click : click[k] = "idle"

InFlight == Elements(queue) \cup LeftOver

SignalHasClick(v) == \E k \in Click : verdict[k] = v /\ click[k] = "done"

SignalsHaveClicks ==
  /\ \A v \in InFlight : SignalHasClick(v)
  /\ hold = "forwarded" => SignalHasClick("approved")
  /\ hold = "denied" => SignalHasClick("denied")

ClicksDecide ==
  \A k \in Click :
    /\ click[k] = "persisted" => ticket \notin {"none", "pending"}
    /\ click[k] = "done" => ticket # "pending"

SignalsDecided == Resumed \/ InFlight # {} => ticket \notin {"none", "pending"}

StatusHasAuthor ==
  /\ ticket = "expired" => hold = "timedOut"
  /\ ticket \in Verdicts => \E k \in Click : verdict[k] = ticket

FaultsAreAsked ==
  /\ cancelled => "cancel" \in env
  /\ hold = "aborted" => cancelled
  /\ hold = "lost" => "crash" \in env
  /\ hold = "timedOut" /\ ticket = "pending" => cancelled \/ "dbError" \in env

ApprovalInv ==
  /\ NothingBeforeInsert
  /\ SignalsHaveClicks
  /\ ClicksDecide
  /\ SignalsDecided
  /\ StatusHasAuthor
  /\ FaultsAreAsked

\* What the hold promises, and how this maps to it.
Held ==
  INSTANCE HeldCall
    WITH outcome <- IF Over THEN hold ELSE "held",
         voices  <- { verdict[k] : k \in { l \in Click : click[l] = "done" /\ ticket # "none" } }

\* The hold keeps the abstract promise: it ends once and for good, so that no late
\* click, no repeated request and no signal left in a channel turns a refusal into
\* a forwarded call or a decided ticket into another one.
ImplementsHeldCall == Held!Spec

-----------------------------------------------------------------------------
\* What the approval-flow documents say, which the code does not keep.

\* design.md: "The actual decision is authoritative in Postgres".
TicketAuthoritative == hold = "forwarded" => ticket = "approved"
=============================================================================
