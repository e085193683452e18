------------------------------ MODULE HeldCall ------------------------------
(***************************************************************************)
(* What holding a tool call for approval promises, without subscriptions,  *)
(* webhooks and timers: the call ends once, in one way, and is forwarded   *)
(* only when the word of an approver has got round, which takes a ticket   *)
(* that is no longer pending.  The ticket is decided at most once, by an   *)
(* approver or by the timeout that refuses the call.                       *)
(***************************************************************************)
VARIABLES
  ticket,     \* "none", "pending", or how it was decided
  outcome,    \* "held", or how the call ended
  voices      \* the verdicts that approvers have made known

heldVars == <<ticket, outcome, voices>>

Init == ticket = "none" /\ outcome = "held" /\ voices = {}

Ask ==
  /\ ticket = "none" /\ outcome = "held"
  /\ ticket' = "pending"
  /\ UNCHANGED <<outcome, voices>>

Decide ==
  /\ ticket = "pending"
  /\ ticket' \in {"approved", "denied"}
  /\ UNCHANGED <<outcome, voices>>

\* A later verdict than the one that decided is made known, too.
Speak ==
  /\ ticket \notin {"none", "pending"}
  /\ \E v \in {"approved", "denied"} : voices' = voices \cup {v}
  /\ UNCHANGED <<ticket, outcome>>

Resume ==
  /\ outcome = "held"
  /\ \/ "approved" \in voices /\ outcome' = "forwarded"
     \/ "denied" \in voices /\ outcome' = "denied"
  /\ UNCHANGED <<ticket, voices>>

TimeOut ==
  /\ outcome = "held"
  /\ outcome' = "timedOut"
  /\ ticket' \in {ticket} \cup { t \in {"expired"} : ticket = "pending" }
  /\ UNCHANGED voices

\* The client or the gateway has gone away.
GiveUp ==
  /\ outcome = "held"
  /\ outcome' \in {"aborted", "lost"}
  /\ UNCHANGED <<ticket, voices>>

Next == Ask \/ Decide \/ Speak \/ Resume \/ TimeOut \/ GiveUp

Spec == Init /\ [][Next]_heldVars
=============================================================================
