--------------------------- MODULE TurnScheduling ---------------------------
(***************************************************************************)
(* What the concurrency guard promises, without locks: of the tool calls   *)
(* in flight, those whose pipelines run never conflict.  Two calls         *)
(* conflict when they belong to different turns of one session, or to one  *)
(* turn and are not both reads.  The promise stands while leases are       *)
(* reliable; a call may be answered without ever running, and a crash may  *)
(* end any calls, running ones first.                                      *)
(***************************************************************************)
CONSTANTS Call, Requests

VARIABLES
  reliable,    \* leases outlive the calls that rely on them
  req,         \* the request of each call
  executing,   \* the calls whose pipelines run
  answered     \* the calls that are over

schedulingVars == <<reliable, req, executing, answered>>

Conflict(c, d) ==
  \/ /\ req[c].session = req[d].session
     /\ req[c].turn # req[d].turn
  \/ /\ req[c].turn = req[d].turn
     /\ ~(req[c].class = "read" /\ req[d].class = "read")

Init ==
  /\ reliable \in BOOLEAN
  /\ req \in [Call -> Requests]
  /\ executing = {}
  /\ answered = {}

\* A pipeline starts.
Start(c) ==
  /\ c \notin executing \cup answered
  /\ reliable => \A d \in executing : ~Conflict(c, d)
  /\ executing' = executing \cup {c}
  /\ UNCHANGED <<reliable, req, answered>>

\* A pipeline is over; the answer is still to be given.
Finish(c) ==
  /\ c \in executing
  /\ executing' = executing \ {c}
  /\ UNCHANGED <<reliable, req, answered>>

\* A call that does not run is answered.
Answer(c) ==
  /\ c \notin executing \cup answered
  /\ answered' = answered \cup {c}
  /\ UNCHANGED <<reliable, req, executing>>

\* Several calls end at once, all those running among them.
Lose(lost) ==
  /\ executing \subseteq lost
  /\ executing' = {}
  /\ answered' = answered \cup lost
  /\ UNCHANGED <<reliable, req>>

Next ==
  \/ \E c \in Call : Start(c) \/ Finish(c) \/ Answer(c)
  \/ \E lost \in SUBSET Call : Lose(lost)

Spec == Init /\ [][Next]_schedulingVars
=============================================================================
