----------------------------- MODULE RemoteCall -----------------------------
(***************************************************************************)
(* What the gateway promises about a request it may forward, without       *)
(* sessions and retries: the upstream server executes it at most once, and *)
(* the answer does not contradict that.  A response of the upstream server *)
(* is handed on only if it has executed the request; a request that is     *)
(* refused, or answered with nothing, was not executed; after an error, a  *)
(* cached response, or the loss of the gateway, one cannot tell.           *)
(***************************************************************************)
EXTENDS Naturals

CONSTANT Request

VARIABLES
  executed,    \* how often the upstream server has executed each request
  answer       \* the answer each request has got, or "none"

remoteVars == <<executed, answer>>

Delivered == {"result", "rpcError"}
Rejected  == {"invalid", "refused", "empty"}
Doubtful  == {"error", "cached", "lost"}

Init ==
  /\ executed = [r \in Request |-> 0]
  /\ answer = [r \in Request |-> "none"]

Execute(r) ==
  /\ executed[r] = 0 /\ answer[r] = "none"
  /\ executed' = [executed EXCEPT ![r] = 1]
  /\ UNCHANGED answer

Answer(r) ==
  /\ answer[r] = "none"
  /\ \E a \in Delivered \cup Rejected \cup Doubtful :
       /\ a \in Delivered => executed[r] = 1
       /\ a \in Rejected => executed[r] = 0
       /\ answer' = [answer EXCEPT ![r] = a]
  /\ UNCHANGED executed

\* The gateway stops, and with it some requests under way.
Lose(lost) ==
  /\ \A r \in lost : answer[r] = "none"
  /\ answer' = [r \in Request |-> IF r \in lost THEN "lost" ELSE answer[r]]
  /\ UNCHANGED executed

Next ==
  \/ \E r \in Request : Execute(r) \/ Answer(r)
  \/ \E lost \in SUBSET Request : Lose(lost)

Spec == Init /\ [][Next]_remoteVars
=============================================================================
