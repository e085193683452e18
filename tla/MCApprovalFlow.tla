--------------------------- MODULE MCApprovalFlow ---------------------------
(***************************************************************************)
(* One hold and three clicks, in environments that between them allow      *)
(* every fault and the pairs of faults that meet in one step.              *)
(***************************************************************************)
EXTENDS ApprovalFlow, FiniteSets, TLC

CONSTANTS k1, k2, k3

MCEnvironments ==
  {{}, {"dbError", "cancel"}, {"dbError", "crash"}, {"disconnect", "publishError"},
   {"notifyError", "crash"}, {"cancel", "disconnect"}}

\* The clicks are alike: it is enough to say how many approve.
MCInit ==
  /\ Init
  /\ verdict[k1] = "denied" => verdict[k2] = "denied"
  /\ verdict[k2] = "denied" => verdict[k3] = "denied"

MCSpec == MCInit /\ [][Next]_vars /\ Fairness

NoFaults == {{}}
=============================================================================
