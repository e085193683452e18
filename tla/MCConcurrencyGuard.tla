------------------------- MODULE MCConcurrencyGuard -------------------------
(***************************************************************************)
(* Three calls over two turns of one session and a turn of another, in     *)
(* environments that between them allow every fault.  The calls are alike, *)
(* so it is enough to hand out the requests in one order.                  *)
(***************************************************************************)
EXTENDS ConcurrencyGuard, Sequences

CONSTANTS c1, c2, c3, s1, s2, t1, t2, t3

Request(s, t, class) == [session |-> s, turn |-> t, class |-> class]

\* Reads and writes of two turns of a session, a write of another session and
\* a request without a tool.
MCRequestList ==
  << Request(s1, t1, "read"), Request(s1, t1, "write"),
     Request(s1, t2, "read"), Request(s1, t2, "write"),
     Request(s2, t3, "write"), Request(s2, t3, "none") >>

MCRequests == { MCRequestList[i] : i \in 1 .. Len(MCRequestList) }

\* Environments in which all three calls may use locks, and more combinations of
\* faults, for two calls.
ForThree == {{}, {"hold"}, {"cancel", "crash", "redisError"}}
ForTwo   == {{"hold", "cancel", "crash"}, {"hold", "slow"}, {"crash", "lostReply"}}

MCEnvironments == ForThree \cup ForTwo

\* With faults one session is enough.
MCInit ==
  /\ Init
  /\ \E i, j, k \in 1 .. Len(MCRequestList) :
       /\ i <= j /\ j <= k
       /\ env # {} => j <= 4 /\ k \in 1 .. 4 \cup {Len(MCRequestList)}
       /\ env \in ForTwo => k = Len(MCRequestList)
       /\ req[c1] = MCRequestList[i]
       /\ req[c2] = MCRequestList[j]
       /\ req[c3] = MCRequestList[k]

MCSpec == MCInit /\ [][Next]_vars /\ Fairness

\* The smaller runs: calls of one session.
OneSession == { r \in MCRequests : r.session = s1 }

Holds    == {{"hold"}}
Cancels  == {{"cancel"}}
=============================================================================
