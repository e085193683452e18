----------------------------- MODULE EvalRunner -----------------------------
(***************************************************************************)
(* The eval runner against the gateway's audit log.  Eval runs are jobs of *)
(* four kinds: the command (cli), which also starts and stops the stack;   *)
(* a request for a suite; a suite whose results are streamed; and the      *)
(* retry storm.  The server that handles the last three is a service of    *)
(* the stack.  The runner triggers an agent, whose calls the gateway       *)
(* records in the background, and polls the log for what it expects.       *)
(***************************************************************************)
EXTENDS EvalSuite, AuditWriter, FiniteSets

CONSTANTS
  Job,            \* eval runs
  Jobs,           \* what they may be: [kind, precondition, suite]
  MaxCases,       \* at least the cases of any suite
  Written,        \* for each input, the rows that the gateway may write for it
  StormCalls,     \* calls of a retry storm, 6 in the code
  StormTool,      \* the tool it calls
  Budget,         \* the policy's maxToolCallsPerTurn
  Environments    \* the environments to consider, sets of FaultKinds

\* What may go wrong:
\*   agent    an agent fails, gives up a call, or answers without a session
\*   db       connecting and querying fail
\*   hang     a query may never return
\*   slow     records may take longer to arrive than the runner polls
\*   insert   a record cannot be inserted
\*   leave    clients close their connections
\*   compose  docker compose fails
FaultKinds == {"agent", "db", "hang", "slow", "insert", "leave", "compose"}

Kinds == {"cli", "request", "stream", "storm"}

ASSUME EnvironmentsAssumption == Environments \subseteq SUBSET FaultKinds
ASSUME WrittenAssumption ==
  \A input \in DOMAIN Written : \A rows \in Written[input] : rows \in Seq(Range(rows))
ASSUME MaxCasesAssumption == MaxCases \in Nat
ASSUME JobsAssumption ==
  \A x \in Jobs :
    /\ x.kind \in Kinds /\ x.suite \in Seq(Range(x.suite)) /\ Len(x.suite) <= MaxCases
    /\ x.kind = "storm" => Len(x.suite) = 1
    /\ x.precondition => x.kind = "stream" /\ Len(x.suite) = 1
    /\ x.kind # "storm" => \A i \in DOMAIN x.suite : x.suite[i].input \in DOMAIN Written
    /\ \A i \in DOMAIN x.suite : x.suite[i].mustInclude \in Seq(Range(x.suite[i].mustInclude))
ASSUME StormAssumption == StormCalls \in Nat /\ Budget \in Nat /\ StormCalls > Budget

VARIABLES
  env,       \* the faults that may happen in this behavior
  job,       \* what each job is
  stack,     \* the services: "down", "partly" or "up"
  pc,        \* where each job is
  results,   \* of its cases so far: failed checks and the records it has judged
  verdict,   \* exit code or summary: "none", "pass" or "fail"
  gone,      \* the jobs whose clients have left
  queried,   \* the session whose records the job asks for
  calls,     \* of a retry storm
  plan,      \* of each session: the rows the gateway writes for its agent
  at,        \* how many of them it has written
  lost       \* history: whether a record has been lost

runnerVars == <<pc, results, verdict, queried, calls>>
gatewayVars == <<plan, at>>
constants == <<env, job>>
vars == <<constants, stack, runnerVars, gone, gatewayVars, lost, auditVars>>

\* A session for each case of each job, as agents open one for each trigger.
Session == Job \X (1 .. MaxCases)

NoSession == <<>>

Places == {"idle", "up", "connect", "check", "next", "triggered", "storm", "called",
           "poll", "down", "ended"}

TypeOK ==
  /\ env \in Environments /\ job \in [Job -> Jobs]
  /\ stack \in {"down", "partly", "up"}
  /\ pc \in [Job -> Places]
  /\ verdict \in [Job -> {"none", "pass", "fail"}]
  /\ gone \in SUBSET Job
  /\ queried \in [Job -> Session \cup {NoSession}]
  /\ calls \in [Job -> 0 .. StormCalls]
  /\ \A s \in Session : at[s] \in 0 .. Len(plan[s])
  /\ \A i \in DOMAIN Records :
       Records[i].session \in Session /\ Records[i].nr \in 1 .. at[Records[i].session]
  /\ \A j \in Job : Len(results[j]) <= Len(job[j].suite)

IsCli(j) == job[j].kind = "cli"

\* Without a command to start it, the stack is there.
Init ==
  /\ env \in Environments /\ job \in [Job -> Jobs]
  /\ stack = IF \E j \in Job : IsCli(j) THEN "down" ELSE "up"
  /\ pc = [j \in Job |-> "idle"]
  /\ results = [j \in Job |-> <<>>]
  /\ verdict = [j \in Job |-> "none"]
  /\ gone = {}
  /\ queried = [j \in Job |-> NoSession]
  /\ calls = [j \in Job |-> 0]
  /\ plan = [s \in Session |-> <<>>]
  /\ at = [s \in Session |-> 0]
  /\ lost = FALSE
  /\ AuditInit

-----------------------------------------------------------------------------
Active(j) == pc[j] \notin {"idle", "ended"}

Goto(j, place) == pc' = [pc EXCEPT ![j] = place]

End(j, v) == Goto(j, "ended") /\ verdict' = [verdict EXCEPT ![j] = v]

Case(j) == job[j].suite[Len(results[j]) + 1]

NewSession(j) == <<j, Len(results[j]) + 1>>

CasesLeft(j) == Len(results[j]) < Len(job[j].suite)

\* The context of the job lives, and the services answer.
Connected(j) == stack = "up" /\ j \notin gone

\* A result of the case at hand.
Conclude(j, failures, trace) ==
  /\ results' = [results EXCEPT ![j] = Append(@, [failures |-> failures, trace |-> trace])]
  /\ queried' = [queried EXCEPT ![j] = NoSession]
  /\ Goto(j, "next")
  /\ UNCHANGED <<verdict, calls>>

\* The runner's own step: nothing happens to gateway, log and stack.
RunnerOnly == UNCHANGED <<constants, stack, gone, gatewayVars, lost, auditVars>>

\* An error of the case, and on to the next.
RunFails(j) == Conclude(j, {"run"}, <<>>) /\ RunnerOnly

-----------------------------------------------------------------------------
\* run up to the stack: configuration, docker and suite are there, or it exits.
BeginCli(j) ==
  /\ pc[j] = "idle" /\ IsCli(j)
  /\ \/ Loadable(job[j].suite) /\ Goto(j, "up") /\ UNCHANGED verdict
     \/ ~Loadable(job[j].suite) /\ End(j, "fail")
  /\ RunnerOnly /\ UNCHANGED <<results, queried, calls>>

\* The handlers of the server: a suite that cannot be loaded is refused.
BeginRequest(j) ==
  /\ pc[j] = "idle" /\ ~IsCli(j) /\ stack = "up"
  /\ IF job[j].kind = "storm" \/ Loadable(job[j].suite)
     THEN Goto(j, IF job[j].precondition THEN "check" ELSE "next")
     ELSE Goto(j, "ended")
  /\ RunnerOnly /\ UNCHANGED <<results, verdict, queried, calls>>

\* makeScenarioStreamHandler: the service that the scenario needs down is down, or not.
CheckPrecondition(j) ==
  /\ pc[j] = "check"
  /\ \/ Goto(j, "next") /\ UNCHANGED <<results, verdict, queried, calls>>
     \/ Conclude(j, {"precondition"}, <<>>)
  /\ RunnerOnly

-----------------------------------------------------------------------------
\* Orchestrator.Up.  A failure leaves what has been started, and run returns before
\* it defers Down.
ComposeUp(j) ==
  /\ pc[j] = "up"
  /\ \/ Goto(j, "connect") /\ stack' = "up" /\ UNCHANGED verdict
     \/ "compose" \in env /\ End(j, "fail") /\ stack' \in {stack, "partly"}
  /\ UNCHANGED <<constants, results, queried, calls, gone, gatewayVars, lost, auditVars>>

\* Down deferred only after the database is open (mutant).
ConnectOrExit(j) ==
  /\ pc[j] = "connect"
  /\ \/ stack = "up" /\ Goto(j, "next") /\ UNCHANGED verdict
     \/ ("db" \in env \/ stack # "up") /\ End(j, "fail")
  /\ RunnerOnly /\ UNCHANGED <<results, queried, calls>>

\* openPostgresPool; a failure makes the exit code 1, after Down.
Connect(j) ==
  /\ pc[j] = "connect"
  /\ \/ stack = "up" /\ Goto(j, "next") /\ UNCHANGED verdict
     \/ /\ "db" \in env \/ stack # "up"
        /\ Goto(j, "down") /\ verdict' = [verdict EXCEPT ![j] = "fail"]
  /\ RunnerOnly /\ UNCHANGED <<results, queried, calls>>

\* Report and exit code, or the summary; a command goes on to Down.
Finish(j) ==
  /\ pc[j] = "next" /\ ~CasesLeft(j)
  /\ verdict' = [verdict EXCEPT ![j] = IF AllPass(results[j]) THEN "pass" ELSE "fail"]
  /\ Goto(j, IF IsCli(j) THEN "down" ELSE "ended")
  /\ RunnerOnly /\ UNCHANGED <<results, queried, calls>>

\* The containers stop: agents, gateway, database and its log, and the server.
ServicesStop ==
  /\ plan' = [s \in Session |-> SubSeq(plan[s], 1, at[s])]
  /\ queue' = <<>> /\ worker' = <<>> /\ auditLog' = <<>>
  /\ lost' = TRUE
  /\ UNCHANGED at

\* The server's jobs end with it.
Stopped(j, k) == k = j \/ (~IsCli(k) /\ Active(k))

\* Orchestrator.Down; its failure makes the exit code 1.
ComposeDown(j) ==
  /\ pc[j] = "down"
  /\ \/ /\ stack' = "down" /\ ServicesStop
        /\ pc' = [k \in Job |-> IF Stopped(j, k) THEN "ended" ELSE pc[k]]
        /\ UNCHANGED verdict
     \/ /\ "compose" \in env /\ stack' \in {stack, "partly"}
        /\ End(j, "fail")
        /\ UNCHANGED <<gatewayVars, lost, auditVars>>
  /\ UNCHANGED <<constants, results, queried, calls, gone>>

-----------------------------------------------------------------------------
\* trigger: the agent gets the input, opens a session and makes its calls, which the
\* gateway answers and records.
Trigger(j) ==
  /\ pc[j] = "next" /\ CasesLeft(j) /\ job[j].kind # "storm" /\ Connected(j)
  /\ plan' \in { [plan EXCEPT ![NewSession(j)] = rows] : rows \in Written[Case(j).input] }
  /\ Goto(j, "triggered")
  /\ UNCHANGED <<constants, stack, results, verdict, queried, calls, gone, at, lost,
                 auditVars>>

\* The agent answers when its calls have been answered, or has given up a call.
TriggerReturns(j) ==
  /\ pc[j] = "triggered" /\ Connected(j)
  /\ at[NewSession(j)] = Len(plan[NewSession(j)]) \/ "agent" \in env
  /\ \E s \in {NewSession(j)} \cup IF "agent" \in env THEN {NoSession} ELSE {} :
       queried' = [queried EXCEPT ![j] = s]
  /\ Goto(j, "poll")
  /\ RunnerOnly /\ UNCHANGED <<results, verdict, calls>>

\* An agent that does not answer is asked again (mutant).
TriggerRetries(j) ==
  /\ pc[j] = "triggered"
  /\ "agent" \in env \/ ~Connected(j)
  /\ Goto(j, "next") /\ RunnerOnly /\ UNCHANGED <<results, verdict, queried, calls>>

\* No answer in time or another status; a context that has ended.  The agent goes on.
TriggerFails(j) ==
  /\ \/ pc[j] = "triggered"
     \/ pc[j] = "next" /\ CasesLeft(j) /\ job[j].kind # "storm"
  /\ "agent" \in env \/ ~Connected(j)
  /\ RunFails(j)

\* streamEvalSuite: an event that cannot be written ends the stream.
StreamBreaks(j) ==
  /\ pc[j] = "next" /\ job[j].kind \in {"stream", "storm"} /\ j \in gone
  /\ Goto(j, "ended")
  /\ RunnerOnly /\ UNCHANGED <<results, verdict, queried, calls>>

-----------------------------------------------------------------------------
Decisions(rows) == { rows[k].decision : k \in DOMAIN rows }

Row(tool, decision) == [tool |-> tool, decision |-> decision, args |-> {}]

\* The gate counts the calls that are not refused before it sees them.
Counted(rows) == Cardinality({ k \in DOMAIN rows : rows[k].decision = "allow" })

\* What the gateway writes for the next call of a storm.
StormRows(rows) ==
  IF Counted(rows) >= Budget THEN {<<Row(StormTool, "budgetExceeded")>>}
  ELSE {<<Row(StormTool, "allow")>>, <<Row(StormTool, "allow"), Row(StormTool, "upstream_error")>>}
         \cup IF "agent" \in env THEN {<<Row(StormTool, "upstream_error")>>} ELSE {}

\* initialize: a session, or an error, or a response without one.
StormBegins(j) ==
  /\ pc[j] = "next" /\ CasesLeft(j) /\ job[j].kind = "storm"
  /\ \/ /\ Connected(j)
        /\ queried' = [queried EXCEPT ![j] = NewSession(j)]
        /\ Goto(j, "storm")
        /\ RunnerOnly /\ UNCHANGED <<results, verdict, calls>>
     \/ /\ "agent" \in env \/ ~Connected(j)
        /\ RunFails(j)

\* callGateway, of one turn.
StormCall(j) ==
  /\ pc[j] = "storm" /\ Connected(j)
  /\ calls' = [calls EXCEPT ![j] = @ + 1]
  /\ \E rows \in StormRows(plan[queried[j]]) :
       plan' = [plan EXCEPT ![queried[j]] = @ \o rows]
  /\ Goto(j, "called")
  /\ UNCHANGED <<constants, stack, results, verdict, queried, gone, at, lost, auditVars>>

\* The response speaks of the budget, or not; if none of so many does, the storm has failed.
Respond(j, last) ==
  /\ pc[j] = "called" /\ Connected(j) /\ at[queried[j]] = Len(plan[queried[j]])
  /\ IF "budgetExceeded" \in Decisions(plan[queried[j]])
     THEN Goto(j, "poll") /\ UNCHANGED <<results, verdict, queried, calls>>
     ELSE IF calls[j] < last
          THEN Goto(j, "storm") /\ UNCHANGED <<results, verdict, queried, calls>>
          ELSE Conclude(j, {"policyOutcome"}, <<>>)
  /\ RunnerOnly

\* A call too many (mutant).
StormReturnsLate(j) == Respond(j, StormCalls + 1)

StormReturns(j) == Respond(j, StormCalls)

StormFails(j) ==
  /\ pc[j] \in {"storm", "called"}
  /\ "agent" \in env \/ ~Connected(j)
  /\ RunFails(j)

-----------------------------------------------------------------------------
\* queryTrace: the rows of audit_log of the session, in the order of decided_at.
Trace(s) ==
  LET trace[k \in 0 .. Len(auditLog)] ==
        IF k = 0 THEN <<>>
        ELSE IF auditLog[k].session = s THEN Append(trace[k - 1], auditLog[k])
             ELSE trace[k - 1]
  IN  trace[Len(auditLog)]

Rows(trace) == [k \in DOMAIN trace |-> plan[trace[k].session][trace[k].nr]]

\* Any record ends the polling (mutant).
FoundAny(j, rows) == rows # <<>>

\* The record that ends the polling is there.
Found(j, rows) ==
  IF job[j].kind = "storm" THEN "budgetExceeded" \in Decisions(rows)
  ELSE rows # <<>> /\ Last(rows).decision = Case(j).policyOutcome

\* Run of the retry storm takes what it waits for as its only check.
Judge(j, rows) ==
  IF job[j].kind = "storm" THEN {c \in {"policyOutcome"} : ~Found(j, rows)}
  ELSE Evaluate(Case(j), rows)

\* Whether the records of the session that have been written are all in the log.
Flushed(s) == \A i \in DOMAIN (worker \o queue) : (worker \o queue)[i].session # s

\* Polling for as long as a record may be on its way (mutant).
NoDeadline(j) == Flushed(queried[j])

\* The 90 s have passed.  Records are in the log by then, unless that takes for ever.
PastDeadline(j) == "slow" \in env \/ "agent" \in env \/ Flushed(queried[j])

\* Run: the query that finds the trace complete or comes after the deadline.  One that
\* does not is no step.
Query(j) ==
  /\ pc[j] = "poll" /\ Connected(j)
  /\ LET trace == Trace(queried[j])
     IN  /\ Found(j, Rows(trace)) \/ PastDeadline(j)
         /\ Conclude(j, Judge(j, Rows(trace)), trace)
  /\ RunnerOnly

\* The query fails, or the context ends during a query or between two of them.
PollFails(j) ==
  /\ pc[j] = "poll" /\ ("db" \in env \/ ~Connected(j))
  /\ RunFails(j)

-----------------------------------------------------------------------------
\* AuditWriter.Write, by gate or server, in the course of a call.
GatewayWrites(s) ==
  /\ at[s] < Len(plan[s])
  /\ at' = [at EXCEPT ![s] = @ + 1]
  /\ Write([session |-> s, nr |-> at[s] + 1])
  /\ lost' = (lost \/ Full)
  /\ UNCHANGED <<constants, stack, runnerVars, gone, plan, worker, auditLog>>

AuditTakes == Take /\ UNCHANGED <<constants, stack, runnerVars, gone, gatewayVars, lost>>

AuditInserts == Insert /\ UNCHANGED <<constants, stack, runnerVars, gone, gatewayVars, lost>>

AuditFails ==
  /\ "insert" \in env /\ InsertFails
  /\ lost' = TRUE
  /\ UNCHANGED <<constants, stack, runnerVars, gone, gatewayVars>>

AuditStep == AuditTakes \/ AuditInserts \/ AuditFails

\* The client of the server's handler closes its connection.
Disconnect(j) ==
  /\ "leave" \in env /\ Active(j) /\ ~IsCli(j) /\ j \notin gone
  /\ gone' = gone \cup {j}
  /\ UNCHANGED <<constants, stack, runnerVars, gatewayVars, lost, auditVars>>

\* All runs have ended, and the gateway has nothing left to write.
Quiescent ==
  /\ \A j \in Job : ~Active(j)
  /\ \A s \in Session : at[s] = Len(plan[s])
  /\ worker = <<>> /\ queue = <<>>
  /\ UNCHANGED vars

-----------------------------------------------------------------------------
Begin(j) == BeginCli(j) \/ BeginRequest(j)

Finishes(j) == CheckPrecondition(j) \/ Finish(j) \/ StreamBreaks(j)

Composes(j) == ComposeUp(j) \/ Connect(j) \/ ComposeDown(j)

Triggers(j) == Trigger(j) \/ TriggerReturns(j) \/ TriggerFails(j)

Storms(j) == StormBegins(j) \/ StormCall(j) \/ StormReturns(j) \/ StormFails(j)

Progress(j) == Finishes(j) \/ Composes(j) \/ Triggers(j) \/ Storms(j) \/ PollFails(j)

Next ==
  \/ \E j \in Job : Begin(j) \/ Progress(j) \/ Query(j) \/ Disconnect(j)
  \/ \E s \in Session : GatewayWrites(s)
  \/ AuditStep
  \/ Quiescent

\* The runner goes on, docker compose and the agents' HTTP client return, queries do
\* unless they hang, and clocks run.  The gateway answers its calls, and its audit
\* goroutine runs unless it is slow without limit.  Nobody owes a run.
Fairness ==
  /\ \A j \in Job :
       WF_vars(Progress(j)) /\ WF_vars("hang" \notin env /\ Query(j))
  /\ \A s \in Session : WF_vars(GatewayWrites(s))
  /\ WF_vars("slow" \notin env /\ AuditStep)

Spec == Init /\ [][Next]_vars /\ Fairness

-----------------------------------------------------------------------------
\* The result of a case, and the session it is about.
IsResult(j, i) == i \in DOMAIN results[j]

\* A case is judged by records of its own session alone, in the order in which the
\* gateway has written them, whatever else it records meanwhile; and by all of them up
\* to some point as long as none is lost.
TraceFaithful ==
  \A s \in Session : IsResult(s[1], s[2]) =>
    LET trace == results[s[1]][s[2]].trace
    IN  \A k \in DOMAIN trace :
          /\ trace[k].session = s /\ trace[k].nr \in 1 .. at[s]
          /\ \A l \in 1 .. k - 1 : trace[l].nr < trace[k].nr
          /\ ~lost => trace[k].nr = k

\* What the gateway must have done in a session for its case to pass: the expected
\* decision, after all the calls the case asks for; for a storm, a call refused after a
\* budget's worth of calls.
Evidence(s) ==
  LET j == s[1]
      c == job[j].suite[s[2]]
  IN  \E n \in 1 .. at[s] :
        IF job[j].kind = "storm"
        THEN plan[s][n].decision = "budgetExceeded" /\ Counted(SubSeq(plan[s], 1, n)) = Budget
        ELSE plan[s][n].decision = c.policyOutcome /\ InOrder(c.mustInclude, SubSeq(plan[s], 1, n))

\* Whatever fails, is lost, late or cut off: a case passes only on evidence, and a run
\* only on evidence for every case of its suite.
PassNeedsEvidence ==
  \A j \in Job : \A i \in DOMAIN job[j].suite :
    verdict[j] = "pass" \/ (IsResult(j, i) /\ Passes(results[j][i])) => Evidence(<<j, i>>)

\* Without faults, a case whose expected decision can only come last is judged by all
\* records of its session, however they trickle in, and a storm always passes.
FaultlessVerdict ==
  env = {} /\ ~lost =>
    \A s \in Session : IsResult(s[1], s[2]) =>
      LET j == s[1]
          result == results[j][s[2]]
          early == \E k \in 1 .. Len(plan[s]) - 1 :
                     plan[s][k].decision = job[j].suite[s[2]].policyOutcome
      IN  IF job[j].kind = "storm" THEN Passes(result)
          ELSE ~early /\ "precondition" \notin result.failures =>
                 Len(result.trace) = Len(plan[s])

\* When all commands have ended, the stack they share is down, and a stack that compose
\* could not start or stop shows in the exit code of one of them.
StackTakenDown ==
  LET commands == { j \in Job : IsCli(j) }
  IN  commands # {} /\ (\A j \in commands : pc[j] \in {"idle", "ended"}) =>
        \/ stack = "down"
        \/ "compose" \in env /\ \E j \in commands : verdict[j] = "fail"

\* The most steps a job may have left at its case, if it gives no result meanwhile.
Left(j) ==
  LET storming == 2 * (StormCalls - calls[j])
      beginning == [idle |-> 8, up |-> 7, connect |-> 6, check |-> 5, next |-> 4]
  IN  CASE pc[j] \in DOMAIN beginning  -> beginning[pc[j]] + 2 * StormCalls
        [] pc[j] = "called"            -> storming + 3
        [] pc[j] = "storm"             -> storming + 2
        [] pc[j] = "triggered"         -> 2
        [] pc[j] \in {"poll", "down"}  -> 1
        [] pc[j] = "ended"             -> 0

\* No loop, whatever fails and whoever takes the stack away: what a job does brings
\* it another result, of which there are no more than cases, or nearer to the next
\* one or its end; no case is tried twice, and what has ended is final.
RunsGetOn ==
  [][ \A j \in Job :
        /\ <<pc[j], results[j]>>' # <<pc[j], results[j]>> =>
             \/ Len(results[j])' = Len(results[j]) + 1
             \/ results[j]' = results[j] /\ Left(j)' < Left(j)
        /\ pc[j] = "ended" => UNCHANGED <<pc[j], results[j], verdict[j]>> ]_vars

\* Unless a query hangs, every run ends: records that never come are waited for until
\* the deadline, and an agent until its timeout.
EveryRunEnds == \A j \in Job : Active(j) ~> pc[j] = "ended" \/ "hang" \in env

-----------------------------------------------------------------------------
\* What the documents say, which the code does not keep.

\* requirements.md of eval-gate: "the Eval Runner shall verify that the `decision` field of
\* the final audit log row for the case matches the case's `policyOutcome` value exactly".
FinalRowDecides ==
  env = {} /\ ~lost =>
    \A s \in Session :
      job[s[1]].kind # "storm" /\ IsResult(s[1], s[2]) /\ Passes(results[s[1]][s[2]]) =>
        Last(plan[s]).decision = job[s[1]].suite[s[2]].policyOutcome
=============================================================================
