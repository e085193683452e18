-------------------------- MODULE EvalRunner_proofs --------------------------
(***************************************************************************)
(* Theorems about EvalRunner, for all jobs, suites, budgets, capacities of *)
(* the audit channel and environments.                                     *)
(***************************************************************************)
EXTENDS EvalRunner, EvalSuite_proofs, AuditWriter_proofs

\* The steps of a job that leave stack, gateway and log alone.
QuietStep(j) ==
  \/ BeginCli(j) \/ BeginRequest(j) \/ CheckPrecondition(j) \/ Connect(j) \/ Finish(j)
  \/ TriggerReturns(j) \/ TriggerFails(j) \/ StreamBreaks(j)
  \/ StormBegins(j) \/ StormReturns(j) \/ StormFails(j) \/ Query(j) \/ PollFails(j)

LEMMA Steps ==
  ASSUME [Next]_vars
  PROVE  \/ \E j \in Job : QuietStep(j)
         \/ \E j \in Job : ComposeUp(j) \/ ComposeDown(j)
         \/ \E j \in Job : Trigger(j) \/ StormCall(j)
         \/ \E s \in Session : GatewayWrites(s)
         \/ AuditStep
         \/ \E j \in Job : Disconnect(j)
         \/ UNCHANGED vars
BY DEF Next, QuietStep, Begin, Progress, Finishes, Composes, Triggers, Storms, Quiescent

-----------------------------------------------------------------------------
\* Where jobs are.

RunnerTypes ==
  /\ env \in Environments /\ job \in [Job -> Jobs]
  /\ stack \in {"down", "partly", "up"}
  /\ pc \in [Job -> Places]
  /\ verdict \in [Job -> {"none", "pass", "fail"}]
  /\ gone \in SUBSET Job

\* Only commands see to the stack.
CliPlaces == \A j \in Job : pc[j] \in {"up", "connect", "down"} => IsCli(j)

PlacesInv == RunnerTypes /\ CliPlaces

LEMMA QuietStepsStay ==
  ASSUME NEW j \in Job, QuietStep(j)
  PROVE  UNCHANGED <<constants, stack, gone, gatewayVars, lost, auditVars>>
BY DEF QuietStep, BeginCli, BeginRequest, CheckPrecondition, Connect, Finish, TriggerReturns,
   TriggerFails, StreamBreaks, StormBegins, StormReturns, Respond, StormFails, Query,
   PollFails, RunFails, RunnerOnly

LEMMA JobsStay == [Next]_vars => UNCHANGED <<env, job>>
<1> SUFFICES ASSUME [Next]_vars PROVE UNCHANGED <<env, job>>
  OBVIOUS
<1> USE DEF constants
<1>1. ASSUME NEW j \in Job, QuietStep(j) PROVE UNCHANGED <<env, job>>
  BY <1>1, QuietStepsStay
<1>2. ASSUME NEW j \in Job, ComposeUp(j) \/ ComposeDown(j) \/ Trigger(j) \/ StormCall(j) \/ Disconnect(j)
      PROVE  UNCHANGED <<env, job>>
  BY <1>2 DEF ComposeUp, ComposeDown, Trigger, StormCall, Disconnect
<1>3. CASE AuditStep \/ UNCHANGED vars \/ \E s \in Session : GatewayWrites(s)
  BY <1>3 DEF AuditStep, AuditTakes, AuditInserts, AuditFails, GatewayWrites, vars
<1> QED
  BY <1>1, <1>2, <1>3, Steps

LEMMA PlacesInductive == PlacesInv /\ [Next]_vars => PlacesInv'
<1> SUFFICES ASSUME PlacesInv, [Next]_vars PROVE PlacesInv'
  OBVIOUS
<1> USE DEF PlacesInv, RunnerTypes, CliPlaces, Places, IsCli, Goto, End, Conclude, RunFails,
            constants
<1>1. ASSUME NEW j \in Job, QuietStep(j) PROVE PlacesInv'
  <2>1. UNCHANGED <<constants, stack, gone>>
    BY <1>1, QuietStepsStay
  <2>2. CASE BeginCli(j) \/ BeginRequest(j)
    BY <2>1, <2>2 DEF BeginCli, BeginRequest
  <2>3. CASE CheckPrecondition(j) \/ Connect(j) \/ Finish(j) \/ StreamBreaks(j)
    BY <2>1, <2>3 DEF CheckPrecondition, Connect, Finish, StreamBreaks
  <2>4. CASE TriggerReturns(j) \/ TriggerFails(j)
    BY <2>1, <2>4 DEF TriggerReturns, TriggerFails
  <2>5. CASE StormBegins(j) \/ StormReturns(j) \/ StormFails(j)
    BY <2>1, <2>5 DEF StormBegins, StormReturns, Respond, StormFails
  <2>6. CASE Query(j) \/ PollFails(j)
    BY <2>1, <2>6 DEF Query, PollFails
  <2> QED
    BY <1>1, <2>2, <2>3, <2>4, <2>5, <2>6 DEF QuietStep
<1>2. ASSUME NEW j \in Job, ComposeUp(j) \/ ComposeDown(j) PROVE PlacesInv'
  BY <1>2 DEF ComposeUp, ComposeDown, Stopped, Active
<1>3. ASSUME NEW j \in Job, Trigger(j) \/ StormCall(j) PROVE PlacesInv'
  BY <1>3 DEF Trigger, StormCall
<1>4. CASE AuditStep \/ UNCHANGED vars \/ \E s \in Session : GatewayWrites(s)
  BY <1>4 DEF AuditStep, AuditTakes, AuditInserts, AuditFails, GatewayWrites, vars, runnerVars
<1>5. ASSUME NEW j \in Job, Disconnect(j) PROVE PlacesInv'
  BY <1>5 DEF Disconnect, runnerVars
<1> QED
  BY <1>1, <1>2, <1>3, <1>4, <1>5, Steps

LEMMA PlacesInitially == Init => PlacesInv
BY DEF Init, PlacesInv, RunnerTypes, CliPlaces, Places

-----------------------------------------------------------------------------
\* The stack.

Inside(j) == IsCli(j) /\ pc[j] \notin {"idle", "up", "ended"}

Failed(j) == IsCli(j) /\ pc[j] = "ended" /\ verdict[j] = "fail"

\* A stack that is not down has a command that will take it down, or is one that
\* compose has failed on, which a command has reported.
StackInv ==
  (\E j \in Job : IsCli(j)) /\ stack # "down" =>
    \/ \E j \in Job : Inside(j)
    \/ "compose" \in env /\ \E j \in Job : Failed(j)

LEMMA StackInductive == PlacesInv /\ StackInv /\ [Next]_vars => StackInv'
<1> SUFFICES ASSUME PlacesInv, StackInv, [Next]_vars PROVE StackInv'
  OBVIOUS
<1> USE DEF PlacesInv, RunnerTypes, CliPlaces, Places, IsCli, Goto, End, Conclude, RunFails,
            constants
<1>1. ASSUME UNCHANGED <<env, job, stack>>,
             \A k \in Job : (Inside(k) => Inside(k)') /\ (Failed(k) => Failed(k)')
      PROVE  StackInv'
  BY <1>1 DEF StackInv
<1>2. ASSUME NEW j \in Job, QuietStep(j) PROVE StackInv'
  <2>1. UNCHANGED <<env, job, stack>>
    BY <1>2, QuietStepsStay
  <2> SUFFICES ASSUME NEW k \in Job
               PROVE  (Inside(k) => Inside(k)') /\ (Failed(k) => Failed(k)')
    BY <1>1, <2>1
  <2> USE DEF Inside, Failed
  <2>2. CASE BeginCli(j) \/ BeginRequest(j)
    BY <2>1, <2>2 DEF BeginCli, BeginRequest
  <2>3. CASE CheckPrecondition(j) \/ Connect(j) \/ Finish(j) \/ StreamBreaks(j)
    BY <2>1, <2>3 DEF CheckPrecondition, Connect, Finish, StreamBreaks
  <2>4. CASE TriggerReturns(j) \/ TriggerFails(j)
    BY <2>1, <2>4 DEF TriggerReturns, TriggerFails
  <2>5. CASE StormBegins(j) \/ StormReturns(j) \/ StormFails(j)
    BY <2>1, <2>5 DEF StormBegins, StormReturns, Respond, StormFails
  <2>6. CASE Query(j) \/ PollFails(j)
    BY <2>1, <2>6 DEF Query, PollFails
  <2> QED
    BY <1>2, <2>2, <2>3, <2>4, <2>5, <2>6 DEF QuietStep
<1>3. ASSUME NEW j \in Job, ComposeUp(j) PROVE StackInv'
  <2>1. UNCHANGED <<env, job>> /\ IsCli(j) /\ IsCli(j)'
    BY <1>3 DEF ComposeUp
  <2>2. Inside(j)' \/ ("compose" \in env /\ Failed(j)')
    BY <1>3, <2>1 DEF ComposeUp, Inside, Failed
  <2> QED
    BY <2>1, <2>2 DEF StackInv
<1>4. ASSUME NEW j \in Job, ComposeDown(j) PROVE StackInv'
  <2>1. UNCHANGED <<env, job>> /\ IsCli(j) /\ IsCli(j)'
    BY <1>4 DEF ComposeDown
  <2>2. stack' = "down" \/ ("compose" \in env /\ Failed(j)')
    BY <1>4, <2>1 DEF ComposeDown, Failed
  <2> QED
    BY <2>1, <2>2 DEF StackInv
<1>5. ASSUME NEW j \in Job, Trigger(j) \/ StormCall(j) PROVE StackInv'
  <2>1. \A k \in Job : (Inside(k) => Inside(k)') /\ (Failed(k) => Failed(k)')
    BY <1>5 DEF Trigger, StormCall, Inside, Failed
  <2> QED
    BY <1>1, <1>5, <2>1 DEF Trigger, StormCall
<1>6. CASE AuditStep \/ UNCHANGED vars \/ \E s \in Session : GatewayWrites(s)
  <2>1. UNCHANGED <<env, job, stack, pc, verdict>>
    BY <1>6 DEF AuditStep, AuditTakes, AuditInserts, AuditFails, GatewayWrites, vars,
       runnerVars
  <2> QED
    BY <1>1, <2>1 DEF Inside, Failed
<1>7. ASSUME NEW j \in Job, Disconnect(j) PROVE StackInv'
  BY <1>1, <1>7 DEF Disconnect, runnerVars, Inside, Failed
<1> QED
  BY <1>2, <1>3, <1>4, <1>5, <1>6, <1>7, Steps

\* When all commands have ended, the stack is down, or compose has failed and the exit
\* code of a command has said so, whatever else has failed in between.
THEOREM StackIsTakenDown == Spec => []StackTakenDown
<1>1. Init => StackInv
  BY DEF Init, StackInv
<1>2. PlacesInv /\ StackInv => StackTakenDown
  BY DEF StackInv, StackTakenDown, Inside, Failed
<1> QED
  BY <1>1, <1>2, PlacesInitially, PlacesInductive, StackInductive, PTL DEF Spec

-----------------------------------------------------------------------------
\* What queryTrace returns.

Record == [session : Session, nr : Nat]

\* The trace is the records of the session among the first k of the log, in their order.
Numbers(from, n, trace, log, k, s) ==
  /\ from \in [1 .. n -> 1 .. k]
  /\ \A l \in 1 .. n : log[from[l]] = trace[l] /\ trace[l].session = s
  /\ \A i \in 1 .. k : log[i].session = s => \E l \in 1 .. n : from[l] = i
  /\ \A l, m \in 1 .. n : l < m => from[l] < from[m]

Selects(trace, log, k, s) ==
  trace \in Seq(Record) /\ \E from : Numbers(from, Len(trace), trace, log, k, s)

LEMMA SelectsNone == ASSUME NEW log, NEW s PROVE Selects(<<>>, log, 0, s)
<1> DEFINE from == [l \in 1 .. Len(<<>>) |-> 0]
<1> USE DEF Numbers
<1>1. <<>> \in Seq(Record) /\ 1 .. Len(<<>>) = {} /\ 1 .. 0 = {}
  OBVIOUS
<1>2. from \in [1 .. Len(<<>>) -> 1 .. 0]
  BY <1>1
<1> HIDE DEF from
<1> QED
  BY <1>1, <1>2 DEF Selects

LEMMA SelectsNext ==
  ASSUME NEW log \in Seq(Record), NEW s, NEW k \in Nat, k + 1 <= Len(log), NEW trace,
         Selects(trace, log, k, s)
  PROVE  Selects(IF log[k + 1].session = s THEN Append(trace, log[k + 1]) ELSE trace,
                 log, k + 1, s)
<1> DEFINE n == Len(trace)
           r == log[k + 1]
<1>1. PICK from : Numbers(from, n, trace, log, k, s)
  BY DEF Selects
<1>2. trace \in Seq(Record) /\ n \in Nat /\ r \in Record
  BY DEF Selects
<1> USE DEF Numbers
<1>3. CASE r.session # s
  <2>1. from \in [1 .. n -> 1 .. k + 1]
    BY <1>1, <1>2
  <2>2. \A i \in 1 .. k + 1 : log[i].session = s => \E l \in 1 .. n : from[l] = i
    BY <1>1, <1>3
  <2>3. Selects(trace, log, k + 1, s)
    BY <1>1, <1>2, <2>1, <2>2 DEF Selects
  <2> QED
    BY <1>3, <2>3
<1>4. CASE r.session = s
  <2> DEFINE trace1 == Append(trace, r)
             from1 == [l \in 1 .. n + 1 |-> IF l = n + 1 THEN k + 1 ELSE from[l]]
  <2>1. /\ trace1 \in Seq(Record) /\ Len(trace1) = n + 1 /\ trace1[n + 1] = r
        /\ \A l \in 1 .. n : trace1[l] = trace[l]
    BY <1>2, AppendProperties
  <2>2. /\ from1 \in [1 .. n + 1 -> 1 .. k + 1] /\ from1[n + 1] = k + 1
        /\ \A l \in 1 .. n : from1[l] = from[l] /\ from[l] \in 1 .. k
    <3> HIDE DEF n
    <3>1. \A l \in 1 .. n + 1 : l = n + 1 \/ (l \in 1 .. n /\ from[l] \in 1 .. k)
      BY <1>1, <1>2
    <3>2. \A l \in 1 .. n : l \in 1 .. n + 1 /\ l # n + 1
      BY <1>2
    <3> QED
      BY <1>1, <1>2, <3>1, <3>2
  <2> HIDE DEF trace1, from1, r
  <2>3. \A l \in 1 .. n + 1 : l = n + 1 \/ l \in 1 .. n
    BY <1>2
  <2>4. \A l \in 1 .. n + 1 : log[from1[l]] = trace1[l] /\ trace1[l].session = s
    BY <1>1, <1>4, <2>1, <2>2, <2>3 DEF r
  <2>5. \A i \in 1 .. k + 1 : log[i].session = s => \E l \in 1 .. n + 1 : from1[l] = i
    <3> SUFFICES ASSUME NEW i \in 1 .. k + 1, log[i].session = s
                 PROVE  \E l \in 1 .. n + 1 : from1[l] = i
      OBVIOUS
    <3>1. CASE i = k + 1
      BY <1>2, <2>2, <3>1
    <3>2. CASE i # k + 1
      <4>1. PICK l \in 1 .. n : from[l] = i
        BY <1>1, <3>2
      <4> QED
        BY <1>2, <2>2, <4>1
    <3> QED
      BY <3>1, <3>2
  <2>6. \A l, m \in 1 .. n + 1 : l < m => from1[l] < from1[m]
    <3> SUFFICES ASSUME NEW l \in 1 .. n + 1, NEW m \in 1 .. n + 1, l < m
                 PROVE  from1[l] < from1[m]
      OBVIOUS
    <3>1. l \in 1 .. n
      BY <1>2
    <3> QED
      BY <1>1, <2>2, <2>3, <3>1
  <2>7. Selects(trace1, log, k + 1, s)
    <3>1. Numbers(from1, n + 1, trace1, log, k + 1, s)
      BY <2>2, <2>4, <2>5, <2>6
    <3> HIDE DEF Numbers
    <3> QED
      BY <2>1, <3>1 DEF Selects
  <2> QED
    BY <1>4, <2>7 DEF trace1, r
<1> QED
  BY <1>3, <1>4

LEMMA TraceSelects ==
  ASSUME auditLog \in Seq(Record), NEW s
  PROVE  Selects(Trace(s), auditLog, Len(auditLog), s)
<1> DEFINE n == Len(auditLog)
           S == Seq(Record)
           After(k, t) == IF auditLog[k].session = s THEN Append(t, auditLog[k]) ELSE t
           step == [k \in 1 .. n |-> [t \in S |-> After(k, t)]]
           P(f) == f = [k \in 0 .. n |-> IF k = 0 THEN <<>> ELSE After(k, f[k - 1])]
           trace == CHOOSE f : P(f)
<1>1. n \in Nat /\ <<>> \in S
  OBVIOUS
<1>2. \A k \in 1 .. n, t \in S : After(k, t) \in S
  OBVIOUS
<1>3. PICK f : Computes(f, n, S, <<>>, step)
  <2>1. step \in [1 .. n -> [S -> S]]
    BY <1>2
  <2> HIDE DEF n, S, step
  <2> QED
    BY <1>1, <2>1, LoopsCompute
<1>4. P(f)
  <2> HIDE DEF After, n, S
  <2>1. f = [k \in 0 .. n |-> f[k]]
    BY <1>3 DEF Computes
  <2>2. \A k \in 0 .. n : f[k] = IF k = 0 THEN <<>> ELSE After(k, f[k - 1])
    <3> SUFFICES ASSUME NEW k \in 0 .. n, k # 0 PROVE f[k] = After(k, f[k - 1])
      BY <1>3 DEF Computes
    <3>1. k \in 1 .. n /\ k - 1 \in 0 .. n
      BY <1>1
    <3>2. f[k - 1] \in S /\ f[k] = step[k][f[k - 1]]
      BY <1>3, <3>1 DEF Computes
    <3> QED
      BY <3>1, <3>2
  <2> QED
    BY <2>1, <2>2
<1>5. P(trace)
  <2> HIDE DEF P
  <2> QED
    BY <1>4
<1>6. Trace(s) = trace[n]
  BY DEF Trace
<1> HIDE DEF trace, n
<1>7. trace[0] = <<>> /\ \A k \in Nat : k + 1 <= n => trace[k + 1] = After(k + 1, trace[k])
  <2> HIDE DEF After
  <2>1. \A k \in 0 .. n : trace[k] = IF k = 0 THEN <<>> ELSE After(k, trace[k - 1])
    BY <1>5
  <2>2. ASSUME NEW k \in Nat, k + 1 <= n PROVE trace[k + 1] = After(k + 1, trace[k])
    <3>1. k + 1 \in 0 .. n /\ k + 1 # 0 /\ (k + 1) - 1 = k
      BY <1>1, <2>2
    <3> QED
      BY <2>1, <3>1
  <2> QED
    BY <1>1, <2>1, <2>2
<1> DEFINE T == { k \in Nat : k <= n => Selects(trace[k], auditLog, k, s) }
<1>8. 0 \in T
  BY <1>7, SelectsNone
<1>9. ASSUME NEW k \in Nat, k \in T PROVE k + 1 \in T
  <2> SUFFICES ASSUME k + 1 <= n PROVE Selects(trace[k + 1], auditLog, k + 1, s)
    OBVIOUS
  <2>1. Selects(trace[k], auditLog, k, s)
    BY <1>1, <1>9
  <2>2. Selects(After(k + 1, trace[k]), auditLog, k + 1, s)
    BY <2>1, SelectsNext DEF n
  <2> QED
    BY <1>7, <2>2
<1>10. n \in T
  <2> HIDE DEF T
  <2> QED
    BY <1>1, <1>8, <1>9, SetInduction
<1> QED
  BY <1>1, <1>6, <1>10 DEF n

-----------------------------------------------------------------------------
\* Stages of a job.

Checks == {"run", "precondition", "mustInclude", "mustNotInclude", "policyOutcome",
           "mustNotContainInArgs"}

Result == [failures : SUBSET Checks, trace : Seq(Record)]

IsStorm(j) == job[j].kind = "storm"

\* The case at hand has a session, or will have one.
Working(j) == pc[j] \in {"triggered", "storm", "called", "poll"}

Stage(j) ==
  /\ Len(results[j]) <= Len(job[j].suite)
  /\ pc[j] \in {"idle", "up", "connect", "check"} => results[j] = <<>>
  /\ pc[j] = "check" => Len(job[j].suite) = 1 /\ ~IsStorm(j)
  /\ Working(j) => CasesLeft(j)
  /\ pc[j] \in {"storm", "called"} => IsStorm(j)
  /\ pc[j] = "triggered" => ~IsStorm(j)
  /\ pc[j] \in {"storm", "called", "poll"} =>
       queried[j] = NewSession(j) \/ (queried[j] = NoSession /\ ~IsStorm(j))
  /\ pc[j] \notin {"idle", "ended"} /\ ~IsStorm(j) => Loadable(job[j].suite)

\* How far a storm is.
CallsFit(j) ==
  /\ calls[j] <= StormCalls
  /\ pc[j] = "storm" => calls[j] < StormCalls
  /\ IsStorm(j) /\ pc[j] \in {"idle", "next"} /\ results[j] = <<>> => calls[j] = 0

StageInv ==
  /\ PlacesInv
  /\ results \in [Job -> Seq(Result)]
  /\ queried \in [Job -> Session \cup {NoSession}]
  /\ calls \in [Job -> Nat]
  /\ \A j \in Job : Stage(j) /\ CallsFit(j)

LEMMA JobFacts ==
  ASSUME PlacesInv, NEW j \in Job
  PROVE  /\ job[j] \in Jobs /\ job[j].kind \in Kinds
         /\ job[j].suite \in Seq(Range(job[j].suite))
         /\ Len(job[j].suite) \in Nat /\ Len(job[j].suite) <= MaxCases
         /\ IsStorm(j) => Len(job[j].suite) = 1
         /\ job[j].precondition => ~IsStorm(j) /\ Len(job[j].suite) = 1
<1>1. job[j] \in Jobs
  BY DEF PlacesInv, RunnerTypes
<1>2. job[j].suite \in Seq(Range(job[j].suite)) /\ Len(job[j].suite) <= MaxCases
  BY <1>1, JobsAssumption
<1>3. Len(job[j].suite) \in Nat
  BY <1>2, LenProperties
<1> QED
  BY <1>1, <1>2, <1>3, JobsAssumption DEF IsStorm

LEMMA NewSessions ==
  ASSUME StageInv, NEW j \in Job, CasesLeft(j)
  PROVE  NewSession(j) \in Session
<1>1. Len(results[j]) \in Nat
  BY LenProperties DEF StageInv
<1> QED
  BY <1>1, JobFacts, MaxCasesAssumption DEF StageInv, CasesLeft, NewSession, Session

LEMMA NoSessionIsNone == NoSession \notin Session
<1> SUFFICES ASSUME NEW s \in Session, s = <<>> PROVE FALSE
  BY DEF NoSession
<1>1. s[1] \in Job /\ s = <<s[1], s[2]>>
  BY DEF Session
<1>2. Len(s) = 2 /\ Len(<<>>) = 0
  BY <1>1
<1> QED
  BY <1>2

\* A job that neither its own step nor another's touches.
LEMMA StageStays ==
  ASSUME StageInv, NEW j \in Job, job' = job,
         pc'[j] = pc[j] \/ (pc'[j] = "ended" /\ pc[j] # "idle"), results'[j] = results[j],
         queried'[j] = queried[j], calls'[j] = calls[j]
  PROVE  Stage(j)' /\ CallsFit(j)'
BY DEF StageInv, Stage, CallsFit, Working, CasesLeft, IsStorm, NewSession

LEMMA ConcludeStages ==
  ASSUME StageInv, PlacesInv', UNCHANGED <<env, job>>, NEW j \in Job,
         NEW failures \in SUBSET Checks, NEW trace \in Seq(Record), CasesLeft(j),
         Conclude(j, failures, trace), ~IsStorm(j) => Loadable(job[j].suite)
  PROVE  StageInv'
<1> DEFINE result == [failures |-> failures, trace |-> trace]
<1>1. result \in Result
  BY DEF Result
<1>2. results[j] \in Seq(Result)
  BY DEF StageInv
<1>3. /\ results' = [results EXCEPT ![j] = Append(results[j], result)]
      /\ queried' = [queried EXCEPT ![j] = NoSession]
      /\ pc' = [pc EXCEPT ![j] = "next"] /\ calls' = calls
  BY DEF Conclude, Goto
<1>4. /\ Append(results[j], result) \in Seq(Result)
      /\ Len(Append(results[j], result)) = Len(results[j]) + 1
      /\ Append(results[j], result) # <<>> /\ Len(results[j]) \in Nat
  BY <1>1, <1>2, AppendProperties, LenProperties
<1> HIDE DEF result
<1>5. /\ results' \in [Job -> Seq(Result)] /\ calls' \in [Job -> Nat]
      /\ queried' \in [Job -> Session \cup {NoSession}]
  BY <1>3, <1>4 DEF StageInv
<1>6. pc'[j] = "next" /\ results'[j] = Append(results[j], result) /\ calls'[j] = calls[j]
  BY <1>3 DEF StageInv, PlacesInv, RunnerTypes
<1>7. Stage(j)' /\ CallsFit(j)'
  <2>1. Len(job[j].suite) \in Nat
    BY JobFacts DEF StageInv
  <2> QED
    BY <1>4, <1>6, <2>1 DEF StageInv, Stage, CallsFit, Working, CasesLeft, IsStorm
<1>8. ASSUME NEW k \in Job, k # j PROVE Stage(k)' /\ CallsFit(k)'
  BY <1>3, <1>8, StageStays DEF StageInv, PlacesInv, RunnerTypes
<1> QED
  BY <1>5, <1>7, <1>8 DEF StageInv

\* A step of a job that gives no result.
LEMMA OthersStay ==
  ASSUME StageInv, PlacesInv', job' = job, results' = results, NEW j \in Job,
         queried' \in [Job -> Session \cup {NoSession}], calls' \in [Job -> Nat],
         \A k \in Job \ {j} : pc'[k] = pc[k] /\ queried'[k] = queried[k] /\ calls'[k] = calls[k],
         Stage(j)' /\ CallsFit(j)'
  PROVE  StageInv'
<1>1. ASSUME NEW k \in Job, k # j PROVE Stage(k)' /\ CallsFit(k)'
  BY <1>1, StageStays
<1> QED
  BY <1>1 DEF StageInv

LEMMA CaseFacts ==
  ASSUME StageInv, NEW j \in Job, CasesLeft(j)
  PROVE  /\ Len(results[j]) \in Nat /\ Len(results[j]) + 1 \in DOMAIN job[j].suite
         /\ ~IsStorm(j) => Case(j).input \in DOMAIN Written
         /\ IsStorm(j) => results[j] = <<>>
<1>1. Len(results[j]) \in Nat /\ (Len(results[j]) = 0 => results[j] = <<>>)
  BY EmptySeq, LenProperties DEF StageInv
<1>2. /\ job[j] \in Jobs /\ Len(job[j].suite) \in Nat
      /\ job[j].suite \in Seq(Range(job[j].suite))
      /\ IsStorm(j) => Len(job[j].suite) = 1
  BY JobFacts DEF StageInv
<1>3. DOMAIN job[j].suite = 1 .. Len(job[j].suite)
  BY <1>2, LenProperties
<1>4. Len(results[j]) + 1 \in DOMAIN job[j].suite
  BY <1>1, <1>2, <1>3 DEF CasesLeft
<1>5. ~IsStorm(j) => Case(j).input \in DOMAIN Written
  BY <1>2, <1>4, JobsAssumption DEF Case, IsStorm
<1> QED
  BY <1>1, <1>2, <1>4, <1>5 DEF CasesLeft

LEMMA JudgesWithChecks ==
  ASSUME NEW j, NEW rows
  PROVE  Judge(j, rows) \subseteq Checks
BY DEF Judge, Evaluate, Checks

-----------------------------------------------------------------------------
\* What gateway and log hold.

AnyRow ==
  { Row(StormTool, decision) : decision \in {"allow", "upstream_error", "budgetExceeded"} }
    \cup UNION { UNION { Range(rows) : rows \in Written[input] } : input \in DOMAIN Written }

\* How many cases may have a session; the others have not begun.
Begun(j) ==
  IF Working(j) \/ pc[j] = "ended" THEN Len(results[j]) + 1 ELSE Len(results[j])

Unused(j) == \A i \in 1 .. MaxCases : i > Begun(j) => plan[<<j, i>>] = <<>>

GatewayInv ==
  /\ Kept(Record) /\ Len(queue) <= Capacity /\ Len(worker) <= 1
  /\ lost \in BOOLEAN
  /\ plan \in [Session -> Seq(AnyRow)] /\ at \in [Session -> Nat]
  /\ \A s \in Session : at[s] <= Len(plan[s])
  /\ \A j \in Job : Unused(j)

LEMMA WrittenRows ==
  ASSUME NEW input \in DOMAIN Written, NEW rows \in Written[input]
  PROVE  rows \in Seq(AnyRow)
<1>1. Range(rows) \subseteq AnyRow
  BY DEF AnyRow
<1> QED
  BY <1>1, WrittenAssumption, SeqMonotone

LEMMA TraceRecords ==
  ASSUME GatewayInv, NEW s
  PROVE  Trace(s) \in Seq(Record)
BY TraceSelects DEF GatewayInv, Kept, Selects

-----------------------------------------------------------------------------
\* The stages are kept.

LEMMA StageOfQuietSteps ==
  ASSUME StageInv, GatewayInv, PlacesInv', NEW j \in Job, QuietStep(j)
  PROVE  StageInv'
<1>1. UNCHANGED <<env, job>>
  BY QuietStepsStay DEF constants
<1>2. /\ pc \in [Job -> Places] /\ Stage(j) /\ CallsFit(j)
      /\ queried \in [Job -> Session \cup {NoSession}] /\ calls \in [Job -> Nat]
      /\ results \in [Job -> Seq(Result)]
  BY DEF StageInv, PlacesInv, RunnerTypes
<1>3. ASSUME NEW place, NEW s \in Session \cup {NoSession}, Goto(j, place),
             UNCHANGED <<results, calls>>, queried' = [queried EXCEPT ![j] = s],
             Stage(j)' /\ CallsFit(j)'
      PROVE  StageInv'
  <2>1. \A k \in Job \ {j} : pc'[k] = pc[k] /\ queried'[k] = queried[k] /\ calls'[k] = calls[k]
    BY <1>2, <1>3 DEF Goto
  <2>2. queried' \in [Job -> Session \cup {NoSession}] /\ calls' \in [Job -> Nat]
    BY <1>2, <1>3
  <2> QED
    BY <1>1, <1>3, <2>1, <2>2, OthersStay
<1>4. ASSUME UNCHANGED <<results, queried, calls>>, NEW place, Goto(j, place),
             Stage(j)' /\ CallsFit(j)'
      PROVE  StageInv'
  <2>1. queried' = [queried EXCEPT ![j] = queried[j]] /\ queried[j] \in Session \cup {NoSession}
    BY <1>2, <1>4
  <2> QED
    BY <1>3, <1>4, <2>1
<1>5. ASSUME RunFails(j), CasesLeft(j), ~IsStorm(j) => Loadable(job[j].suite) PROVE StageInv'
  <2>1. {"run"} \in SUBSET Checks /\ <<>> \in Seq(Record)
    BY EmptySeq DEF Checks
  <2> QED
    BY <1>1, <1>5, <2>1, ConcludeStages DEF RunFails
<1>6. /\ pc[j] \in {"triggered", "storm", "called", "poll"} => CasesLeft(j)
      /\ pc[j] = "check" => CasesLeft(j) /\ ~IsStorm(j)
      /\ pc[j] \notin {"idle", "ended"} /\ ~IsStorm(j) => Loadable(job[j].suite)
  <2>1. \A r \in Seq(Result) : r = <<>> => Len(r) = 0
    BY EmptySeq
  <2>2. CASE pc[j] = "check"
    <3>1. results[j] = <<>> /\ Len(job[j].suite) = 1 /\ results[j] \in Seq(Result)
      BY <1>2, <2>2 DEF Stage
    <3>2. Len(results[j]) = 0
      BY <2>1, <3>1
    <3> QED
      BY <1>2, <2>2, <3>1, <3>2 DEF Stage, Working, CasesLeft
  <2> QED
    BY <1>2, <2>2 DEF Stage, Working
<1>7. <<>> \in Seq(Record) /\ {"precondition"} \in SUBSET Checks /\ {"policyOutcome"} \in SUBSET Checks
  BY EmptySeq DEF Checks
<1>8. ASSUME NEW place, place \in {"up", "next", "poll", "down", "ended", "check", "storm"}, Goto(j, place)
      PROVE  pc'[j] = place
  BY <1>2, <1>8 DEF Goto
<1>9. CASE BeginCli(j)
  <2>1. UNCHANGED <<results, queried, calls>> /\ pc[j] = "idle" /\ IsCli(j) /\ ~IsStorm(j)
    BY <1>9 DEF BeginCli, IsCli, IsStorm
  <2>2. CASE Loadable(job[j].suite) /\ Goto(j, "up")
    <3>1. Stage(j)' /\ CallsFit(j)'
      BY <1>1, <1>2, <1>8, <2>1, <2>2 DEF Stage, CallsFit, Working, CasesLeft, IsStorm
    <3> QED
      BY <1>4, <2>1, <2>2, <3>1
  <2>3. CASE Goto(j, "ended")
    <3>1. Stage(j)' /\ CallsFit(j)'
      BY <1>1, <1>2, <1>8, <2>1, <2>3 DEF Stage, CallsFit, Working, CasesLeft, IsStorm
    <3> QED
      BY <1>4, <2>1, <2>3, <3>1
  <2> QED
    BY <1>9, <2>2, <2>3 DEF BeginCli, End
<1>10. CASE BeginRequest(j)
  <2>1. UNCHANGED <<results, queried, calls>> /\ pc[j] = "idle"
    BY <1>10 DEF BeginRequest
  <2>2. ASSUME NEW place \in {"next", "ended", "check"}, Goto(j, place),
               place = "next" => IsStorm(j) \/ Loadable(job[j].suite),
               place = "check" => job[j].precondition /\ Loadable(job[j].suite)
        PROVE  StageInv'
    <3>1. place = "check" => Len(job[j].suite) = 1 /\ ~IsStorm(j)
      BY <2>2, JobFacts DEF StageInv
    <3>2. Stage(j)' /\ CallsFit(j)'
      BY <1>1, <1>2, <1>8, <2>1, <2>2, <3>1 DEF Stage, CallsFit, Working, CasesLeft, IsStorm
    <3> QED
      BY <1>4, <2>1, <2>2, <3>2
  <2>3. \/ Goto(j, "next") /\ (IsStorm(j) \/ Loadable(job[j].suite))
        \/ Goto(j, "ended")
        \/ Goto(j, "check") /\ job[j].precondition /\ Loadable(job[j].suite)
    BY <1>10, JobFacts DEF BeginRequest, IsStorm, StageInv
  <2> QED
    BY <2>2, <2>3
<1>11. CASE CheckPrecondition(j)
  <2>1. CASE Goto(j, "next") /\ UNCHANGED <<results, queried, calls>>
    <3>1. Stage(j)' /\ CallsFit(j)'
      BY <1>1, <1>2, <1>6, <1>8, <1>11, <2>1
         DEF CheckPrecondition, Stage, CallsFit, Working, CasesLeft, IsStorm
    <3> QED
      BY <1>4, <2>1, <3>1
  <2>2. CASE Conclude(j, {"precondition"}, <<>>)
    <3>1. pc[j] = "check"
      BY <1>11 DEF CheckPrecondition
    <3>2. CasesLeft(j) /\ (~IsStorm(j) => Loadable(job[j].suite))
      BY <1>6, <3>1
    <3> QED
      BY <1>1, <1>7, <2>2, <3>2, ConcludeStages
  <2> QED
    BY <1>11, <2>1, <2>2 DEF CheckPrecondition
<1>12. CASE Connect(j) \/ Finish(j) \/ StreamBreaks(j)
  <2>1. /\ UNCHANGED <<results, queried, calls>> /\ pc[j] \in {"connect", "next"}
        /\ pc[j] = "connect" => ~IsStorm(j)
    BY <1>12 DEF Connect, Finish, StreamBreaks, StageInv, PlacesInv, CliPlaces, IsCli, IsStorm
  <2>2. PICK place \in {"next", "down", "ended"} : Goto(j, place) /\ (place = "next" => pc[j] = "connect")
    BY <1>12 DEF Connect, Finish, StreamBreaks
  <2>3. Stage(j)' /\ CallsFit(j)'
    BY <1>1, <1>2, <1>6, <1>8, <2>1, <2>2 DEF Stage, CallsFit, Working, CasesLeft, IsStorm
  <2> QED
    BY <1>4, <2>1, <2>2, <2>3
<1>13. CASE TriggerReturns(j)
  <2>1. UNCHANGED <<results, calls>> /\ pc[j] = "triggered" /\ Goto(j, "poll")
    BY <1>13 DEF TriggerReturns
  <2>2. PICK s \in {NewSession(j), NoSession} : queried' = [queried EXCEPT ![j] = s]
    BY <1>13 DEF TriggerReturns
  <2>3. s \in Session \cup {NoSession} /\ queried'[j] = s
    BY <1>2, <1>6, <2>1, <2>2, NewSessions
  <2>4. Stage(j)' /\ CallsFit(j)'
    BY <1>1, <1>2, <1>6, <1>8, <2>1, <2>2, <2>3
       DEF Stage, CallsFit, Working, CasesLeft, IsStorm, NewSession
  <2> QED
    BY <1>3, <2>1, <2>2, <2>3, <2>4
<1>14. CASE TriggerFails(j) \/ PollFails(j) \/ StormFails(j)
  <2>1. RunFails(j) /\ CasesLeft(j) /\ pc[j] \notin {"idle", "ended"}
    BY <1>6, <1>14 DEF TriggerFails, PollFails, StormFails
  <2> QED
    BY <1>5, <1>6, <2>1
<1>15. CASE StormBegins(j)
  <2>1. pc[j] = "next" /\ CasesLeft(j) /\ IsStorm(j)
    BY <1>15 DEF StormBegins, IsStorm
  <2>2. CASE /\ queried' = [queried EXCEPT ![j] = NewSession(j)] /\ Goto(j, "storm")
             /\ UNCHANGED <<results, calls>>
    <3>1. NewSession(j) \in Session /\ queried'[j] = NewSession(j) /\ results[j] = <<>>
      BY <1>2, <2>1, <2>2, NewSessions, CaseFacts
    <3>2. Stage(j)' /\ CallsFit(j)'
      BY <1>1, <1>2, <1>8, <2>1, <2>2, <3>1, StormAssumption
         DEF Stage, CallsFit, Working, CasesLeft, IsStorm, NewSession
    <3> QED
      BY <1>3, <2>2, <3>1, <3>2
  <2>3. CASE RunFails(j)
    BY <1>5, <2>1, <2>3
  <2> QED
    BY <1>15, <2>2, <2>3 DEF StormBegins
<1>16. CASE StormReturns(j)
  <2>1. pc[j] = "called" /\ CasesLeft(j) /\ IsStorm(j)
    BY <1>2, <1>6, <1>16 DEF StormReturns, Respond, Stage
  <2>2. CASE Conclude(j, {"policyOutcome"}, <<>>)
    BY <1>1, <1>7, <2>1, <2>2, ConcludeStages
  <2>3. CASE UNCHANGED <<results, queried, calls>> /\ Goto(j, "poll")
    <3>1. Stage(j)' /\ CallsFit(j)'
      BY <1>1, <1>2, <1>8, <2>1, <2>3 DEF Stage, CallsFit, Working, CasesLeft, IsStorm, NewSession
    <3> QED
      BY <1>4, <2>3, <3>1
  <2>4. CASE UNCHANGED <<results, queried, calls>> /\ calls[j] < StormCalls /\ Goto(j, "storm")
    <3>1. Stage(j)' /\ CallsFit(j)'
      BY <1>1, <1>2, <1>8, <2>1, <2>4 DEF Stage, CallsFit, Working, CasesLeft, IsStorm, NewSession
    <3> QED
      BY <1>4, <2>4, <3>1
  <2> QED
    BY <1>16, <2>2, <2>3, <2>4 DEF StormReturns, Respond
<1>17. CASE Query(j)
  <2>1. /\ pc[j] = "poll"
        /\ Conclude(j, Judge(j, Rows(Trace(queried[j]))), Trace(queried[j]))
    BY <1>17 DEF Query
  <2>2. Judge(j, Rows(Trace(queried[j]))) \in SUBSET Checks
    BY JudgesWithChecks
  <2>3. Trace(queried[j]) \in Seq(Record)
    BY TraceRecords
  <2> QED
    BY <1>1, <1>6, <2>1, <2>2, <2>3, ConcludeStages
<1> QED
  BY <1>9, <1>10, <1>11, <1>12, <1>13, <1>14, <1>15, <1>16, <1>17 DEF QuietStep

LEMMA StageInductive ==
  ASSUME StageInv, GatewayInv, [Next]_vars
  PROVE  StageInv'
<1>1. PlacesInv'
  BY PlacesInductive DEF StageInv
<1>2. /\ pc \in [Job -> Places] /\ \A j \in Job : Stage(j) /\ CallsFit(j)
      /\ queried \in [Job -> Session \cup {NoSession}] /\ calls \in [Job -> Nat]
      /\ results \in [Job -> Seq(Result)]
  BY DEF StageInv, PlacesInv, RunnerTypes
<1>3. ASSUME UNCHANGED <<job, results, queried, calls>>,
             \A j \in Job : pc'[j] = pc[j] \/ (pc'[j] = "ended" /\ pc[j] # "idle")
      PROVE  StageInv'
  <2>1. \A j \in Job : Stage(j)' /\ CallsFit(j)'
    BY <1>3, StageStays
  <2> QED
    BY <1>1, <1>2, <1>3, <2>1 DEF StageInv
<1>4. ASSUME NEW j \in Job, QuietStep(j) PROVE StageInv'
  BY <1>1, <1>4, StageOfQuietSteps
<1>5. ASSUME NEW j \in Job, ComposeUp(j) PROVE StageInv'
  <2>1. UNCHANGED <<job, results, queried, calls>> /\ pc[j] = "up" /\ ~IsStorm(j)
    BY <1>1, <1>5 DEF ComposeUp, constants, StageInv, PlacesInv, CliPlaces, IsCli, IsStorm
  <2>2. PICK place \in {"connect", "ended"} : Goto(j, place)
    BY <1>5 DEF ComposeUp, End
  <2>3. pc'[j] = place /\ \A k \in Job \ {j} : pc'[k] = pc[k]
    BY <1>2, <2>2 DEF Goto
  <2>4. Stage(j)' /\ CallsFit(j)'
    BY <1>2, <2>1, <2>2, <2>3 DEF Stage, CallsFit, Working, CasesLeft, IsStorm
  <2> QED
    BY <1>1, <1>2, <2>1, <2>3, <2>4, OthersStay
<1>6. ASSUME NEW j \in Job, ComposeDown(j) PROVE StageInv'
  <2>1. UNCHANGED <<job, results, queried, calls>> /\ pc[j] = "down"
    BY <1>6 DEF ComposeDown, constants
  <2>2. \A k \in Job : pc'[k] = pc[k] \/ (pc'[k] = "ended" /\ pc[k] # "idle")
    BY <1>2, <1>6, <2>1 DEF ComposeDown, Stopped, Active, End, Goto
  <2> QED
    BY <1>3, <2>1, <2>2
<1>7. ASSUME NEW j \in Job, Trigger(j) PROVE StageInv'
  <2>1. /\ UNCHANGED <<job, results, queried, calls>> /\ pc[j] = "next" /\ CasesLeft(j)
        /\ ~IsStorm(j) /\ Goto(j, "triggered")
    BY <1>7 DEF Trigger, constants, IsStorm
  <2>2. pc'[j] = "triggered" /\ \A k \in Job \ {j} : pc'[k] = pc[k]
    BY <1>2, <2>1 DEF Goto
  <2>3. Stage(j)' /\ CallsFit(j)'
    BY <1>2, <2>1, <2>2 DEF Stage, CallsFit, Working, CasesLeft, IsStorm
  <2> QED
    BY <1>1, <1>2, <2>1, <2>2, <2>3, OthersStay
<1>8. ASSUME NEW j \in Job, StormCall(j) PROVE StageInv'
  <2>1. /\ UNCHANGED <<job, results, queried>> /\ pc[j] = "storm" /\ Goto(j, "called")
        /\ calls' = [calls EXCEPT ![j] = calls[j] + 1]
    BY <1>8 DEF StormCall, constants
  <2>2. /\ pc'[j] = "called" /\ calls'[j] = calls[j] + 1 /\ calls' \in [Job -> Nat]
        /\ \A k \in Job \ {j} : pc'[k] = pc[k] /\ calls'[k] = calls[k]
    BY <1>2, <2>1 DEF Goto
  <2>3. Stage(j)' /\ CallsFit(j)'
    BY <1>2, <2>1, <2>2, StormAssumption
       DEF Stage, CallsFit, Working, CasesLeft, IsStorm, NewSession
  <2> QED
    BY <1>1, <1>2, <2>1, <2>2, <2>3, OthersStay
<1>9. CASE AuditStep \/ UNCHANGED vars \/ \E s \in Session : GatewayWrites(s)
  BY <1>3, <1>9 DEF AuditStep, AuditTakes, AuditInserts, AuditFails, GatewayWrites, vars,
     runnerVars, constants
<1>10. ASSUME NEW j \in Job, Disconnect(j) PROVE StageInv'
  BY <1>3, <1>10 DEF Disconnect, runnerVars, constants
<1> QED
  BY <1>4, <1>5, <1>6, <1>7, <1>8, <1>9, <1>10, Steps

LEMMA StageInitially == Init => StageInv
<1> SUFFICES ASSUME Init PROVE StageInv
  OBVIOUS
<1>1. /\ results = [j \in Job |-> <<>>] /\ calls = [j \in Job |-> 0]
      /\ queried = [j \in Job |-> NoSession] /\ pc = [j \in Job |-> "idle"]
  BY DEF Init
<1>2. PlacesInv
  BY PlacesInitially
<1>3. <<>> \in Seq(Result) /\ \A r \in Seq(Result) : r = <<>> => Len(r) = 0
  BY EmptySeq
<1>4. ASSUME NEW j \in Job PROVE Stage(j) /\ CallsFit(j)
  <2>1. results[j] = <<>> /\ calls[j] = 0 /\ pc[j] = "idle" /\ Len(results[j]) = 0
    BY <1>1, <1>3
  <2>2. Len(job[j].suite) \in Nat
    BY <1>2, JobFacts
  <2> QED
    BY <2>1, <2>2, StormAssumption DEF Stage, CallsFit, Working
<1> QED
  BY <1>1, <1>2, <1>3, <1>4 DEF StageInv

-----------------------------------------------------------------------------
\* What gateway and log hold is kept.

LEMMA BegunGrows ==
  ASSUME StageInv, [Next]_vars, NEW k \in Job
  PROVE  Begun(k) \in Nat /\ Begun(k)' \in Nat /\ Begun(k)' >= Begun(k)
<1>1. /\ pc \in [Job -> Places] /\ Stage(k) /\ results \in [Job -> Seq(Result)]
  BY DEF StageInv, PlacesInv, RunnerTypes
<1>2. results[k] \in Seq(Result) /\ Len(results[k]) \in Nat
  BY <1>1, LenProperties
<1>3. ASSUME results'[k] = results[k],
             (Working(k) \/ pc[k] = "ended") => (Working(k)' \/ pc'[k] = "ended")
      PROVE  Begun(k) \in Nat /\ Begun(k)' \in Nat /\ Begun(k)' >= Begun(k)
  BY <1>2, <1>3 DEF Begun
<1>4. ASSUME NEW j \in Job, NEW failures, NEW trace, Conclude(j, failures, trace), pc[j] # "ended"
      PROVE  Begun(k) \in Nat /\ Begun(k)' \in Nat /\ Begun(k)' >= Begun(k)
  <2>1. CASE j = k
    <3> DEFINE result == [failures |-> failures, trace |-> trace]
    <3>1. results'[k] = Append(results[k], result)
      BY <1>1, <1>4, <2>1 DEF Conclude
    <3>2. Len(Append(results[k], result)) = Len(results[k]) + 1
      BY <1>2
    <3> HIDE DEF result
    <3> QED
      BY <1>2, <1>4, <2>1, <3>1, <3>2 DEF Begun
  <2>2. CASE j # k
    <3>1. results'[k] = results[k] /\ pc'[k] = pc[k]
      BY <1>1, <1>4, <2>2 DEF Conclude, Goto
    <3> QED
      BY <1>3, <3>1 DEF Working
  <2> QED
    BY <2>1, <2>2
<1>5. ASSUME NEW j \in Job, NEW place, Goto(j, place), results' = results,
             (Working(j) \/ pc[j] = "ended") => place \in {"triggered", "storm", "called", "poll", "ended"}
      PROVE  Begun(k) \in Nat /\ Begun(k)' \in Nat /\ Begun(k)' >= Begun(k)
  <2>1. pc'[k] = IF k = j THEN place ELSE pc[k]
    BY <1>1, <1>5 DEF Goto
  <2> QED
    BY <1>3, <1>5, <2>1 DEF Working
<1> USE DEF Working
<1>6. ASSUME NEW j \in Job, BeginCli(j) \/ BeginRequest(j) \/ Connect(j) \/ Finish(j) \/ StreamBreaks(j)
      PROVE  \E place : Goto(j, place) /\ results' = results /\ ~Working(j) /\ pc[j] # "ended"
  BY <1>6 DEF BeginCli, BeginRequest, Connect, Finish, StreamBreaks, End
<1>7. ASSUME NEW j \in Job, CheckPrecondition(j)
      PROVE  Begun(k) \in Nat /\ Begun(k)' \in Nat /\ Begun(k)' >= Begun(k)
  BY <1>4, <1>5, <1>7 DEF CheckPrecondition
<1>8. ASSUME NEW j \in Job, TriggerFails(j) \/ PollFails(j) \/ StormFails(j) \/ Query(j)
      PROVE  Begun(k) \in Nat /\ Begun(k)' \in Nat /\ Begun(k)' >= Begun(k)
  <2>1. pc[j] # "ended"
    BY <1>8 DEF TriggerFails, PollFails, StormFails, Query
  <2>2. CASE TriggerFails(j) \/ PollFails(j) \/ StormFails(j)
    <3>1. Conclude(j, {"run"}, <<>>)
      BY <2>2 DEF TriggerFails, PollFails, StormFails, RunFails
    <3> QED
      BY <1>4, <2>1, <3>1
  <2>3. CASE Query(j)
    BY <1>4, <2>1, <2>3 DEF Query
  <2> QED
    BY <1>8, <2>2, <2>3
<1>9. ASSUME NEW j \in Job, TriggerReturns(j) \/ StormBegins(j) \/ StormReturns(j)
      PROVE  Begun(k) \in Nat /\ Begun(k)' \in Nat /\ Begun(k)' >= Begun(k)
  <2>1. pc[j] # "ended"
    BY <1>9 DEF TriggerReturns, StormBegins, StormReturns, Respond
  <2>2. \/ Goto(j, "poll") /\ results' = results
        \/ Goto(j, "storm") /\ results' = results
        \/ Conclude(j, {"run"}, <<>>)
        \/ Conclude(j, {"policyOutcome"}, <<>>)
    BY <1>9 DEF TriggerReturns, StormBegins, StormReturns, Respond, RunFails
  <2> QED
    BY <1>4, <1>5, <2>1, <2>2
<1>10. ASSUME NEW j \in Job, ComposeUp(j) \/ Trigger(j) \/ StormCall(j)
       PROVE  Begun(k) \in Nat /\ Begun(k)' \in Nat /\ Begun(k)' >= Begun(k)
  <2>1. \/ Goto(j, "triggered") /\ results' = results
        \/ Goto(j, "called") /\ results' = results
        \/ pc[j] = "up" /\ (Goto(j, "connect") \/ Goto(j, "ended")) /\ results' = results
    BY <1>10 DEF ComposeUp, Trigger, StormCall, End
  <2> QED
    BY <1>5, <2>1
<1>11. ASSUME NEW j \in Job, ComposeDown(j)
       PROVE  Begun(k) \in Nat /\ Begun(k)' \in Nat /\ Begun(k)' >= Begun(k)
  <2>1. results' = results /\ (pc'[k] = pc[k] \/ pc'[k] = "ended")
    BY <1>1, <1>11 DEF ComposeDown, End, Goto
  <2> QED
    BY <1>3, <2>1
<1>12. CASE \/ AuditStep \/ UNCHANGED vars
            \/ (\E s \in Session : GatewayWrites(s)) \/ (\E j \in Job : Disconnect(j))
  BY <1>3, <1>12 DEF AuditStep, AuditTakes, AuditInserts, AuditFails, GatewayWrites, vars,
     runnerVars, Disconnect
<1>13. ASSUME NEW j \in Job, QuietStep(j)
       PROVE  Begun(k) \in Nat /\ Begun(k)' \in Nat /\ Begun(k)' >= Begun(k)
  BY <1>5, <1>6, <1>7, <1>8, <1>9, <1>13 DEF QuietStep
<1> QED
  BY <1>10, <1>11, <1>12, <1>13, Steps

LEMMA StormRowsFit ==
  ASSUME NEW old, NEW rows \in StormRows(old)
  PROVE  rows \in Seq(AnyRow)
<1>1. \A a, b \in AnyRow : <<a>> \in Seq(AnyRow) /\ <<a, b>> \in Seq(AnyRow)
  OBVIOUS
<1> DEFINE R(decision) == Row(StormTool, decision)
<1>2. R("allow") \in AnyRow /\ R("upstream_error") \in AnyRow /\ R("budgetExceeded") \in AnyRow
  BY DEF AnyRow
<1>3. rows \in { <<R("budgetExceeded")>>, <<R("allow")>>, <<R("upstream_error")>>,
                 <<R("allow"), R("upstream_error")>> }
  BY DEF StormRows
<1> HIDE DEF R
<1> QED
  BY <1>1, <1>2, <1>3

\* What the gateway has written stays.
LEMMA GatewayMoves ==
  ASSUME StageInv, GatewayInv, [Next]_vars
  PROVE  /\ plan' \in [Session -> Seq(AnyRow)] /\ at' \in [Session -> Nat]
         /\ \A s \in Session :
              /\ at[s] <= at'[s] /\ at'[s] <= Len(plan'[s])
              /\ \A n \in 1 .. at[s] : plan'[s][n] = plan[s][n]
<1>1. /\ plan \in [Session -> Seq(AnyRow)] /\ at \in [Session -> Nat]
      /\ \A s \in Session : at[s] <= Len(plan[s])
  BY DEF GatewayInv
<1>2. \A s \in Session : at[s] \in Nat /\ plan[s] \in Seq(AnyRow) /\ Len(plan[s]) \in Nat
  BY <1>1
<1>3. CASE UNCHANGED gatewayVars
  BY <1>1, <1>2, <1>3 DEF gatewayVars
<1> DEFINE Moves(s) ==
             /\ at[s] <= at'[s] /\ at'[s] <= Len(plan'[s])
             /\ \A n \in 1 .. at[s] : plan'[s][n] = plan[s][n]
           Goal ==
             /\ plan' \in [Session -> Seq(AnyRow)] /\ at' \in [Session -> Nat]
             /\ \A s \in Session : Moves(s)
<1>4. ASSUME NEW j \in Job, Trigger(j) PROVE Goal
  <2>1. pc[j] = "next" /\ CasesLeft(j) /\ ~IsStorm(j) /\ at' = at
    BY <1>4 DEF Trigger, IsStorm
  <2>2. PICK rows \in Written[Case(j).input] : plan' = [plan EXCEPT ![NewSession(j)] = rows]
    BY <1>4 DEF Trigger
  <2>3. rows \in Seq(AnyRow)
    BY <2>1, <2>2, CaseFacts, WrittenRows
  <2>4. NewSession(j) \in Session
    BY <2>1, NewSessions
  <2>5. at[NewSession(j)] = 0
    <3>1. Len(results[j]) \in Nat /\ Len(results[j]) + 1 \in 1 .. MaxCases
      BY <2>1, <2>4, CaseFacts DEF NewSession, Session
    <3>2. plan[NewSession(j)] = <<>>
      BY <2>1, <3>1 DEF GatewayInv, Unused, Begun, Working, NewSession
    <3> QED
      BY <1>1, <1>2, <2>4, <3>2, EmptySeq
  <2>6. ASSUME NEW s \in Session PROVE Moves(s)
    <3>1. CASE s = NewSession(j)
      <4>1. at'[s] = 0 /\ at[s] = 0 /\ plan'[s] = rows /\ Len(rows) \in Nat
        BY <1>1, <2>1, <2>2, <2>3, <2>5, <3>1
      <4> QED
        BY <4>1
    <3>2. CASE s # NewSession(j)
      BY <1>1, <1>2, <2>1, <2>2, <3>2
    <3> QED
      BY <3>1, <3>2
  <2>7. plan' \in [Session -> Seq(AnyRow)]
    BY <1>1, <2>2, <2>3
  <2> QED
    BY <1>1, <2>1, <2>6, <2>7
<1>5. ASSUME NEW j \in Job, StormCall(j) PROVE Goal
  <2> DEFINE q == queried[j]
  <2>1. at' = at
    BY <1>5 DEF StormCall
  <2>2. PICK rows \in StormRows(plan[q]) : plan' = [plan EXCEPT ![q] = plan[q] \o rows]
    BY <1>5 DEF StormCall
  <2>3. rows \in Seq(AnyRow)
    BY <2>2, StormRowsFit
  <2>4. ASSUME NEW s \in Session PROVE Moves(s)
    <3>1. CASE s = q
      <4>1. plan'[s] = plan[s] \o rows
        BY <1>1, <2>2, <3>1
      <4>2. /\ Len(plan[s] \o rows) = Len(plan[s]) + Len(rows)
            /\ Len(rows) \in Nat
            /\ \A n \in 1 .. Len(plan[s]) : (plan[s] \o rows)[n] = plan[s][n]
        BY <1>2, <2>3, ConcatProperties
      <4> QED
        BY <1>1, <1>2, <2>1, <4>1, <4>2
    <3>2. CASE s # q
      BY <1>1, <1>2, <2>1, <2>2, <3>2
    <3> QED
      BY <3>1, <3>2
  <2>5. plan' \in [Session -> Seq(AnyRow)]
    BY <1>1, <1>2, <2>2, <2>3, ConcatProperties
  <2> QED
    BY <1>1, <2>1, <2>4, <2>5
<1>6. ASSUME ServicesStop PROVE Goal
  <2>1. plan' = [s \in Session |-> SubSeq(plan[s], 1, at[s])] /\ at' = at
    BY <1>6 DEF ServicesStop
  <2>2. ASSUME NEW s \in Session PROVE Moves(s) /\ plan'[s] \in Seq(AnyRow)
    <3>1. plan'[s] = SubSeq(plan[s], 1, at[s]) /\ \A i \in 1 .. at[s] : plan[s][i] \in AnyRow
      BY <1>1, <1>2, <2>1
    <3>2. /\ plan'[s] \in Seq(AnyRow) /\ Len(plan'[s]) = at[s]
          /\ \A n \in 1 .. at[s] : plan'[s][n] = plan[s][n]
      BY <1>1, <1>2, <3>1, SubSeqProperties
    <3> QED
      BY <1>2, <2>1, <3>2
  <2>3. plan' \in [Session -> Seq(AnyRow)]
    BY <2>1, <2>2
  <2> QED
    BY <1>1, <2>1, <2>2, <2>3
<1>7. ASSUME NEW s \in Session, GatewayWrites(s) PROVE Goal
  <2>1. plan' = plan /\ at' = [at EXCEPT ![s] = at[s] + 1] /\ at[s] < Len(plan[s])
    BY <1>7 DEF GatewayWrites
  <2> QED
    BY <1>1, <1>2, <2>1
<1>8. UNCHANGED gatewayVars => Goal
  BY <1>3
<1>9. ASSUME NEW j \in Job, ComposeUp(j) \/ ComposeDown(j) PROVE Goal
  BY <1>6, <1>8, <1>9 DEF ComposeUp, ComposeDown
<1>10. ASSUME NEW j \in Job, QuietStep(j) PROVE Goal
  <2>1. UNCHANGED gatewayVars
    BY <1>10, QuietStepsStay
  <2> QED
    BY <1>8, <2>1
<1>11. ASSUME AuditStep \/ UNCHANGED vars \/ \E j \in Job : Disconnect(j) PROVE Goal
  BY <1>8, <1>11 DEF AuditStep, AuditTakes, AuditInserts, AuditFails, vars, Disconnect
<1> HIDE DEF Goal
<1>12. Goal
  BY <1>4, <1>5, <1>7, <1>9, <1>10, <1>11, Steps
<1> QED
  BY <1>12 DEF Goal

LEMMA KeptMoves ==
  ASSUME StageInv, GatewayInv, [Next]_vars
  PROVE  /\ Kept(Record)' /\ Len(queue') <= Capacity /\ Len(worker') <= 1
         /\ lost' \in BOOLEAN
<1> DEFINE Goal ==
             /\ Kept(Record)' /\ Len(queue') <= Capacity /\ Len(worker') <= 1
             /\ lost' \in BOOLEAN
<1>1. /\ Kept(Record) /\ Len(queue) <= Capacity /\ Len(worker) <= 1
      /\ lost \in BOOLEAN /\ at \in [Session -> Nat]
  BY DEF GatewayInv
<1>2. ASSUME UNCHANGED auditVars \/ Take \/ Insert \/ InsertFails, lost' \in {lost, TRUE} PROVE Goal
  <2>1. Kept(Record)' /\ Len(queue') <= Capacity /\ Len(worker') <= 1
    BY <1>1, <1>2, AuditKeeps
  <2> QED
    BY <1>1, <1>2, <2>1
<1>3. ASSUME UNCHANGED auditVars, lost' = lost PROVE Goal
  BY <1>2, <1>3
<1>4. ASSUME ServicesStop PROVE Goal
  <2>1. queue' = <<>> /\ worker' = <<>> /\ auditLog' = <<>> /\ lost' = TRUE
    BY <1>4 DEF ServicesStop
  <2>2. <<>> \in Seq(Record) /\ Len(<<>>) = 0
    OBVIOUS
  <2> QED
    BY <2>1, <2>2, CapacityAssumption DEF Kept
<1>5. ASSUME NEW s \in Session, GatewayWrites(s) PROVE Goal
  <2> DEFINE r == [session |-> s, nr |-> at[s] + 1]
  <2>1. r \in Record
    BY <1>1 DEF Record
  <2>2. Write(r) /\ UNCHANGED <<worker, auditLog>> /\ lost' = (lost \/ Full)
    BY <1>5 DEF GatewayWrites
  <2> HIDE DEF r
  <2>3. Kept(Record)' /\ Len(queue') <= Capacity /\ Len(worker') <= 1
    BY <1>1, <2>1, <2>2, AuditKeeps
  <2>4. lost' \in BOOLEAN
    BY <2>2
  <2> QED
    BY <2>3, <2>4
<1> HIDE DEF Goal
<1>6. ASSUME NEW j \in Job, QuietStep(j) PROVE Goal
  <2>1. UNCHANGED auditVars /\ lost' = lost
    BY <1>6, QuietStepsStay
  <2> QED
    BY <1>3, <2>1
<1>7. ASSUME NEW j \in Job, ComposeUp(j) \/ ComposeDown(j) PROVE Goal
  BY <1>3, <1>4, <1>7 DEF ComposeUp, ComposeDown
<1>8. ASSUME NEW j \in Job, Trigger(j) \/ StormCall(j) \/ Disconnect(j) PROVE Goal
  BY <1>3, <1>8 DEF Trigger, StormCall, Disconnect
<1>9. ASSUME AuditStep PROVE Goal
  BY <1>2, <1>9 DEF AuditStep, AuditTakes, AuditInserts, AuditFails
<1>10. ASSUME UNCHANGED vars PROVE Goal
  BY <1>3, <1>10 DEF vars
<1>11. Goal
  BY <1>5, <1>6, <1>7, <1>8, <1>9, <1>10, Steps
<1> QED
  BY <1>11 DEF Goal

LEMMA GatewayInductive ==
  ASSUME StageInv, GatewayInv, [Next]_vars
  PROVE  GatewayInv'
<1>1. ASSUME NEW j \in Job PROVE Unused(j)'
  <2> SUFFICES ASSUME NEW i \in 1 .. MaxCases, i > Begun(j)' PROVE plan'[<<j, i>>] = <<>>
    BY DEF Unused
  <2>1. <<j, i>> \in Session /\ i > Begun(j)
    BY BegunGrows DEF Session
  <2>2. plan[<<j, i>>] = <<>>
    BY <2>1 DEF GatewayInv, Unused
  <2> DEFINE s == <<j, i>>
  <2>3. CASE UNCHANGED plan
    BY <2>2, <2>3
  <2>4. ASSUME NEW k \in Job, Trigger(k) \/ StormCall(k), s # NewSession(k) PROVE plan'[s] = plan[s]
    <3>1. plan \in [Session -> Seq(AnyRow)]
      BY DEF GatewayInv
    <3>2. CASE Trigger(k)
      BY <2>1, <2>4, <3>1, <3>2 DEF Trigger
    <3>3. CASE StormCall(k)
      <4>1. queried[k] = NewSession(k)
        BY <3>3 DEF StormCall, StageInv, Stage
      <4> QED
        BY <2>1, <2>4, <3>1, <3>3, <4>1 DEF StormCall
    <3> QED
      BY <2>4, <3>2, <3>3
  <2>5. ASSUME NEW k \in Job, Trigger(k) \/ StormCall(k) PROVE s # NewSession(k)
    <3>1. k # j \/ NewSession(k) # <<j, i>>
      <4> SUFFICES ASSUME k = j PROVE i # Len(results[k]) + 1
        BY DEF NewSession
      <4>1. Begun(j)' = Len(results[j]) + 1
        BY <2>5 DEF Trigger, StormCall, Goto, Begun, Working, StageInv, PlacesInv, RunnerTypes
      <4> QED
        BY <4>1, BegunGrows
    <3> QED
      BY <3>1 DEF NewSession
  <2>6. ASSUME ServicesStop PROVE plan'[s] = <<>>
    <3>1. plan'[s] = SubSeq(<<>>, 1, at[s]) /\ at[s] = 0
      <4>1. at[s] \in Nat /\ at[s] <= Len(plan[s]) /\ plan[s] = <<>>
        BY <2>1, <2>2 DEF GatewayInv
      <4> QED
        BY <2>1, <2>6, <4>1 DEF ServicesStop
    <3> QED
      BY <3>1, SubSeqEmpty
  <2>7. ASSUME NEW k \in Job, ComposeUp(k) \/ ComposeDown(k) PROVE plan'[s] = <<>>
    BY <2>2, <2>6, <2>7 DEF ComposeUp, ComposeDown, gatewayVars
  <2>8. ASSUME NEW k \in Job, QuietStep(k) PROVE UNCHANGED plan
    BY <2>8, QuietStepsStay DEF gatewayVars
  <2>9. CASE \/ AuditStep \/ UNCHANGED vars \/ (\E k \in Job : Disconnect(k))
             \/ (\E t \in Session : GatewayWrites(t))
    BY <2>3, <2>9 DEF AuditStep, AuditTakes, AuditInserts, AuditFails, vars, gatewayVars,
       Disconnect, GatewayWrites
  <2> QED
    BY <2>2, <2>3, <2>4, <2>5, <2>7, <2>8, <2>9, Steps
<1> QED
  BY <1>1, GatewayMoves, KeptMoves DEF GatewayInv

-----------------------------------------------------------------------------
\* Records are of rows that have been written, and those of a session in their order;
\* all rows have one as long as none is lost.

Within == \A i \in 1 .. Len(Records) : Records[i].nr \in 1 .. at[Records[i].session]

Ordered(records) ==
  \A i, k \in 1 .. Len(records) :
    i < k /\ records[i].session = records[k].session => records[i].nr < records[k].nr

Complete ==
  \A s \in Session : \A n \in 1 .. at[s] :
    \E i \in 1 .. Len(Records) : Records[i] = [session |-> s, nr |-> n]

RecordsInv == Within /\ Ordered(Records) /\ (~lost => Complete)

LEMMA RecordsStay ==
  ASSUME RecordsInv, Records' = Records, at' = at, lost \in BOOLEAN, lost' \in {lost, TRUE}
  PROVE  RecordsInv'
BY DEF RecordsInv, Within, Ordered, Complete

LEMMA RecordAdded ==
  ASSUME GatewayInv, RecordsInv, NEW s \in Session, GatewayWrites(s)
  PROVE  RecordsInv'
<1> DEFINE r == [session |-> s, nr |-> at[s] + 1]
           n == Len(Records)
<1>1. Kept(Record) /\ at \in [Session -> Nat] /\ lost \in BOOLEAN
  BY DEF GatewayInv
<1>2. Records \in Seq(Record)
  BY <1>1, RecordsMove
<1>3. n \in Nat /\ \A i \in 1 .. n : Records[i] \in Record
  BY <1>2
<1>4. at[s] \in Nat /\ at' = [at EXCEPT ![s] = at[s] + 1] /\ r \in Record
      /\ r.session = s /\ r.nr = at[s] + 1
  BY <1>1 DEF GatewayWrites, Record
<1>5. Write(r) /\ lost' = (lost \/ Full) /\ UNCHANGED <<worker, auditLog>>
  BY DEF GatewayWrites
<1> HIDE DEF r
<1>6. CASE Full
  <2>1. Records' = Records /\ lost'
    BY <1>5, <1>6 DEF Write, Records
  <2>2. Within'
    BY <1>1, <1>3, <1>4, <2>1 DEF RecordsInv, Within, Record
  <2> QED
    BY <2>1, <2>2 DEF RecordsInv, Ordered
<1>7. CASE ~Full
  <2> DEFINE new == Records'
  <2>1. Records' = Append(Records, r)
    BY <1>1, <1>4, <1>5, <1>7, RecordsMove
  <2>2. /\ Len(new) = n + 1 /\ new[n + 1] = r
        /\ \A i \in 1 .. n : new[i] = Records[i]
    BY <1>2, <1>4, <2>1, AppendProperties
  <2> HIDE DEF n, new
  <2>3. \A i \in 1 .. n + 1 : i = n + 1 \/ i \in 1 .. n
    BY <1>3
  <2>4. ASSUME NEW i \in 1 .. n
        PROVE  Records[i].nr \in 1 .. at[Records[i].session] /\ Records[i].session \in Session
               /\ Records[i].nr \in 1 .. at'[Records[i].session]
    BY <1>1, <1>3, <1>4 DEF RecordsInv, Within, Record, n
  <2>5. \A i \in 1 .. n + 1 : new[i].nr \in 1 .. at'[new[i].session]
    BY <1>1, <1>4, <2>2, <2>3, <2>4
  <2>6. ASSUME NEW i \in 1 .. n + 1, NEW k \in 1 .. n + 1, i < k, new[i].session = new[k].session
        PROVE  new[i].nr < new[k].nr
    <3>1. i \in 1 .. n
      BY <1>3, <2>6
    <3>2. CASE k = n + 1
      <4>1. Records[i].session = s /\ Records[i].nr \in 1 .. at[s]
        BY <1>4, <2>2, <2>4, <2>6, <3>1, <3>2
      <4> QED
        BY <1>4, <2>2, <3>1, <3>2, <4>1
    <3>3. CASE k \in 1 .. n
      BY <2>2, <2>6, <3>1, <3>3 DEF RecordsInv, Ordered, n
    <3> QED
      BY <2>3, <3>2, <3>3
  <2>7. ASSUME ~lost', NEW t \in Session, NEW m \in 1 .. at'[t]
        PROVE  \E i \in 1 .. n + 1 : new[i] = [session |-> t, nr |-> m]
    <3>1. CASE t = s /\ m = at[s] + 1
      BY <1>3, <2>2, <3>1 DEF r
    <3>2. CASE ~(t = s /\ m = at[s] + 1)
      <4>1. m \in 1 .. at[t] /\ Complete
        BY <1>1, <1>4, <1>5, <2>7, <3>2 DEF RecordsInv
      <4>2. PICK i \in 1 .. n : Records[i] = [session |-> t, nr |-> m]
        BY <4>1 DEF Complete, n
      <4> QED
        BY <1>3, <2>2, <4>2
    <3> QED
      BY <3>1, <3>2
  <2>8. Within' /\ Ordered(new) /\ (~lost' => Complete')
    BY <2>2, <2>5, <2>6, <2>7 DEF Within, Ordered, Complete, new
  <2> QED
    BY <2>8 DEF RecordsInv, new, Ordered
<1> QED
  BY <1>6, <1>7

LEMMA RecordsThinned ==
  ASSUME GatewayInv, RecordsInv, InsertFails, at' = at, lost' = TRUE
  PROVE  RecordsInv'
<1>1. Kept(Record) /\ Records \in Seq(Record) /\ lost \in BOOLEAN
  BY RecordsMove DEF GatewayInv
<1>2. CASE UNCHANGED Records
  BY <1>1, <1>2, RecordsStay
<1>3. CASE ~UNCHANGED Records
  <2>1. PICK m \in Nat, d \in Nat : \A i \in 1 .. Len(Records') :
               LET k == IF i <= m THEN i ELSE i + d
               IN  k \in 1 .. Len(Records) /\ Records'[i] = Records[k]
    BY <1>1, <1>3, RecordsThin
  <2> DEFINE From(i) == IF i <= m THEN i ELSE i + d
             new == Records'
  <2>2. \A i \in 1 .. Len(new) : From(i) \in 1 .. Len(Records) /\ new[i] = Records[From(i)]
    BY <2>1
  <2>3. \A i, k \in 1 .. Len(new) : i < k => From(i) < From(k)
    <3>1. Len(new) \in Nat
      <4>1. Records' \in Seq(Record)
        BY <1>1, <1>3, RecordsThin
      <4> QED
        BY <4>1, LenProperties
    <3> HIDE DEF new
    <3> QED
      BY <2>1, <3>1
  <2> HIDE DEF From, new
  <2>4. Ordered(new)
    BY <2>2, <2>3 DEF RecordsInv, Ordered
  <2>5. Within'
    BY <2>2 DEF RecordsInv, Within, new
  <2> QED
    BY <2>4, <2>5 DEF RecordsInv, new, Ordered
<1> QED
  BY <1>2, <1>3

LEMMA RecordsInductive ==
  ASSUME GatewayInv, RecordsInv, [Next]_vars
  PROVE  RecordsInv'
<1>1. Kept(Record) /\ lost \in BOOLEAN
  BY DEF GatewayInv
<1>2. ASSUME UNCHANGED auditVars, at' = at, lost' = lost PROVE RecordsInv'
  <2>1. Records' = Records
    BY <1>1, <1>2, RecordsMove
  <2> QED
    BY <1>1, <1>2, <2>1, RecordsStay
<1>3. ASSUME ServicesStop PROVE RecordsInv'
  <2>1. queue' = <<>> /\ worker' = <<>> /\ auditLog' = <<>> /\ lost'
    BY <1>3 DEF ServicesStop
  <2>2. Records' = <<>> /\ Len(Records') = 0
    <3>1. \A seq \in Seq(Record) : seq = <<>> => Len(seq) = 0
      BY EmptySeq
    <3>2. <<>> \in Seq(Record) /\ <<>> \o <<>> = <<>>
      BY EmptySeq, ConcatEmptySeq
    <3>3. Records' = <<>>
      BY <2>1, <3>2 DEF Records
    <3> QED
      BY <3>1, <3>2, <3>3
  <2> QED
    BY <2>1, <2>2 DEF RecordsInv, Within, Ordered
<1>4. ASSUME NEW j \in Job, QuietStep(j) PROVE RecordsInv'
  <2>1. UNCHANGED auditVars /\ at' = at /\ lost' = lost
    BY <1>4, QuietStepsStay DEF gatewayVars
  <2> QED
    BY <1>2, <2>1
<1>5. ASSUME NEW j \in Job, ComposeUp(j) \/ ComposeDown(j) PROVE RecordsInv'
  BY <1>2, <1>3, <1>5 DEF ComposeUp, ComposeDown, gatewayVars
<1>6. ASSUME NEW j \in Job, Trigger(j) \/ StormCall(j) \/ Disconnect(j) PROVE RecordsInv'
  BY <1>2, <1>6 DEF Trigger, StormCall, Disconnect, gatewayVars
<1>7. ASSUME NEW s \in Session, GatewayWrites(s) PROVE RecordsInv'
  BY <1>7, RecordAdded
<1>8. CASE AuditTakes \/ AuditInserts
  <2>1. (Take \/ Insert) /\ at' = at /\ lost' = lost
    BY <1>8 DEF AuditTakes, AuditInserts, gatewayVars
  <2>2. Records' = Records
    BY <1>1, <2>1, RecordsMove
  <2> QED
    BY <1>1, <2>1, <2>2, RecordsStay
<1>9. CASE AuditFails
  BY <1>9, RecordsThinned DEF AuditFails, gatewayVars
<1>10. CASE UNCHANGED vars
  BY <1>2, <1>10 DEF vars, gatewayVars
<1> QED
  BY <1>4, <1>5, <1>6, <1>7, <1>8, <1>9, <1>10, Steps DEF AuditStep

-----------------------------------------------------------------------------
\* The invariant so far.

LogInv == StageInv /\ GatewayInv /\ RecordsInv

LEMMA LogInitially == Init => LogInv
<1> SUFFICES ASSUME Init PROVE LogInv
  OBVIOUS
<1>1. StageInv
  BY StageInitially
<1>2. /\ plan = [s \in Session |-> <<>>] /\ at = [s \in Session |-> 0] /\ lost = FALSE
      /\ queue = <<>> /\ worker = <<>> /\ auditLog = <<>>
  BY DEF Init, AuditInit
<1>3. /\ <<>> \in Seq(Record) /\ <<>> \in Seq(AnyRow)
      /\ \A seq \in Seq(Record) : seq = <<>> => Len(seq) = 0
      /\ \A seq \in Seq(AnyRow) : seq = <<>> => Len(seq) = 0
  BY EmptySeq
<1>4. Kept(Record) /\ Len(queue) <= Capacity /\ Len(worker) <= 1
  BY <1>2, <1>3, CapacityAssumption DEF Kept
<1>5. GatewayInv
  <2>1. \A s \in Session : at[s] = 0 /\ plan[s] = <<>> /\ Len(plan[s]) = 0
    BY <1>2, <1>3
  <2>2. \A j \in Job : Unused(j)
    BY <2>1 DEF Unused, Session
  <2>3. plan \in [Session -> Seq(AnyRow)] /\ at \in [Session -> Nat]
    BY <1>2, <1>3
  <2>4. \A s \in Session : at[s] <= Len(plan[s])
    BY <2>1
  <2>5. lost \in BOOLEAN
    BY <1>2
  <2> HIDE DEF Kept
  <2> QED
    BY <1>4, <2>2, <2>3, <2>4, <2>5 DEF GatewayInv
<1>6. RecordsInv
  <2>1. Records = <<>>
    BY <1>2, <1>3, ConcatEmptySeq DEF Records
  <2>2. Len(Records) = 0 /\ \A s \in Session : at[s] = 0
    BY <1>2, <1>3, <2>1
  <2> QED
    BY <2>2 DEF RecordsInv, Within, Ordered, Complete
<1> QED
  BY <1>1, <1>5, <1>6 DEF LogInv

LEMMA LogInductive == LogInv /\ [Next]_vars => LogInv'
BY StageInductive, GatewayInductive, RecordsInductive DEF LogInv

\* Every variable has its type: a job is where it can be, with a result for no more
\* cases than its suite has, and every record is of a row the gateway has written.
THEOREM TypeCorrect == Spec => []TypeOK
<1>1. LogInv => TypeOK
  <2> SUFFICES ASSUME LogInv PROVE TypeOK
    OBVIOUS
  <2>1. RunnerTypes /\ queried \in [Job -> Session \cup {NoSession}]
    BY DEF LogInv, StageInv, PlacesInv
  <2>2. calls \in [Job -> 0 .. StormCalls] /\ \A j \in Job : Len(results[j]) <= Len(job[j].suite)
    BY StormAssumption DEF LogInv, StageInv, Stage, CallsFit
  <2>3. \A s \in Session : at[s] \in 0 .. Len(plan[s])
    BY LenProperties DEF LogInv, GatewayInv
  <2>4. ASSUME NEW i \in DOMAIN Records
        PROVE  Records[i].session \in Session /\ Records[i].nr \in 1 .. at[Records[i].session]
    <3>1. Kept(Record)
      BY DEF LogInv, GatewayInv
    <3>2. Records \in Seq(Record) /\ Records[i] \in Record
      BY <2>4, <3>1, InRecords, RecordsMove
    <3>3. i \in 1 .. Len(Records)
      BY <2>4, <3>2, LenProperties
    <3> QED
      BY <3>2, <3>3 DEF Record, LogInv, RecordsInv, Within
  <2> QED
    BY <2>1, <2>2, <2>3, <2>4 DEF TypeOK, RunnerTypes
<1> QED
  BY <1>1, LogInitially, LogInductive, PTL DEF Spec

-----------------------------------------------------------------------------
\* Traces.

\* Increasing numbers from 1 on without a gap count their places.
LEMMA CountsUp ==
  ASSUME NEW m \in Nat, NEW f \in [1 .. m -> Nat \ {0}],
         \A k, l \in 1 .. m : k < l => f[k] < f[l],
         \A k \in 1 .. m : \A v \in 1 .. f[k] : \E l \in 1 .. m : f[l] = v
  PROVE  \A k \in 1 .. m : f[k] = k
<1> DEFINE T == { k \in Nat : k \in 1 .. m => f[k] = k }
<1>1. 0 \in T
  OBVIOUS
<1>2. ASSUME NEW k \in Nat, k \in T PROVE k + 1 \in T
  <2> SUFFICES ASSUME k + 1 \in 1 .. m PROVE f[k + 1] = k + 1
    OBVIOUS
  <2>1. k = 0 \/ (k \in 1 .. m /\ f[k] = k)
    BY <1>2
  <2>2. f[k + 1] \in Nat /\ f[k + 1] >= k + 1
    BY <2>1
  <2>3. ASSUME f[k + 1] > k + 1 PROVE FALSE
    <3>1. PICK l \in 1 .. m : f[l] = k + 1
      BY <2>2, <2>3
    <3>2. l < k + 1
      <4>1. l = k + 1 \/ l > k + 1 \/ l < k + 1
        OBVIOUS
      <4>2. ASSUME l > k + 1 PROVE FALSE
        BY <2>2, <2>3, <3>1, <4>2
      <4> QED
        BY <2>3, <3>1, <4>1, <4>2
    <3>3. k \in 1 .. m /\ f[k] = k /\ (l = k \/ l < k)
      BY <2>1, <3>2
    <3>4. f[l] <= f[k]
      BY <3>3
    <3> QED
      BY <3>1, <3>3, <3>4
  <2> QED
    BY <2>2, <2>3
<1>3. Nat \subseteq T
  <2> HIDE DEF T
  <2> QED
    BY <1>1, <1>2, SetInduction
<1> QED
  BY <1>3

Faithful(trace, s) ==
  \A k \in DOMAIN trace :
    /\ trace[k].session = s /\ trace[k].nr \in 1 .. at[s]
    /\ \A l \in 1 .. k - 1 : trace[l].nr < trace[k].nr
    /\ ~lost => trace[k].nr = k

\* What the runner reads is faithful when it reads it.
LEMMA TracesFaithful ==
  ASSUME LogInv, NEW s \in Session
  PROVE  Faithful(Trace(s), s)
<1> DEFINE n == Len(auditLog)
           trace == Trace(s)
           m == Len(trace)
<1>1. /\ Kept(Record) /\ at \in [Session -> Nat]
      /\ Within /\ Ordered(Records) /\ (~lost => Complete)
  BY DEF LogInv, GatewayInv, RecordsInv
<1>2. trace \in Seq(Record) /\ m \in Nat /\ DOMAIN trace = 1 .. m
  <2>1. trace \in Seq(Record)
    BY TraceRecords DEF LogInv
  <2> HIDE DEF trace
  <2> QED
    BY <2>1
<1>3. PICK from : Numbers(from, m, trace, auditLog, n, s)
  BY <1>1, TraceSelects DEF Kept, Selects
<1> HIDE DEF trace
<1>4. /\ n \in Nat /\ n <= Len(Records) /\ Len(Records) \in Nat /\ Records \in Seq(Record)
      /\ \A i \in 1 .. n : auditLog[i] = Records[i]
  <2> DEFINE both == auditLog \o worker
  <2>1. both \in Seq(Record) /\ Len(both) = n + Len(worker)
        /\ \A i \in 1 .. n : both[i] = auditLog[i]
    BY <1>1, ConcatProperties DEF Kept
  <2>2. n \in Nat /\ Len(worker) \in Nat /\ Len(queue) \in Nat
    BY <1>1 DEF Kept
  <2> HIDE DEF both, n
  <2> DEFINE all == both \o queue
  <2>3. /\ all \in Seq(Record) /\ Len(all) = Len(both) + Len(queue)
        /\ \A i \in 1 .. Len(both) + Len(queue) :
             all[i] = IF i <= Len(both) THEN both[i] ELSE queue[i - Len(both)]
    BY <1>1, <2>1, ConcatProperties DEF Kept
  <2>4. Records = all
    BY DEF Records, both
  <2> HIDE DEF all
  <2> QED
    BY <2>1, <2>2, <2>3, <2>4
<1> HIDE DEF n, m
<1>5. ASSUME NEW k \in 1 .. m
      PROVE  /\ from[k] \in 1 .. n /\ trace[k] = Records[from[k]]
             /\ trace[k].session = s /\ trace[k].nr \in 1 .. at[s]
  <2>1. from[k] \in 1 .. n /\ auditLog[from[k]] = trace[k] /\ trace[k].session = s
    BY <1>3 DEF Numbers
  <2> QED
    BY <1>1, <1>4, <2>1 DEF Within
<1>6. \A k, l \in 1 .. m : k < l => from[k] < from[l]
  BY <1>3 DEF Numbers
<1>7. ASSUME NEW k \in 1 .. m, NEW l \in 1 .. m, k < l PROVE trace[k].nr < trace[l].nr
  <2>1. from[k] < from[l] /\ from[k] \in 1 .. Len(Records) /\ from[l] \in 1 .. Len(Records)
    BY <1>4, <1>5, <1>6, <1>7
  <2>2. Records[from[k]].session = Records[from[l]].session
    BY <1>5
  <2>3. Records[from[k]].nr < Records[from[l]].nr
    BY <1>1, <2>1, <2>2 DEF Ordered
  <2> QED
    BY <1>5, <2>3
<1>8. ASSUME ~lost, NEW k \in 1 .. m, NEW v \in 1 .. trace[k].nr
      PROVE  \E l \in 1 .. m : trace[l].nr = v
  <2>1. v \in 1 .. at[s] /\ trace[k].nr \in Nat /\ v <= trace[k].nr
    BY <1>1, <1>5
  <2>2. PICK i \in 1 .. Len(Records) : Records[i] = [session |-> s, nr |-> v]
    BY <1>1, <1>8, <2>1 DEF Complete
  <2>3. i <= from[k]
    <3> SUFFICES ASSUME i > from[k] PROVE FALSE
      BY <1>4, <1>5
    <3>1. from[k] \in 1 .. Len(Records) /\ Records[from[k]].session = s
          /\ Records[from[k]].nr = trace[k].nr
      BY <1>4, <1>5
    <3>2. from[k] < i /\ Records[from[k]].session = Records[i].session
      BY <1>4, <2>2, <3>1
    <3>3. Records[from[k]].nr < Records[i].nr
      BY <1>1, <3>1, <3>2 DEF Ordered
    <3> QED
      BY <2>1, <2>2, <3>1, <3>3
  <2>4. i \in 1 .. n /\ auditLog[i].session = s
    BY <1>4, <1>5, <2>2, <2>3
  <2>5. PICK l \in 1 .. m : from[l] = i
    BY <1>3, <2>4 DEF Numbers
  <2> QED
    BY <1>5, <2>2, <2>5
<1>9. ASSUME ~lost, NEW k \in 1 .. m PROVE trace[k].nr = k
  <2> DEFINE f == [l \in 1 .. m |-> trace[l].nr]
  <2>1. f \in [1 .. m -> Nat \ {0}]
    BY <1>1, <1>5
  <2>2. \A l \in 1 .. m : f[l] = trace[l].nr
    OBVIOUS
  <2> HIDE DEF f
  <2>3. \A k1, l \in 1 .. m : k1 < l => f[k1] < f[l]
    BY <1>7, <2>2
  <2>4. \A k1 \in 1 .. m : \A v \in 1 .. f[k1] : \E l \in 1 .. m : f[l] = v
    BY <1>8, <1>9, <2>2
  <2>5. \A l \in 1 .. m : f[l] = l
    BY <1>2, <2>1, <2>3, <2>4, CountsUp
  <2> QED
    BY <2>2, <2>5
<1> QED
  BY <1>2, <1>5, <1>7, <1>9 DEF Faithful, trace

-----------------------------------------------------------------------------
\* Results are added, and nothing else happens then.

\* In a case.
Busy(j) == pc[j] \in {"check", "next", "triggered", "storm", "called", "poll"}

\* Why a case fails before its records are judged.
Aborts(j, failures) ==
  \/ env # {} \/ ~Connected(j)
  \/ pc[j] = "check" /\ failures = {"precondition"}
  \/ /\ pc[j] = "called" /\ calls[j] >= StormCalls
     /\ "budgetExceeded" \notin Decisions(plan[queried[j]])

\* The two ways to a result.
Concluded(j, failures, trace) ==
  /\ Busy(j) /\ CasesLeft(j)
  /\ \/ failures # {} /\ trace = <<>> /\ Aborts(j, failures)
     \/ /\ pc[j] = "poll" /\ trace = Trace(queried[j])
        /\ failures = Judge(j, Rows(trace))
        /\ Found(j, Rows(trace)) \/ PastDeadline(j)

NewResult(j, failures, trace) ==
  /\ results'[j] = Append(results[j], [failures |-> failures, trace |-> trace])
  /\ Concluded(j, failures, trace) /\ UNCHANGED <<plan, at, lost>>

LEMMA ResultsGrow ==
  ASSUME StageInv, [Next]_vars, NEW k \in Job
  PROVE  results'[k] = results[k] \/ \E failures, trace : NewResult(k, failures, trace)
<1>1. /\ results \in [Job -> Seq(Result)] /\ calls \in [Job -> Nat]
      /\ \A j \in Job : Stage(j)
  BY DEF StageInv
<1>2. ASSUME NEW j \in Job, QuietStep(j), ~UNCHANGED results
      PROVE  \E failures, trace :
               Conclude(j, failures, trace) /\ Concluded(j, failures, trace)
  <2> USE DEF Concluded, Busy, Aborts
  <2>1. pc[j] \in {"triggered", "storm", "called", "poll"} => CasesLeft(j)
    BY <1>1 DEF Stage, Working
  <2>2. pc[j] = "check" => CasesLeft(j)
    <3> SUFFICES ASSUME pc[j] = "check" PROVE CasesLeft(j)
      OBVIOUS
    <3>1. results[j] = <<>> /\ Len(job[j].suite) = 1 /\ results[j] \in Seq(Result)
      BY <1>1 DEF Stage
    <3>2. Len(results[j]) = 0
      BY <3>1, EmptySeq
    <3> QED
      BY <3>1, <3>2 DEF CasesLeft
  <2>3. CASE CheckPrecondition(j)
    <3>1. Conclude(j, {"precondition"}, <<>>) /\ pc[j] = "check"
      BY <1>2, <2>3 DEF CheckPrecondition
    <3> QED
      BY <2>2, <3>1
  <2>4. CASE TriggerFails(j) \/ PollFails(j) \/ StormFails(j) \/ StormBegins(j)
    <3>1. Conclude(j, {"run"}, <<>>) /\ CasesLeft(j) /\ Busy(j) /\ Aborts(j, {"run"})
      BY <1>2, <2>1, <2>4 DEF TriggerFails, PollFails, StormFails, StormBegins, RunFails
    <3> QED
      BY <3>1
  <2>5. CASE StormReturns(j)
    <3>1. Conclude(j, {"policyOutcome"}, <<>>) /\ CasesLeft(j) /\ Busy(j)
          /\ pc[j] = "called" /\ ~(calls[j] < StormCalls)
          /\ "budgetExceeded" \notin Decisions(plan[queried[j]])
      BY <1>2, <2>1, <2>5 DEF StormReturns, Respond
    <3>2. calls[j] >= StormCalls
      BY <1>1, <3>1, StormAssumption
    <3> QED
      BY <3>1, <3>2
  <2>6. CASE Query(j)
    <3>1. /\ pc[j] = "poll" /\ CasesLeft(j)
          /\ Conclude(j, Judge(j, Rows(Trace(queried[j]))), Trace(queried[j]))
          /\ Found(j, Rows(Trace(queried[j]))) \/ PastDeadline(j)
      BY <2>1, <2>6 DEF Query
    <3> QED
      BY <3>1
  <2>7. CASE BeginCli(j) \/ BeginRequest(j) \/ Connect(j) \/ Finish(j) \/ TriggerReturns(j)
             \/ StreamBreaks(j)
    BY <1>2, <2>7 DEF BeginCli, BeginRequest, Connect, Finish, TriggerReturns, StreamBreaks
  <2> QED
    BY <1>2, <2>3, <2>4, <2>5, <2>6, <2>7 DEF QuietStep
<1>3. ASSUME NEW j \in Job, QuietStep(j), results'[k] # results[k]
      PROVE  \E failures, trace : NewResult(k, failures, trace)
  <2>1. PICK failures, trace : Conclude(j, failures, trace) /\ Concluded(j, failures, trace)
    BY <1>2, <1>3
  <2>2. k = j /\ results'[j] = Append(results[j], [failures |-> failures, trace |-> trace])
    BY <1>1, <1>3, <2>1 DEF Conclude
  <2>3. UNCHANGED <<plan, at, lost>>
    BY <1>3, QuietStepsStay DEF gatewayVars
  <2> QED
    BY <2>1, <2>2, <2>3 DEF NewResult
<1>4. ASSUME NEW j \in Job, ComposeUp(j) \/ ComposeDown(j) \/ Trigger(j) \/ StormCall(j) \/ Disconnect(j)
      PROVE  results' = results
  BY <1>4 DEF ComposeUp, ComposeDown, Trigger, StormCall, Disconnect, runnerVars
<1>5. CASE AuditStep \/ UNCHANGED vars \/ \E s \in Session : GatewayWrites(s)
  BY <1>5 DEF AuditStep, AuditTakes, AuditInserts, AuditFails, GatewayWrites, vars, runnerVars
<1> QED
  BY <1>3, <1>4, <1>5, Steps

LEMMA LostStays ==
  ASSUME [Next]_vars, lost
  PROVE  lost'
<1>1. ASSUME NEW j \in Job, QuietStep(j) PROVE lost'
  BY <1>1, QuietStepsStay
<1>2. ASSUME NEW j \in Job, ComposeUp(j) \/ ComposeDown(j) \/ Trigger(j) \/ StormCall(j) \/ Disconnect(j)
      PROVE  lost'
  BY <1>2 DEF ComposeUp, ComposeDown, ServicesStop, Trigger, StormCall, Disconnect
<1>3. CASE AuditStep \/ UNCHANGED vars \/ \E s \in Session : GatewayWrites(s)
  BY <1>3 DEF AuditStep, AuditTakes, AuditInserts, AuditFails, GatewayWrites, vars
<1> QED
  BY <1>1, <1>2, <1>3, Steps

LEMMA OldAndNew ==
  ASSUME StageInv, [Next]_vars, NEW j \in Job, NEW i \in DOMAIN results'[j]
  PROVE  \/ i \in DOMAIN results[j] /\ results'[j][i] = results[j][i]
         \/ \E failures, trace :
              /\ NewResult(j, failures, trace) /\ <<j, i>> = NewSession(j)
              /\ results'[j][i] = [failures |-> failures, trace |-> trace]
<1>1. results[j] \in Seq(Result)
  BY DEF StageInv
<1>2. CASE results'[j] # results[j]
  <2>1. PICK failures, trace : NewResult(j, failures, trace)
    BY <1>2, ResultsGrow
  <2> DEFINE result == [failures |-> failures, trace |-> trace]
             n == Len(results[j])
  <2>2. results'[j] = Append(results[j], result)
    BY <2>1 DEF NewResult
  <2> HIDE DEF result
  <2>3. /\ DOMAIN results[j] = 1 .. n /\ n \in Nat
        /\ DOMAIN results'[j] = 1 .. n + 1
        /\ \A k \in 1 .. n : results'[j][k] = results[j][k]
        /\ results'[j][n + 1] = result
    BY <1>1, <2>2
  <2> HIDE DEF n
  <2>4. i \in 1 .. n \/ i = n + 1
    BY <2>3
  <2>5. CASE i = n + 1
    <3>1. <<j, i>> = NewSession(j) /\ results'[j][i] = result
      BY <2>3, <2>5 DEF NewSession, n
    <3> QED
      BY <2>1, <3>1 DEF result
  <2> QED
    BY <2>3, <2>4, <2>5
<1> QED
  BY <1>2

\* The records of no session are none.
LEMMA NoTrace ==
  ASSUME GatewayInv
  PROVE  Trace(NoSession) \in Seq(Record) /\ Len(Trace(NoSession)) = 0
<1> DEFINE trace == Trace(NoSession)
<1>1. Selects(trace, auditLog, Len(auditLog), NoSession)
  BY TraceSelects DEF GatewayInv, Kept
<1> HIDE DEF trace
<1>2. trace \in Seq(Record) /\ Len(trace) \in Nat
  BY <1>1 DEF Selects
<1>3. ASSUME NEW l \in 1 .. Len(trace) PROVE FALSE
  <2>1. trace[l].session = NoSession /\ trace[l] \in Record
    BY <1>1, <1>2 DEF Selects, Numbers
  <2> QED
    BY <2>1, NoSessionIsNone DEF Record
<1>4. Len(trace) = 0
  BY <1>2, <1>3
<1> QED
  BY <1>2, <1>4 DEF trace

FaithfulResult(j, i) == Faithful(results[j][i].trace, <<j, i>>)

FaithInv == \A j \in Job : \A i \in DOMAIN results[j] : FaithfulResult(j, i)

LEMMA FaithInductive ==
  ASSUME LogInv, FaithInv, [Next]_vars
  PROVE  FaithInv'
<1> SUFFICES ASSUME NEW j \in Job, NEW i \in DOMAIN results'[j]
             PROVE  FaithfulResult(j, i)'
  BY DEF FaithInv
<1>1. StageInv /\ GatewayInv /\ LogInv'
  BY LogInductive DEF LogInv
<1>2. Len(results[j]) \in Nat /\ Len(results'[j]) \in Nat /\ Len(job[j].suite) \in Nat
      /\ DOMAIN results'[j] = 1 .. Len(results'[j]) /\ Len(results'[j]) <= MaxCases
  <2>1. results[j] \in Seq(Result) /\ results'[j] \in Seq(Result) /\ Stage(j)'
    BY <1>1 DEF LogInv, StageInv
  <2>2. Len(job'[j].suite) \in Nat /\ Len(job'[j].suite) <= MaxCases /\ job' = job
    <3>1. PlacesInv'
      BY <1>1 DEF LogInv, StageInv
    <3> QED
      BY <3>1, JobFacts, PlacesInductive, JobsStay DEF LogInv, StageInv
  <2> QED
    BY <2>1, <2>2, MaxCasesAssumption DEF Stage
<1>3. <<j, i>> \in Session
  BY <1>2, MaxCasesAssumption DEF Session
<1>4. CASE i \in DOMAIN results[j] /\ results'[j][i] = results[j][i]
  <2>1. Faithful(results[j][i].trace, <<j, i>>)
    BY <1>4 DEF FaithInv, FaithfulResult
  <2>2. at[<<j, i>>] \in Nat /\ at'[<<j, i>>] \in Nat /\ at[<<j, i>>] <= at'[<<j, i>>]
    BY <1>1, <1>3, GatewayMoves DEF GatewayInv
  <2>3. ~lost' => ~lost
    BY LostStays
  <2> QED
    BY <1>4, <2>1, <2>2, <2>3 DEF Faithful, FaithfulResult
<1>5. ASSUME NEW failures, NEW trace, NewResult(j, failures, trace), <<j, i>> = NewSession(j),
             results'[j][i] = [failures |-> failures, trace |-> trace]
      PROVE  FaithfulResult(j, i)'
  <2>1. results'[j][i].trace = trace /\ UNCHANGED <<at, lost>>
    BY <1>5 DEF NewResult
  <2>2. Faithful(trace, <<j, i>>)
    <3>1. CASE trace = <<>>
      BY <3>1 DEF Faithful
    <3>2. CASE pc[j] = "poll" /\ trace = Trace(queried[j]) /\ queried[j] = NewSession(j)
      BY <1>3, <1>5, <3>2, TracesFaithful
    <3>3. CASE pc[j] = "poll" /\ trace = Trace(queried[j]) /\ queried[j] = NoSession
      <4>1. DOMAIN trace = {}
        BY <1>1, <3>3, NoTrace
      <4> QED
        BY <4>1 DEF Faithful
    <3> QED
      BY <1>1, <1>5, <3>1, <3>2, <3>3 DEF NewResult, Concluded, StageInv, Stage
  <2> QED
    BY <2>1, <2>2 DEF Faithful, FaithfulResult
<1> QED
  BY <1>1, <1>4, <1>5, OldAndNew

\* A case is judged by records of its own session, in the order of its rows, and by all
\* of them up to some point as long as none is lost.
THEOREM TracesAreFaithful == Spec => []TraceFaithful
<1>1. Init => FaithInv
  BY DEF Init, FaithInv
<1>2. FaithInv => TraceFaithful
  BY DEF FaithInv, FaithfulResult, Faithful, TraceFaithful, IsResult, Session
<1> QED
  BY <1>1, <1>2, LogInitially, LogInductive, FaithInductive, PTL DEF Spec

-----------------------------------------------------------------------------
\* The rows of a storm.

Allowed(rows) == { k \in DOMAIN rows : rows[k].decision = "allow" }

LEMMA CountedRows ==
  ASSUME NEW rows \in Seq(AnyRow)
  PROVE  IsFiniteSet(Allowed(rows)) /\ Counted(rows) = Cardinality(Allowed(rows)) /\ Counted(rows) \in Nat
<1>1. Allowed(rows) \in SUBSET (1 .. Len(rows)) /\ Len(rows) \in Nat
  BY DEF Allowed
<1>2. IsFiniteSet(Allowed(rows))
  <2>1. IsFiniteSet(1 .. Len(rows))
    BY <1>1, FS_Interval
  <2> QED
    BY <1>1, <2>1, FS_Subset
<1>3. Counted(rows) = Cardinality(Allowed(rows))
  BY DEF Counted, Allowed
<1> QED
  BY <1>2, <1>3, FS_CardinalityType

LEMMA CountedNext ==
  ASSUME NEW rows \in Seq(AnyRow), NEW r \in AnyRow
  PROVE  Counted(Append(rows, r)) = IF r.decision = "allow" THEN Counted(rows) + 1 ELSE Counted(rows)
<1> DEFINE n == Len(rows)
           new == Append(rows, r)
<1>1. new \in Seq(AnyRow) /\ n \in Nat /\ DOMAIN new = 1 .. n + 1 /\ DOMAIN rows = 1 .. n
      /\ new[n + 1] = r /\ \A i \in 1 .. n : new[i] = rows[i]
  OBVIOUS
<1> HIDE DEF n, new
<1>2. n + 1 \notin Allowed(rows)
  BY <1>1 DEF Allowed
<1>3. /\ IsFiniteSet(Allowed(rows)) /\ Counted(rows) = Cardinality(Allowed(rows))
      /\ Counted(new) = Cardinality(Allowed(new))
  BY <1>1, CountedRows
<1>4. CASE r.decision = "allow"
  <2>1. Allowed(new) = Allowed(rows) \cup {n + 1}
    BY <1>1, <1>4 DEF Allowed
  <2> QED
    BY <1>2, <1>4, <1>3, <2>1, FS_AddElement DEF new
<1>5. CASE r.decision # "allow"
  <2>1. Allowed(new) = Allowed(rows)
    BY <1>1, <1>5 DEF Allowed
  <2> QED
    BY <1>5, <1>3, <2>1 DEF new
<1> QED
  BY <1>4, <1>5

\* What two sequences begin with.
LEMMA SamePrefix ==
  ASSUME NEW S, NEW a \in Seq(S), NEW b \in Seq(S), NEW n \in Nat, n <= Len(a), n <= Len(b),
         \A i \in 1 .. n : a[i] = b[i]
  PROVE  SubSeq(a, 1, n) = SubSeq(b, 1, n)
<1>1. (\A i \in 1 .. n : a[i] \in S) /\ (\A i \in 1 .. n : b[i] \in S)
  OBVIOUS
<1>2. /\ SubSeq(a, 1, n) \in Seq(S) /\ Len(SubSeq(a, 1, n)) = n
      /\ \A i \in 1 .. n : SubSeq(a, 1, n)[i] = a[i]
  BY <1>1, SubSeqProperties
<1>3. /\ SubSeq(b, 1, n) \in Seq(S) /\ Len(SubSeq(b, 1, n)) = n
      /\ \A i \in 1 .. n : SubSeq(b, 1, n)[i] = b[i]
  BY <1>1, SubSeqProperties
<1> QED
  BY <1>2, <1>3, SeqEqual

InBudget(rows) ==
  /\ Counted(rows) <= Budget
  /\ \A n \in 1 .. Len(rows) :
       rows[n].decision = "budgetExceeded" => Counted(SubSeq(rows, 1, n)) = Budget

LEMMA RowInBudget ==
  ASSUME NEW rows \in Seq(AnyRow), InBudget(rows), NEW r \in AnyRow,
         r.decision = "allow" => Counted(rows) < Budget,
         r.decision = "budgetExceeded" => Counted(rows) = Budget
  PROVE  Append(rows, r) \in Seq(AnyRow) /\ InBudget(Append(rows, r))
<1> DEFINE m == Len(rows)
           new == Append(rows, r)
<1>1. /\ new \in Seq(AnyRow) /\ m \in Nat /\ Len(new) = m + 1 /\ new[m + 1] = r
      /\ \A i \in 1 .. m : new[i] = rows[i]
  OBVIOUS
<1>2. /\ Counted(new) = IF r.decision = "allow" THEN Counted(rows) + 1 ELSE Counted(rows)
      /\ Counted(rows) \in Nat
  BY CountedNext, CountedRows
<1>3. Counted(new) <= Budget
  BY <1>2, StormAssumption DEF InBudget
<1>4. SubSeq(new, 1, m + 1) = new
  BY <1>1, SubSeqFull
<1> HIDE DEF new, m
<1>5. ASSUME NEW n \in 1 .. m + 1, new[n].decision = "budgetExceeded"
      PROVE  Counted(SubSeq(new, 1, n)) = Budget
  <2>1. CASE n = m + 1
    BY <1>1, <1>2, <1>4, <1>5, <2>1
  <2>2. CASE n # m + 1
    <3>1. n \in 1 .. m /\ n \in Nat /\ n <= Len(new) /\ n <= Len(rows)
      BY <1>1, <2>2 DEF m
    <3>2. SubSeq(new, 1, n) = SubSeq(rows, 1, n)
      BY <1>1, <3>1, SamePrefix
    <3> QED
      BY <1>1, <1>5, <3>1, <3>2 DEF InBudget, m
  <2> QED
    BY <2>1, <2>2
<1>6. new \in Seq(AnyRow) /\ InBudget(new)
  BY <1>1, <1>3, <1>5 DEF InBudget
<1> QED
  BY <1>6 DEF new

LEMMA PrefixInBudget ==
  ASSUME NEW rows \in Seq(AnyRow), InBudget(rows), NEW m \in Nat, m <= Len(rows)
  PROVE  InBudget(SubSeq(rows, 1, m))
<1> DEFINE new == SubSeq(rows, 1, m)
<1>1. \A i \in 1 .. m : rows[i] \in AnyRow
  OBVIOUS
<1>2. /\ new \in Seq(AnyRow) /\ Len(new) = m
      /\ \A i \in 1 .. m : new[i] = rows[i]
  BY <1>1, SubSeqProperties
<1> HIDE DEF new
<1>3. Allowed(new) \in SUBSET Allowed(rows)
  BY <1>2 DEF Allowed
<1>4. Counted(new) <= Counted(rows) /\ Counted(new) \in Nat /\ Counted(rows) \in Nat
  BY <1>2, <1>3, CountedRows, FS_Subset
<1>5. ASSUME NEW n \in 1 .. m, new[n].decision = "budgetExceeded"
      PROVE  Counted(SubSeq(new, 1, n)) = Budget
  <2>1. n \in Nat /\ n <= Len(new) /\ n <= Len(rows) /\ n \in 1 .. Len(rows)
    BY <1>2
  <2>2. \A i \in 1 .. n : new[i] = rows[i]
    BY <1>2
  <2>3. SubSeq(new, 1, n) = SubSeq(rows, 1, n)
    BY <1>2, <2>1, <2>2, SamePrefix
  <2> QED
    BY <1>2, <1>5, <2>1, <2>3 DEF InBudget
<1>6. InBudget(new)
  BY <1>2, <1>4, <1>5, StormAssumption DEF InBudget
<1> QED
  BY <1>6 DEF new

LEMMA StormRowsInBudget ==
  ASSUME NEW old \in Seq(AnyRow), InBudget(old), NEW rows \in StormRows(old)
  PROVE  InBudget(old \o rows)
<1> DEFINE R(decision) == Row(StormTool, decision)
<1>1. /\ R("allow") \in AnyRow /\ R("upstream_error") \in AnyRow /\ R("budgetExceeded") \in AnyRow
      /\ \A d : R(d).decision = d
  BY DEF AnyRow, Row
<1>2. Counted(old) \in Nat /\ Counted(old) <= Budget /\ Budget \in Nat
  BY CountedRows, StormAssumption DEF InBudget
<1>3. \/ Counted(old) >= Budget /\ rows = <<R("budgetExceeded")>>
      \/ /\ ~(Counted(old) >= Budget)
         /\ rows \in { <<R("allow")>>, <<R("upstream_error")>>, <<R("allow"), R("upstream_error")>> }
  BY DEF StormRows
<1> HIDE DEF R
<1>4. ASSUME NEW r \in AnyRow PROVE old \o <<r>> = Append(old, r)
  BY AppendIsConcat
<1>5. CASE Counted(old) >= Budget /\ rows = <<R("budgetExceeded")>>
  <2>1. InBudget(Append(old, R("budgetExceeded")))
    BY <1>1, <1>2, <1>5, RowInBudget
  <2> QED
    BY <1>1, <1>4, <1>5, <2>1
<1>6. CASE ~(Counted(old) >= Budget) /\ rows \in {<<R("allow")>>, <<R("upstream_error")>>}
  <2>1. InBudget(Append(old, R("allow"))) /\ InBudget(Append(old, R("upstream_error")))
    BY <1>1, <1>2, <1>6, RowInBudget
  <2> QED
    BY <1>1, <1>4, <1>6, <2>1
<1>7. CASE ~(Counted(old) >= Budget) /\ rows = <<R("allow"), R("upstream_error")>>
  <2> DEFINE one == Append(old, R("allow"))
             two == Append(one, R("upstream_error"))
  <2>1. one \in Seq(AnyRow) /\ InBudget(one)
    BY <1>1, <1>2, <1>7, RowInBudget
  <2> HIDE DEF one
  <2>2. InBudget(two)
    BY <1>1, <2>1, RowInBudget
  <2>3. old \o rows = two
    <3>1. old \o <<R("allow"), R("upstream_error")>> = Append(Append(old, R("allow")), R("upstream_error"))
      BY <1>1
    <3> QED
      BY <1>7, <3>1 DEF one
  <2> QED
    BY <2>2, <2>3
<1> QED
  BY <1>3, <1>5, <1>6, <1>7

BudgetInv == \A s \in Session : IsStorm(s[1]) => InBudget(plan[s])

LEMMA BudgetInitially == Init => BudgetInv
<1> SUFFICES ASSUME Init, NEW s \in Session PROVE InBudget(plan[s])
  BY DEF BudgetInv
<1>1. plan[s] = <<>>
  BY DEF Init
<1>2. <<>> \in Seq(AnyRow) /\ \A seq \in Seq(AnyRow) : seq = <<>> => Len(seq) = 0
  BY EmptySeq
<1>3. plan[s] \in Seq(AnyRow) /\ Len(plan[s]) = 0
  BY <1>1, <1>2
<1>4. Counted(plan[s]) = Cardinality(Allowed(plan[s]))
  BY <1>3, CountedRows
<1>5. Allowed(plan[s]) = {}
  BY <1>3 DEF Allowed
<1>6. Counted(plan[s]) = 0
  BY <1>4, <1>5, FS_EmptySet
<1> QED
  BY <1>3, <1>6, StormAssumption DEF InBudget

LEMMA BudgetInductive ==
  ASSUME LogInv, BudgetInv, [Next]_vars
  PROVE  BudgetInv'
<1> SUFFICES ASSUME NEW s \in Session, IsStorm(s[1])' PROVE InBudget(plan'[s])
  BY DEF BudgetInv, InBudget, Counted
<1>1. /\ plan \in [Session -> Seq(AnyRow)] /\ at[s] \in Nat /\ at[s] <= Len(plan[s])
      /\ \A j \in Job : Stage(j)
  BY DEF LogInv, GatewayInv, StageInv
<1>2. IsStorm(s[1]) /\ InBudget(plan[s]) /\ plan[s] \in Seq(AnyRow)
  BY <1>1, JobsStay DEF IsStorm, BudgetInv
<1>3. CASE plan' = plan
  BY <1>2, <1>3
<1>4. ASSUME NEW j \in Job, Trigger(j) PROVE InBudget(plan'[s])
  <2>1. s # NewSession(j)
    BY <1>2, <1>4 DEF Trigger, IsStorm, NewSession
  <2>2. plan'[s] = plan[s]
    BY <1>1, <1>4, <2>1 DEF Trigger
  <2> QED
    BY <1>2, <2>2
<1>5. ASSUME NEW j \in Job, StormCall(j) PROVE InBudget(plan'[s])
  <2>1. PICK rows \in StormRows(plan[queried[j]]) :
          plan' = [plan EXCEPT ![queried[j]] = plan[queried[j]] \o rows]
    BY <1>5 DEF StormCall
  <2>2. CASE s = queried[j]
    <3>1. plan'[s] = plan[s] \o rows
      BY <1>1, <2>1, <2>2
    <3> QED
      BY <1>2, <2>1, <2>2, <3>1, StormRowsInBudget
  <2>3. CASE s # queried[j]
    BY <1>1, <1>2, <2>1, <2>3
  <2> QED
    BY <2>2, <2>3
<1>6. ASSUME ServicesStop PROVE InBudget(plan'[s])
  <2>1. plan'[s] = SubSeq(plan[s], 1, at[s])
    BY <1>6 DEF ServicesStop
  <2> QED
    BY <1>1, <1>2, <2>1, PrefixInBudget
<1>7. ASSUME NEW j \in Job, ComposeUp(j) \/ ComposeDown(j) PROVE InBudget(plan'[s])
  BY <1>3, <1>6, <1>7 DEF ComposeUp, ComposeDown, gatewayVars
<1>8. ASSUME NEW j \in Job, QuietStep(j) PROVE plan' = plan
  BY <1>8, QuietStepsStay DEF gatewayVars
<1>9. CASE \/ AuditStep \/ UNCHANGED vars \/ (\E j \in Job : Disconnect(j))
           \/ (\E t \in Session : GatewayWrites(t))
  BY <1>3, <1>9 DEF AuditStep, AuditTakes, AuditInserts, AuditFails, vars, gatewayVars,
     Disconnect, GatewayWrites
<1> QED
  BY <1>3, <1>4, <1>5, <1>7, <1>8, <1>9, Steps

-----------------------------------------------------------------------------
\* Evidence.

LEMMA EvidenceStays ==
  ASSUME LogInv, [Next]_vars, NEW s \in Session, Evidence(s)
  PROVE  Evidence(s)'
<1>1. /\ plan \in [Session -> Seq(AnyRow)] /\ at \in [Session -> Nat] /\ at[s] <= Len(plan[s])
      /\ plan' \in [Session -> Seq(AnyRow)] /\ at' \in [Session -> Nat]
      /\ at[s] <= at'[s] /\ at'[s] <= Len(plan'[s])
      /\ \A n \in 1 .. at[s] : plan'[s][n] = plan[s][n]
  BY GatewayMoves DEF LogInv, GatewayInv
<1>2. job' = job
  BY JobsStay
<1> DEFINE Shows(p, n) ==
             IF job[s[1]].kind = "storm"
             THEN p[n].decision = "budgetExceeded" /\ Counted(SubSeq(p, 1, n)) = Budget
             ELSE /\ p[n].decision = job[s[1]].suite[s[2]].policyOutcome
                  /\ InOrder(job[s[1]].suite[s[2]].mustInclude, SubSeq(p, 1, n))
<1>3. PICK n \in 1 .. at[s] : Shows(plan[s], n)
  BY DEF Evidence
<1>4. n \in Nat /\ n <= Len(plan[s]) /\ n <= Len(plan'[s]) /\ n \in 1 .. at'[s]
      /\ plan[s] \in Seq(AnyRow) /\ plan'[s] \in Seq(AnyRow)
      /\ \A i \in 1 .. n : plan'[s][i] = plan[s][i]
  BY <1>1
<1>5. SubSeq(plan'[s], 1, n) = SubSeq(plan[s], 1, n)
  BY <1>4, SamePrefix
<1>6. plan'[s][n] = plan[s][n]
  BY <1>1
<1>7. Shows(plan'[s], n)
  BY <1>3, <1>5, <1>6
<1> QED
  BY <1>2, <1>4, <1>7 DEF Evidence, Counted

\* The rows of a trace are those that its records are of.
LEMMA RowsOfTrace ==
  ASSUME LogInv, NEW s \in Session
  PROVE  LET trace == Trace(s)
         IN  /\ trace \in Seq(Record) /\ Rows(trace) \in Seq(AnyRow)
             /\ Len(Rows(trace)) = Len(trace)
             /\ \A k \in 1 .. Len(trace) :
                  /\ trace[k].nr \in 1 .. at[s]
                  /\ Rows(trace)[k] = plan[s][trace[k].nr]
             /\ \A k, l \in 1 .. Len(trace) : k < l => trace[k].nr < trace[l].nr
<1> DEFINE trace == Trace(s)
           m == Len(trace)
<1>1. trace \in Seq(Record)
  BY TraceRecords DEF LogInv
<1>2. Faithful(trace, s)
  BY TracesFaithful
<1> HIDE DEF trace
<1>3. DOMAIN trace = 1 .. m /\ m \in Nat
  BY <1>1
<1>4. plan \in [Session -> Seq(AnyRow)] /\ at[s] \in Nat /\ at[s] <= Len(plan[s])
  BY DEF LogInv, GatewayInv
<1>5. ASSUME NEW k \in 1 .. m
      PROVE  trace[k].session = s /\ trace[k].nr \in 1 .. at[s]
  BY <1>2, <1>3 DEF Faithful
<1>6. ASSUME NEW k \in 1 .. m, NEW l \in 1 .. m, k < l PROVE trace[k].nr < trace[l].nr
  BY <1>2, <1>3, <1>6 DEF Faithful
<1>7. Rows(trace) = [k \in 1 .. m |-> plan[s][trace[k].nr]]
  BY <1>3, <1>5 DEF Rows
<1>8. \A k \in 1 .. m : plan[s][trace[k].nr] \in AnyRow
  BY <1>4, <1>5
<1>9. Rows(trace) \in Seq(AnyRow) /\ Len(Rows(trace)) = m
  BY <1>3, <1>7, <1>8
<1> QED
  BY <1>1, <1>5, <1>6, <1>7, <1>9 DEF trace

\* The tools of rows in order are in order among all rows that precede the last of them.
LEMMA InOrderOfAll ==
  ASSUME NEW Tool, NEW tools \in Seq(Tool), NEW some \in Seq(AnyRow), NEW all \in Seq(AnyRow),
         NEW n \in Nat, n <= Len(all), NEW nr \in [1 .. Len(some) -> 1 .. n],
         \A k \in 1 .. Len(some) : some[k] = all[nr[k]],
         \A k, l \in 1 .. Len(some) : k < l => nr[k] < nr[l],
         InOrder(tools, some)
  PROVE  InOrder(tools, SubSeq(all, 1, n))
<1> DEFINE prefix == SubSeq(all, 1, n)
<1>1. \A i \in 1 .. n : all[i] \in AnyRow
  OBVIOUS
<1>2. /\ prefix \in Seq(AnyRow) /\ Len(prefix) = n
      /\ \A i \in 1 .. n : prefix[i] = all[i]
  BY <1>1, SubSeqProperties
<1> HIDE DEF prefix
<1>3. DOMAIN prefix = 1 .. n /\ DOMAIN some = 1 .. Len(some) /\ DOMAIN tools = 1 .. Len(tools)
  BY <1>2
<1>4. PICK place \in [DOMAIN tools -> DOMAIN some] :
        /\ \A i \in DOMAIN tools : some[place[i]].tool = tools[i]
        /\ \A i, k \in DOMAIN tools : i < k => place[i] < place[k]
  BY DEF InOrder
<1> DEFINE found == [i \in DOMAIN tools |-> nr[place[i]]]
<1>5. found \in [DOMAIN tools -> DOMAIN prefix]
  BY <1>3, <1>4
<1>6. \A i \in DOMAIN tools : found[i] \in 1 .. n /\ prefix[found[i]].tool = tools[i]
  BY <1>2, <1>3, <1>4
<1>7. \A i, k \in DOMAIN tools : i < k => found[i] < found[k]
  BY <1>3, <1>4
<1> HIDE DEF found
<1> QED
  BY <1>5, <1>6, <1>7 DEF InOrder, prefix

LEMMA EndsWithRow ==
  ASSUME NEW outcome \in Outcomes, NEW rows, EndsWith(outcome, rows)
  PROVE  rows # <<>> /\ Last(rows).decision = outcome
<1>1. outcome # ""
  BY Zenon DEF Outcomes
<1> QED
  BY <1>1, Zenon DEF EndsWith

LEMMA EvidenceOfCase ==
  ASSUME LogInv, NEW j \in Job, CasesLeft(j), ~IsStorm(j), Loadable(job[j].suite),
         Judge(j, Rows(Trace(NewSession(j)))) = {}
  PROVE  Evidence(NewSession(j))
<1> DEFINE s == NewSession(j)
           c == Case(j)
           trace == Trace(s)
           rows == Rows(trace)
           m == Len(trace)
<1>1. s \in Session /\ s[1] = j /\ c = job[j].suite[s[2]]
  BY NewSessions DEF LogInv, NewSession, Case
<1>2. Len(results[j]) + 1 \in DOMAIN job[j].suite
  BY CaseFacts DEF LogInv
<1>3. c.policyOutcome \in Outcomes
  BY <1>2 DEF Loadable, Case
<1>4. c.mustInclude \in Seq(Range(c.mustInclude))
  <2>1. job[j] \in Jobs
    BY JobFacts DEF LogInv, StageInv
  <2> QED
    BY <1>2, <2>1, JobsAssumption DEF Case
<1>5. Evaluate(c, rows) = {}
  BY DEF Judge, IsStorm
<1>6. Includes(c.mustInclude, rows) /\ EndsWith(c.policyOutcome, rows)
  BY <1>5 DEF Evaluate
<1>7. rows # <<>> /\ Last(rows).decision = c.policyOutcome
  <2> HIDE DEF rows
  <2> QED
    BY <1>3, <1>6, EndsWithRow
<1> HIDE DEF s
<1>8. /\ trace \in Seq(Record) /\ rows \in Seq(AnyRow) /\ Len(rows) = m
      /\ \A k \in 1 .. m : trace[k].nr \in 1 .. at[s] /\ rows[k] = plan[s][trace[k].nr]
      /\ \A k, l \in 1 .. m : k < l => trace[k].nr < trace[l].nr
  BY <1>1, RowsOfTrace
<1>9. plan[s] \in Seq(AnyRow) /\ at[s] \in Nat /\ at[s] <= Len(plan[s])
  BY <1>1 DEF LogInv, GatewayInv
<1> HIDE DEF c, trace, rows
<1>10. InOrder(c.mustInclude, rows)
  BY <1>4, <1>6, <1>8, IncludesInOrder
<1>11. m \in Nat \ {0} /\ m \in 1 .. m
  BY <1>7, <1>8, EmptySeq
<1> DEFINE n == trace[m].nr
           nr == [k \in 1 .. Len(rows) |-> trace[k].nr]
<1>12. n \in 1 .. at[s] /\ n \in Nat /\ n <= Len(plan[s])
  BY <1>8, <1>9, <1>11
<1>13. plan[s][n].decision = c.policyOutcome
  <2>1. Last(rows) = rows[m]
    BY <1>8 DEF Last
  <2> QED
    BY <1>7, <1>8, <1>11, <2>1
<1>14. nr \in [1 .. Len(rows) -> 1 .. n]
  <2>1. ASSUME NEW k \in 1 .. m PROVE trace[k].nr \in 1 .. n
    <3>1. k = m \/ k < m
      BY <1>11
    <3> QED
      BY <1>8, <1>9, <1>11, <1>12, <3>1
  <2> QED
    BY <1>8, <2>1
<1>15. /\ \A k \in 1 .. Len(rows) : rows[k] = plan[s][nr[k]]
       /\ \A k, l \in 1 .. Len(rows) : k < l => nr[k] < nr[l]
  BY <1>8
<1> HIDE DEF n, nr, m
<1>16. InOrder(c.mustInclude, SubSeq(plan[s], 1, n))
  BY <1>4, <1>8, <1>9, <1>10, <1>12, <1>14, <1>15, InOrderOfAll
<1>17. Evidence(s)
  BY <1>1, <1>12, <1>13, <1>16 DEF Evidence, IsStorm
<1> QED
  BY <1>17 DEF s

LEMMA EvidenceOfStorm ==
  ASSUME LogInv, BudgetInv, NEW j \in Job, CasesLeft(j), IsStorm(j),
         Judge(j, Rows(Trace(NewSession(j)))) = {}
  PROVE  Evidence(NewSession(j))
<1> DEFINE s == NewSession(j)
           trace == Trace(s)
           rows == Rows(trace)
<1>1. s \in Session /\ s[1] = j
  BY NewSessions DEF LogInv, NewSession
<1>2. "budgetExceeded" \in Decisions(rows)
  BY DEF Judge, IsStorm, Found
<1> HIDE DEF s
<1>3. /\ rows \in Seq(AnyRow) /\ Len(rows) = Len(trace)
      /\ \A k \in 1 .. Len(trace) : trace[k].nr \in 1 .. at[s] /\ rows[k] = plan[s][trace[k].nr]
  BY <1>1, RowsOfTrace
<1>4. plan[s] \in Seq(AnyRow) /\ at[s] \in Nat /\ at[s] <= Len(plan[s])
  BY <1>1 DEF LogInv, GatewayInv
<1> HIDE DEF trace, rows
<1>5. PICK k \in 1 .. Len(trace) : rows[k].decision = "budgetExceeded"
  BY <1>2, <1>3 DEF Decisions
<1>6. trace[k].nr \in 1 .. at[s] /\ plan[s][trace[k].nr].decision = "budgetExceeded"
  BY <1>3, <1>5
<1>7. trace[k].nr \in 1 .. Len(plan[s]) /\ InBudget(plan[s])
  BY <1>1, <1>4, <1>6 DEF BudgetInv
<1>8. Counted(SubSeq(plan[s], 1, trace[k].nr)) = Budget
  BY <1>6, <1>7 DEF InBudget
<1>9. Evidence(s)
  BY <1>1, <1>6, <1>8 DEF Evidence, IsStorm
<1> QED
  BY <1>9 DEF s

PassedOnEvidence(j, i) == Passes(results[j][i]) => Evidence(<<j, i>>)

PassInv == \A j \in Job : \A i \in DOMAIN results[j] : PassedOnEvidence(j, i)

LEMMA PassInductive ==
  ASSUME LogInv, BudgetInv, PassInv, [Next]_vars
  PROVE  PassInv'
<1> SUFFICES ASSUME NEW j \in Job, NEW i \in DOMAIN results'[j]
             PROVE  PassedOnEvidence(j, i)'
  BY DEF PassInv
<1>1. StageInv /\ GatewayInv /\ Stage(j)
  BY DEF LogInv, StageInv
<1>2. CASE i \in DOMAIN results[j] /\ results'[j][i] = results[j][i]
  <2>1. Passes(results[j][i]) => Evidence(<<j, i>>)
    BY <1>2 DEF PassInv, PassedOnEvidence
  <2>2. <<j, i>> \in Session
    <3>1. results[j] \in Seq(Result) /\ Len(job[j].suite) <= MaxCases /\ Len(job[j].suite) \in Nat
      BY <1>1, JobFacts DEF StageInv
    <3>2. Len(results[j]) \in Nat /\ i \in 1 .. Len(results[j])
      BY <1>2, <3>1
    <3> QED
      BY <1>1, <3>1, <3>2, MaxCasesAssumption DEF Stage, Session
  <2>3. Evidence(<<j, i>>) => Evidence(<<j, i>>)'
    BY <2>2, EvidenceStays
  <2> QED
    BY <1>2, <2>1, <2>3 DEF PassedOnEvidence, Passes
<1>3. ASSUME NEW failures, NEW trace, NewResult(j, failures, trace), <<j, i>> = NewSession(j),
             results'[j][i] = [failures |-> failures, trace |-> trace]
      PROVE  PassedOnEvidence(j, i)'
  <2> SUFFICES ASSUME failures = {} PROVE Evidence(<<j, i>>)'
    BY <1>3 DEF PassedOnEvidence, Passes
  <2>1. /\ pc[j] = "poll" /\ CasesLeft(j) /\ Judge(j, Rows(Trace(queried[j]))) = {}
    BY <1>3 DEF NewResult, Concluded
  <2>2. ~IsStorm(j) => Loadable(job[j].suite)
    BY <1>1, <2>1 DEF Stage
  <2>3. queried[j] = NewSession(j) \/ (queried[j] = NoSession /\ ~IsStorm(j))
    BY <1>1, <2>1 DEF Stage
  <2>4. Evidence(NewSession(j))
    <3>1. CASE queried[j] = NewSession(j)
      BY <2>1, <2>2, <3>1, EvidenceOfCase, EvidenceOfStorm
    <3>2. CASE queried[j] = NoSession /\ ~IsStorm(j)
      <4> DEFINE rows == Rows(Trace(NoSession))
      <4>1. rows = <<>>
        <5>1. DOMAIN Trace(NoSession) = {}
          BY <1>1, NoTrace
        <5> QED
          BY <5>1 DEF Rows
      <4>2. Case(j).policyOutcome \in Outcomes
        <5>1. Len(results[j]) + 1 \in DOMAIN job[j].suite
          BY <1>1, <2>1, CaseFacts
        <5> QED
          BY <2>2, <3>2, <5>1 DEF Loadable, Case
      <4>3. Evaluate(Case(j), rows) = {}
        BY <2>1, <3>2 DEF Judge, IsStorm
      <4>4. EndsWith(Case(j).policyOutcome, rows)
        BY <4>3 DEF Evaluate
      <4> HIDE DEF rows
      <4> QED
        BY <4>1, <4>2, <4>4, EndsWithRow
    <3> QED
      BY <2>3, <3>1, <3>2
  <2>5. NewSession(j) \in Session
    BY <1>1, <2>1, NewSessions
  <2> QED
    BY <1>3, <2>4, <2>5, EvidenceStays
<1> QED
  BY <1>1, <1>2, <1>3, OldAndNew

\* A run passes when it has ended with a passing result for every case.
Deserved(j) ==
  verdict[j] = "pass" =>
    /\ pc[j] \in {"down", "ended"}
    /\ AllPass(results[j]) /\ Len(results[j]) = Len(job[j].suite)

VerdictInv == \A j \in Job : Deserved(j)

LEMMA VerdictInductive ==
  ASSUME LogInv, VerdictInv, [Next]_vars
  PROVE  VerdictInv'
<1> SUFFICES ASSUME NEW k \in Job PROVE Deserved(k)'
  BY DEF VerdictInv
<1>1. /\ pc \in [Job -> Places] /\ verdict \in [Job -> {"none", "pass", "fail"}]
      /\ results \in [Job -> Seq(Result)] /\ \A j \in Job : Stage(j)
  BY DEF LogInv, StageInv, PlacesInv, RunnerTypes
<1>2. Deserved(k) /\ job' = job
  BY JobsStay DEF VerdictInv
<1>3. ASSUME verdict'[k] = verdict[k], results'[k] = results[k],
             pc'[k] = pc[k] \/ pc'[k] = "ended"
      PROVE  Deserved(k)'
  BY <1>2, <1>3 DEF Deserved, AllPass, Passes
<1>4. ASSUME NEW j \in Job, QuietStep(j), j # k PROVE Deserved(k)'
  <2> USE <1>1 DEF Goto, End, Conclude, RunFails
  <2>1. CASE BeginCli(j) \/ BeginRequest(j)
    BY <1>3, <1>4, <2>1 DEF BeginCli, BeginRequest
  <2>2. CASE CheckPrecondition(j) \/ Connect(j) \/ Finish(j) \/ StreamBreaks(j)
    BY <1>3, <1>4, <2>2 DEF CheckPrecondition, Connect, Finish, StreamBreaks
  <2>3. CASE TriggerReturns(j) \/ TriggerFails(j)
    BY <1>3, <1>4, <2>3 DEF TriggerReturns, TriggerFails
  <2>4. CASE StormBegins(j) \/ StormReturns(j) \/ StormFails(j)
    BY <1>3, <1>4, <2>4 DEF StormBegins, StormReturns, Respond, StormFails
  <2>5. CASE Query(j) \/ PollFails(j)
    BY <1>3, <1>4, <2>5 DEF Query, PollFails
  <2> QED
    BY <1>4, <2>1, <2>2, <2>3, <2>4, <2>5 DEF QuietStep
<1>5. ASSUME QuietStep(k) PROVE Deserved(k)'
  <2>1. pc[k] \notin {"down", "ended"}
    BY <1>5 DEF QuietStep, BeginCli, BeginRequest, CheckPrecondition, Connect, Finish,
       TriggerReturns, TriggerFails, StreamBreaks, StormBegins, StormReturns, Respond,
       StormFails, Query, PollFails
  <2>2. verdict[k] # "pass"
    BY <1>2, <2>1 DEF Deserved
  <2>3. CASE Finish(k)
    <3>1. /\ ~CasesLeft(k) /\ results' = results /\ pc'[k] \in {"down", "ended"}
          /\ verdict'[k] = IF AllPass(results[k]) THEN "pass" ELSE "fail"
      BY <1>1, <2>3 DEF Finish, Goto
    <3>2. Len(results[k]) = Len(job[k].suite)
      <4>1. Len(results[k]) \in Nat
        BY <1>1
      <4>2. Len(job[k].suite) \in Nat
        BY JobFacts DEF LogInv, StageInv
      <4> QED
        BY <1>1, <3>1, <4>1, <4>2 DEF CasesLeft, Stage
    <3> QED
      BY <1>2, <3>1, <3>2 DEF Deserved, AllPass, Passes
  <2>4. CASE ~Finish(k)
    <3>1. verdict'[k] # "pass"
      BY <1>1, <1>5, <2>2, <2>4 DEF QuietStep, BeginCli, BeginRequest, CheckPrecondition,
         Connect, TriggerReturns, TriggerFails, StreamBreaks, StormBegins, StormReturns,
         Respond, StormFails, Query, PollFails, End, Conclude, RunFails
    <3> QED
      BY <3>1 DEF Deserved
  <2> QED
    BY <2>3, <2>4
<1>6. ASSUME NEW j \in Job, ComposeUp(j) \/ Trigger(j) \/ StormCall(j) PROVE Deserved(k)'
  <2>1. /\ results' = results /\ pc[j] \in {"up", "next", "storm"}
        /\ verdict' = verdict \/ verdict' = [verdict EXCEPT ![j] = "fail"]
        /\ \E place : Goto(j, place)
    BY <1>6 DEF ComposeUp, Trigger, StormCall, End
  <2>2. CASE j = k
    BY <1>1, <1>2, <2>1, <2>2 DEF Deserved
  <2>3. CASE j # k
    BY <1>1, <1>3, <2>1, <2>3 DEF Goto
  <2> QED
    BY <2>2, <2>3
<1>7. ASSUME NEW j \in Job, ComposeDown(j) PROVE Deserved(k)'
  <2>1. /\ results' = results /\ (pc'[k] = pc[k] \/ pc'[k] = "ended")
        /\ verdict' = verdict \/ verdict' = [verdict EXCEPT ![j] = "fail"]
    BY <1>1, <1>7 DEF ComposeDown, End, Goto
  <2>2. CASE verdict'[k] = verdict[k]
    BY <1>3, <2>1, <2>2
  <2>3. CASE verdict'[k] # verdict[k]
    BY <1>1, <2>1, <2>3 DEF Deserved
  <2> QED
    BY <2>2, <2>3
<1>8. CASE \/ AuditStep \/ UNCHANGED vars \/ (\E j \in Job : Disconnect(j))
           \/ (\E s \in Session : GatewayWrites(s))
  BY <1>3, <1>8 DEF AuditStep, AuditTakes, AuditInserts, AuditFails, GatewayWrites, vars,
     runnerVars, Disconnect
<1> QED
  BY <1>4, <1>5, <1>6, <1>7, <1>8, Steps

\* Whatever fails, is lost, late or cut off, a case passes only if the gateway has done
\* what the case expects in its session, and a run only if it has so for every case.
THEOREM PassingNeedsEvidence == Spec => []PassNeedsEvidence
<1>1. Init => PassInv /\ VerdictInv
  BY DEF Init, PassInv, VerdictInv, Deserved
<1>2. LogInv /\ PassInv /\ VerdictInv => PassNeedsEvidence
  <2> SUFFICES ASSUME LogInv, PassInv, VerdictInv, NEW j \in Job, NEW i \in DOMAIN job[j].suite,
                      verdict[j] = "pass" \/ (IsResult(j, i) /\ Passes(results[j][i]))
               PROVE  Evidence(<<j, i>>)
    BY DEF PassNeedsEvidence
  <2>1. IsResult(j, i) /\ Passes(results[j][i])
    <3>1. CASE verdict[j] = "pass"
      <4>1. AllPass(results[j]) /\ Len(results[j]) = Len(job[j].suite)
        BY <3>1 DEF VerdictInv, Deserved
      <4>2. results[j] \in Seq(Result) /\ job[j].suite \in Seq(Range(job[j].suite))
        BY JobFacts DEF LogInv, StageInv
      <4>3. i \in DOMAIN results[j]
        BY <4>1, <4>2, LenProperties
      <4> QED
        BY <4>1, <4>3 DEF IsResult, AllPass
    <3> QED
      BY <3>1
  <2> QED
    BY <2>1 DEF PassInv, PassedOnEvidence, IsResult
<1> QED
  BY <1>1, <1>2, LogInitially, LogInductive, BudgetInitially, BudgetInductive, PassInductive,
     VerdictInductive, PTL DEF Spec

-----------------------------------------------------------------------------
\* Without faults.

Calm == env = {} /\ ~lost

\* Where a case at hand is: services and client are there, the poll begins when all is
\* written, and a storm that has not been refused has been counted.
CalmStage(j) ==
  /\ j \notin gone
  /\ Busy(j) \/ pc[j] = "connect" => stack = "up"
  /\ pc[j] = "poll" => queried[j] = NewSession(j) /\ at[queried[j]] = Len(plan[queried[j]])
  /\ IsStorm(j) /\ pc[j] \in {"storm", "called", "poll"} =>
       \/ "budgetExceeded" \in Decisions(plan[queried[j]])
       \/ pc[j] # "poll" /\ calls[j] <= Counted(plan[queried[j]])

CalmInv == Calm => \A j \in Job : CalmStage(j)

LEMMA CalmBefore ==
  ASSUME LogInv, [Next]_vars, Calm'
  PROVE  Calm
BY LostStays, JobsStay DEF Calm

\* Only a job's own session is given rows.
LEMMA PlanStays ==
  ASSUME LogInv, [Next]_vars, Calm', NEW s \in Session
  PROVE  \/ plan'[s] = plan[s]
         \/ \E j \in Job : s = NewSession(j) /\ (Trigger(j) \/ StormCall(j))
<1>1. plan \in [Session -> Seq(AnyRow)] /\ \A j \in Job : Stage(j)
  BY DEF LogInv, GatewayInv, StageInv
<1>2. ASSUME NEW j \in Job, Trigger(j) PROVE plan'[s] = plan[s] \/ s = NewSession(j)
  BY <1>1, <1>2 DEF Trigger
<1>3. ASSUME NEW j \in Job, StormCall(j) PROVE plan'[s] = plan[s] \/ s = NewSession(j)
  <2>1. queried[j] = NewSession(j)
    BY <1>1, <1>3 DEF StormCall, Stage
  <2>2. \E rows : plan' = [plan EXCEPT ![queried[j]] = plan[queried[j]] \o rows]
    BY <1>3 DEF StormCall
  <2> QED
    BY <1>1, <2>1, <2>2
<1>4. ASSUME NEW j \in Job, ComposeUp(j) \/ ComposeDown(j) PROVE plan' = plan
  BY <1>4 DEF ComposeUp, ComposeDown, ServicesStop, gatewayVars, Calm
<1>5. ASSUME NEW j \in Job, QuietStep(j) PROVE plan' = plan
  BY <1>5, QuietStepsStay DEF gatewayVars
<1>6. CASE \/ AuditStep \/ UNCHANGED vars \/ (\E j \in Job : Disconnect(j))
           \/ (\E t \in Session : GatewayWrites(t))
  BY <1>6 DEF AuditStep, AuditTakes, AuditInserts, AuditFails, vars, gatewayVars,
     Disconnect, GatewayWrites
<1> QED
  BY <1>2, <1>3, <1>4, <1>5, <1>6, Steps

\* A step that is not the job's own.
LEMMA CalmStays ==
  ASSUME LogInv, Calm, [Next]_vars, Calm', NEW k \in Job, CalmStage(k),
         UNCHANGED <<pc[k], results[k], queried[k], calls[k]>>,
         stack' = stack \/ stack' = "up", k \notin gone',
         pc[k] \in {"storm", "called", "poll"} => plan'[queried[k]] = plan[queried[k]],
         pc[k] = "poll" => at'[queried[k]] = at[queried[k]]
  PROVE  CalmStage(k)'
BY JobsStay DEF CalmStage, Busy, IsStorm, NewSession, Counted, Decisions

LEMMA CalmRows ==
  ASSUME NEW old \in Seq(AnyRow), env = {}, NEW rows \in StormRows(old), NEW n \in Nat,
         "budgetExceeded" \in Decisions(old) \/ n <= Counted(old)
  PROVE  "budgetExceeded" \in Decisions(old \o rows) \/ n + 1 <= Counted(old \o rows)
<1> DEFINE R(decision) == Row(StormTool, decision)
           one == Append(old, R("allow"))
           m == Len(old)
<1>1. /\ R("allow") \in AnyRow /\ R("upstream_error") \in AnyRow /\ R("budgetExceeded") \in AnyRow
      /\ \A d : R(d).decision = d
  BY DEF AnyRow, Row
<1>2. rows \in { <<R("budgetExceeded")>>, <<R("allow")>>, <<R("allow"), R("upstream_error")>> }
  BY DEF StormRows
<1> HIDE DEF R
<1>3. rows \in Seq(AnyRow) /\ old \o rows \in Seq(AnyRow) /\ m \in Nat
      /\ \A i \in 1 .. m : (old \o rows)[i] = old[i]
      /\ Len(old \o rows) >= m
  <2>1. rows \in Seq(AnyRow)
    BY StormRowsFit
  <2> QED
    BY <2>1, ConcatProperties, LenProperties
<1>4. CASE "budgetExceeded" \in Decisions(old)
  <2>1. PICK i \in 1 .. m : old[i].decision = "budgetExceeded"
    BY <1>4 DEF Decisions
  <2> DEFINE new == old \o rows
  <2>2. i \in DOMAIN new /\ new[i].decision = "budgetExceeded"
    BY <1>3, <2>1
  <2> HIDE DEF new
  <2>3. "budgetExceeded" \in Decisions(new)
    BY <2>2 DEF Decisions
  <2> QED
    BY <2>3 DEF new
<1>5. CASE rows = <<R("budgetExceeded")>>
  <2> DEFINE new == Append(old, R("budgetExceeded"))
  <2>1. m + 1 \in DOMAIN new /\ new[m + 1] = R("budgetExceeded")
    BY <1>1, <1>3
  <2>2. old \o rows = new
    BY <1>1, <1>5, AppendIsConcat
  <2> HIDE DEF new, m
  <2>3. "budgetExceeded" \in Decisions(new)
    BY <1>1, <2>1 DEF Decisions
  <2> QED
    BY <2>2, <2>3
<1>6. CASE n <= Counted(old) /\ rows # <<R("budgetExceeded")>>
  <2>1. one \in Seq(AnyRow) /\ Counted(one) = Counted(old) + 1 /\ Counted(old) \in Nat
    BY <1>1, CountedNext, CountedRows
  <2>2. old \o <<R("allow")>> = one
    BY <1>1, AppendIsConcat
  <2>3. old \o <<R("allow"), R("upstream_error")>> = Append(one, R("upstream_error"))
    BY <1>1
  <2> HIDE DEF one
  <2>4. Counted(Append(one, R("upstream_error"))) = Counted(one)
    BY <1>1, <2>1, CountedNext
  <2>5. n + 1 <= Counted(one)
    BY <1>6, <2>1
  <2>6. CASE rows = <<R("allow")>>
    BY <2>2, <2>5, <2>6
  <2>7. CASE rows = <<R("allow"), R("upstream_error")>>
    BY <2>3, <2>4, <2>5, <2>7
  <2> QED
    BY <1>2, <1>6, <2>6, <2>7
<1> QED
  BY <1>4, <1>5, <1>6

\* A job that is not where it asks for records has little to keep.
LEMMA CalmElsewhere ==
  ASSUME NEW k \in Job, k \notin gone', pc'[k] \notin {"storm", "called", "poll"},
         Busy(k)' \/ pc'[k] = "connect" => stack' = "up"
  PROVE  CalmStage(k)'
BY DEF CalmStage

\* The job's own steps but those that change stack or session.
LEMMA CalmQuietly ==
  ASSUME LogInv, Calm, [Next]_vars, Calm', NEW k \in Job, CalmStage(k), QuietStep(k)
  PROVE  CalmStage(k)'
<1>1. /\ pc \in [Job -> Places] /\ Stage(k) /\ CallsFit(k) /\ calls \in [Job -> Nat]
      /\ queried \in [Job -> Session \cup {NoSession}] /\ plan \in [Session -> Seq(AnyRow)]
  BY DEF LogInv, GatewayInv, StageInv, PlacesInv, RunnerTypes
<1>2. env = {} /\ UNCHANGED <<constants, stack, gone, plan, at>> /\ job' = job /\ k \notin gone
  BY QuietStepsStay DEF Calm, CalmStage, gatewayVars, constants
<1>3. Busy(k) \/ pc[k] = "connect" => Connected(k) /\ stack = "up"
  BY <1>2 DEF CalmStage, Connected
<1>4. CASE BeginCli(k) \/ BeginRequest(k) \/ CheckPrecondition(k) \/ Connect(k) \/ Finish(k)
             \/ StreamBreaks(k)
  <2>1. /\ pc'[k] \notin {"storm", "called", "poll"}
        /\ Busy(k)' \/ pc'[k] = "connect" => stack = "up"
    BY <1>1, <1>2, <1>3, <1>4 DEF BeginCli, BeginRequest, CheckPrecondition, Connect, Finish,
       StreamBreaks, Goto, End, Conclude, Busy
  <2> QED
    BY <1>2, <2>1, CalmElsewhere
<1>5. CASE TriggerFails(k) \/ StormFails(k) \/ PollFails(k)
  BY <1>2, <1>3, <1>5 DEF TriggerFails, StormFails, PollFails, Busy
<1>6. CASE Query(k)
  <2>1. pc'[k] = "next" /\ stack' = "up"
    BY <1>1, <1>2, <1>3, <1>6 DEF Query, Conclude, Goto, Busy
  <2> QED
    BY <1>2, <2>1, CalmElsewhere
<1>7. CASE TriggerReturns(k)
  <2>1. /\ pc[k] = "triggered" /\ pc' = [pc EXCEPT ![k] = "poll"] /\ UNCHANGED <<results, calls>>
        /\ at[NewSession(k)] = Len(plan[NewSession(k)])
        /\ queried' = [queried EXCEPT ![k] = NewSession(k)]
    BY <1>2, <1>7 DEF TriggerReturns, Goto
  <2>2. pc'[k] = "poll" /\ queried'[k] = NewSession(k) /\ ~IsStorm(k)
    BY <1>1, <2>1 DEF Stage
  <2> QED
    BY <1>2, <1>3, <2>1, <2>2 DEF CalmStage, Busy, IsStorm, NewSession
<1>8. CASE StormBegins(k)
  <2>1. /\ pc[k] = "next" /\ pc' = [pc EXCEPT ![k] = "storm"] /\ UNCHANGED <<results, calls>>
        /\ queried' = [queried EXCEPT ![k] = NewSession(k)] /\ CasesLeft(k) /\ IsStorm(k)
    BY <1>2, <1>3, <1>8 DEF StormBegins, Goto, Busy, IsStorm
  <2>2. pc'[k] = "storm" /\ queried'[k] = NewSession(k) /\ NewSession(k) \in Session
    BY <1>1, <2>1, NewSessions DEF LogInv
  <2>3. calls'[k] = 0
    BY <1>1, <2>1, CaseFacts DEF CallsFit, LogInv
  <2>4. plan'[queried'[k]] = plan[NewSession(k)] /\ Counted(plan[NewSession(k)]) >= 0
    BY <1>1, <1>2, <2>2, CountedRows
  <2>5. calls'[k] <= Counted(plan'[queried'[k]])
    BY <2>3, <2>4
  <2>6. stack' = "up"
    BY <1>2, <1>3, <2>1 DEF Busy
  <2> QED
    BY <1>2, <2>2, <2>5, <2>6 DEF CalmStage, Counted
<1>9. CASE StormReturns(k)
  <2>1. /\ pc[k] = "called" /\ at[queried[k]] = Len(plan[queried[k]])
        /\ \/ /\ "budgetExceeded" \in Decisions(plan[queried[k]])
              /\ pc' = [pc EXCEPT ![k] = "poll"] /\ UNCHANGED <<results, queried, calls>>
           \/ pc' = [pc EXCEPT ![k] = "storm"] /\ UNCHANGED <<results, queried, calls>>
           \/ pc' = [pc EXCEPT ![k] = "next"]
    BY <1>9 DEF StormReturns, Respond, Conclude, Goto
  <2>2. queried[k] = NewSession(k) /\ IsStorm(k) /\ stack' = "up"
    BY <1>1, <1>2, <1>3, <2>1 DEF Stage, Busy
  <2>3. CASE pc'[k] = "next"
    BY <1>2, <2>2, <2>3, CalmElsewhere
  <2>4. CASE pc'[k] \in {"poll", "storm"} /\ UNCHANGED <<results, queried, calls>>
    <3>1. \/ "budgetExceeded" \in Decisions(plan[queried[k]])
          \/ pc'[k] # "poll" /\ calls[k] <= Counted(plan[queried[k]])
      BY <1>1, <2>1, <2>2, <2>4 DEF CalmStage
    <3> QED
      BY <1>2, <2>1, <2>2, <2>4, <3>1 DEF CalmStage, NewSession, Counted, Decisions
  <2> QED
    BY <1>1, <2>1, <2>3, <2>4
<1> QED
  BY <1>4, <1>5, <1>6, <1>7, <1>8, <1>9 DEF QuietStep

LEMMA CalmInductive ==
  ASSUME LogInv, CalmInv, [Next]_vars
  PROVE  CalmInv'
<1> SUFFICES ASSUME Calm', NEW k \in Job PROVE CalmStage(k)'
  BY DEF CalmInv
<1>1. Calm /\ CalmStage(k) /\ env = {} /\ ~lost'
  BY CalmBefore DEF CalmInv, Calm
<1>2. /\ pc \in [Job -> Places] /\ Stage(k) /\ calls \in [Job -> Nat]
      /\ results \in [Job -> Seq(Result)]
      /\ queried \in [Job -> Session \cup {NoSession}] /\ plan \in [Session -> Seq(AnyRow)]
      /\ at \in [Session -> Nat]
  BY DEF LogInv, GatewayInv, StageInv, PlacesInv, RunnerTypes
<1>3. /\ pc[k] \in {"storm", "called"} => queried[k] = NewSession(k)
      /\ pc[k] = "poll" => queried[k] = NewSession(k)
      /\ pc[k] \in {"storm", "called", "poll"} => NewSession(k) \in Session
  BY <1>1, <1>2, NewSessions DEF Stage, CalmStage, Working, LogInv
<1>4. ASSUME NEW j \in Job, j # k PROVE NewSession(k) # NewSession(j)
  BY <1>4 DEF NewSession
<1>5. ASSUME NEW j \in Job, QuietStep(j) PROVE CalmStage(k)'
  <2>1. CASE j = k
    BY <1>1, <1>5, <2>1, CalmQuietly
  <2>2. CASE j # k
    <3>1. UNCHANGED <<stack, gone, plan, at>>
      BY <1>5, QuietStepsStay DEF gatewayVars
    <3>2. UNCHANGED <<pc[k], results[k], queried[k], calls[k]>>
      BY <1>2, <1>5, <2>2 DEF QuietStep, BeginCli, BeginRequest, CheckPrecondition, Connect,
         Finish, TriggerReturns, TriggerFails, StreamBreaks, StormBegins, StormReturns,
         Respond, StormFails, Query, PollFails, RunFails, Conclude, Goto, End
    <3>3. k \notin gone'
      BY <1>1, <3>1 DEF CalmStage
    <3> QED
      BY <1>1, <3>1, <3>2, <3>3, CalmStays
  <2> QED
    BY <2>1, <2>2
<1>6. ASSUME NEW j \in Job, ComposeUp(j) PROVE CalmStage(k)'
  <2>1. pc' = [pc EXCEPT ![j] = "connect"] /\ stack' = "up"
        /\ UNCHANGED <<results, queried, calls, gone, plan, at>>
    BY <1>1, <1>6 DEF ComposeUp, Goto, gatewayVars
  <2>2. k \notin gone'
    BY <1>1, <2>1 DEF CalmStage
  <2>3. CASE j = k
    <3>1. pc'[k] = "connect"
      BY <1>2, <2>1, <2>3
    <3> QED
      BY <2>1, <2>2, <3>1, CalmElsewhere
  <2>4. CASE j # k
    <3>1. pc'[k] = pc[k]
      BY <1>2, <2>1, <2>4
    <3> QED
      BY <1>1, <2>1, <2>2, <3>1, CalmStays
  <2> QED
    BY <2>3, <2>4
<1>7. ASSUME NEW j \in Job, ComposeDown(j) PROVE FALSE
  BY <1>1, <1>7 DEF ComposeDown, ServicesStop
<1>8. ASSUME NEW j \in Job, Trigger(j) \/ StormCall(j) PROVE CalmStage(k)'
  <2>1. /\ UNCHANGED <<results, queried, stack, gone, at>>
        /\ pc' = [pc EXCEPT ![j] = "triggered"] \/ pc' = [pc EXCEPT ![j] = "called"]
        /\ Connected(j)
    BY <1>8 DEF Trigger, StormCall, Goto
  <2>2. k \notin gone'
    BY <1>1, <2>1 DEF CalmStage
  <2>3. CASE j # k
    <3>1. pc'[k] = pc[k] /\ calls'[k] = calls[k]
      BY <1>2, <1>8, <2>1, <2>3 DEF Trigger, StormCall
    <3>2. \A s \in Session : s = NewSession(k) => plan'[s] = plan[s]
      <4> SUFFICES ASSUME NewSession(k) \in Session PROVE plan'[NewSession(k)] = plan[NewSession(k)]
        OBVIOUS
      <4>1. CASE Trigger(j)
        <5>1. \E rows : plan' = [plan EXCEPT ![NewSession(j)] = rows]
          BY <4>1 DEF Trigger
        <5> QED
          BY <1>2, <1>4, <2>3, <5>1
      <4>2. CASE StormCall(j)
        <5>1. queried[j] = NewSession(j)
          BY <4>2 DEF StormCall, LogInv, StageInv, Stage
        <5>2. \E rows : plan' = [plan EXCEPT ![queried[j]] = plan[queried[j]] \o rows]
          BY <4>2 DEF StormCall
        <5> QED
          BY <1>2, <1>4, <2>3, <5>1, <5>2
      <4> QED
        BY <1>8, <4>1, <4>2
    <3> QED
      BY <1>1, <1>3, <2>1, <2>2, <3>1, <3>2, CalmStays
  <2>4. CASE j = k /\ Trigger(k)
    <3>1. pc'[k] = "triggered" /\ stack' = "up"
      BY <1>2, <2>1, <2>4 DEF Trigger, Goto, Connected
    <3> QED
      BY <2>2, <3>1, CalmElsewhere
  <2>5. CASE j = k /\ StormCall(k)
    <3>1. /\ pc[k] = "storm" /\ pc' = [pc EXCEPT ![k] = "called"]
          /\ calls' = [calls EXCEPT ![k] = calls[k] + 1]
      BY <2>5 DEF StormCall, Goto
    <3>2. PICK rows \in StormRows(plan[queried[k]]) :
            plan' = [plan EXCEPT ![queried[k]] = plan[queried[k]] \o rows]
      BY <2>5 DEF StormCall
    <3>3. /\ pc'[k] = "called" /\ calls'[k] = calls[k] + 1 /\ queried'[k] = queried[k]
          /\ plan'[queried[k]] = plan[queried[k]] \o rows /\ plan[queried[k]] \in Seq(AnyRow)
      BY <1>2, <1>3, <2>1, <3>1, <3>2
    <3>4. "budgetExceeded" \in Decisions(plan[queried[k]]) \/ calls[k] <= Counted(plan[queried[k]])
      BY <1>2, <1>1, <3>1 DEF CalmStage, Stage
    <3>5. "budgetExceeded" \in Decisions(plan'[queried[k]])
            \/ calls'[k] <= Counted(plan'[queried[k]])
      <4> DEFINE old == plan[queried[k]]
      <4>1. calls[k] \in Nat /\ old \in Seq(AnyRow) /\ rows \in StormRows(old)
            /\ ("budgetExceeded" \in Decisions(old) \/ calls[k] <= Counted(old))
        BY <1>2, <3>2, <3>3, <3>4
      <4> HIDE DEF old
      <4>2. "budgetExceeded" \in Decisions(old \o rows) \/ calls[k] + 1 <= Counted(old \o rows)
        BY <1>1, <4>1, CalmRows
      <4>3. plan'[queried[k]] = old \o rows
        BY <3>3 DEF old
      <4> QED
        BY <3>3, <4>2, <4>3
    <3>6. stack' = "up"
      BY <2>1, <2>5 DEF Connected
    <3> QED
      BY <2>2, <3>3, <3>5, <3>6 DEF CalmStage, Counted, Decisions
  <2> QED
    BY <1>8, <2>3, <2>4, <2>5
<1>9. ASSUME NEW s \in Session, GatewayWrites(s) PROVE CalmStage(k)'
  <2>1. /\ UNCHANGED <<stack, pc, results, queried, calls, gone, plan>> /\ at[s] < Len(plan[s])
        /\ at' = [at EXCEPT ![s] = at[s] + 1]
    BY <1>9 DEF GatewayWrites, runnerVars
  <2>2. pc[k] = "poll" => at'[queried[k]] = at[queried[k]]
    <3> SUFFICES ASSUME pc[k] = "poll" PROVE at'[queried[k]] = at[queried[k]]
      OBVIOUS
    <3>1. at[queried[k]] = Len(plan[queried[k]])
      BY <1>1 DEF CalmStage
    <3>2. s # queried[k]
      BY <1>2, <2>1, <3>1
    <3> QED
      BY <1>2, <1>3, <2>1, <3>2
  <2>3. k \notin gone'
    BY <1>1, <2>1 DEF CalmStage
  <2> QED
    BY <1>1, <2>1, <2>2, <2>3, CalmStays
<1>10. ASSUME NEW j \in Job, Disconnect(j) PROVE FALSE
  BY <1>1, <1>10 DEF Disconnect
<1>11. CASE AuditStep \/ UNCHANGED vars
  <2>1. UNCHANGED <<stack, pc, results, queried, calls, gone, plan, at>>
    BY <1>11 DEF AuditStep, AuditTakes, AuditInserts, AuditFails, vars, runnerVars, gatewayVars
  <2>2. k \notin gone'
    BY <1>1, <2>1 DEF CalmStage
  <2> QED
    BY <1>1, <2>1, <2>2, CalmStays
<1> QED
  BY <1>5, <1>6, <1>7, <1>8, <1>9, <1>10, <1>11, Steps

\* At the deadline, the log has all records of the session.
LEMMA FlushedTrace ==
  ASSUME LogInv, ~lost, NEW s \in Session, Flushed(s)
  PROVE  Len(Trace(s)) = at[s]
<1> DEFINE trace == Trace(s)
           m == Len(trace)
           n == Len(auditLog)
           rest == worker \o queue
<1>1. Kept(Record) /\ at[s] \in Nat /\ Complete
  BY DEF LogInv, GatewayInv, RecordsInv
<1>2. Faithful(trace, s) /\ trace \in Seq(Record)
  BY TracesFaithful, TraceRecords DEF LogInv
<1>3. PICK from : Numbers(from, m, trace, auditLog, n, s)
  BY <1>1, TraceSelects DEF Kept, Selects
<1> HIDE DEF trace
<1>4. m \in Nat /\ \A k \in 1 .. m : trace[k].nr = k /\ trace[k].nr \in 1 .. at[s]
  BY <1>2 DEF Faithful
<1>5. m <= at[s]
  <2> SUFFICES ASSUME m # 0 PROVE m <= at[s]
    BY <1>1, <1>4
  <2>1. m \in 1 .. m
    BY <1>4
  <2> QED
    BY <1>1, <1>4, <2>1
<1>6. at[s] <= m
  <2> SUFFICES ASSUME at[s] # 0 PROVE at[s] <= m
    BY <1>1, <1>4
  <2>1. at[s] \in 1 .. at[s]
    BY <1>1
  <2>2. PICK i \in 1 .. Len(Records) : Records[i] = [session |-> s, nr |-> at[s]]
    BY <1>1, <2>1 DEF Complete
  <2>3. /\ rest \in Seq(Record) /\ auditLog \in Seq(Record) /\ Records = auditLog \o rest
    <3>1. auditLog \in Seq(Record) /\ worker \in Seq(Record) /\ queue \in Seq(Record)
      BY <1>1 DEF Kept
    <3> QED
      BY <3>1, ConcatProperties, ConcatAssociative DEF Records
  <2> HIDE DEF rest
  <2>4. /\ n \in Nat /\ Len(rest) \in Nat /\ DOMAIN rest = 1 .. Len(rest)
        /\ Len(Records) = n + Len(rest)
        /\ Records[i] = IF i <= n THEN auditLog[i] ELSE rest[i - n]
    BY <2>2, <2>3, ConcatProperties, LenProperties
  <2>5. i \in 1 .. n /\ auditLog[i] = [session |-> s, nr |-> at[s]]
    <3> SUFFICES ASSUME i > n PROVE FALSE
      BY <2>2, <2>4
    <3>1. i - n \in DOMAIN rest /\ rest[i - n].session = s
      BY <2>2, <2>4
    <3> QED
      BY <3>1 DEF Flushed, rest
  <2>6. PICK k \in 1 .. m : from[k] = i
    BY <1>3, <2>5 DEF Numbers
  <2>7. trace[k].nr = at[s]
    BY <1>3, <2>5, <2>6 DEF Numbers
  <2> QED
    BY <1>1, <1>4, <2>7
<1> QED
  BY <1>1, <1>4, <1>5, <1>6 DEF trace

CalmResult(j, i) ==
  LET s == <<j, i>>
  IN  IF IsStorm(j) THEN Passes(results[j][i])
      ELSE \/ \E k \in 1 .. Len(plan[s]) - 1 :
                plan[s][k].decision = job[j].suite[i].policyOutcome
           \/ "precondition" \in results[j][i].failures
           \/ Len(results[j][i].trace) = Len(plan[s])

CalmResultsInv == Calm => \A j \in Job : \A i \in DOMAIN results[j] : CalmResult(j, i)

\* What the query returns when everything is written: all rows, or those up to one with
\* the decision that was waited for.
LEMMA CalmQuery ==
  ASSUME LogInv, Calm, NEW j \in Job, CalmStage(j), pc[j] = "poll",
         NEW s, s = NewSession(j),
         Found(j, Rows(Trace(s))) \/ PastDeadline(j)
  PROVE  IF IsStorm(j) THEN Judge(j, Rows(Trace(s))) = {}
         ELSE \/ \E k \in 1 .. Len(plan[s]) - 1 : plan[s][k].decision = Case(j).policyOutcome
              \/ Len(Trace(s)) = Len(plan[s])
<1> DEFINE trace == Trace(s)
           rows == Rows(trace)
           m == Len(trace)
<1>1. Stage(j) /\ s = queried[j] /\ at[s] = Len(plan[s]) /\ env = {} /\ ~lost
  BY DEF LogInv, StageInv, CalmStage, Calm
<1>2. s \in Session
  BY <1>1, NewSessions DEF Stage, Working, LogInv
<1>3. at[s] \in Nat /\ plan[s] \in Seq(AnyRow)
  BY <1>2 DEF LogInv, GatewayInv
<1>4. Flushed(s) => m = at[s]
  BY <1>1, <1>2, FlushedTrace
<1>5. Faithful(trace, s)
  BY <1>2, TracesFaithful
<1>6. /\ trace \in Seq(Record) /\ rows \in Seq(AnyRow) /\ Len(rows) = m
      /\ \A k \in 1 .. m : trace[k].nr \in 1 .. at[s] /\ rows[k] = plan[s][trace[k].nr]
  BY <1>2, RowsOfTrace
<1>7. Found(j, rows) \/ Flushed(s)
  BY <1>1 DEF PastDeadline
<1> HIDE DEF trace, rows
<1>8. m \in Nat /\ \A k \in 1 .. m : trace[k].nr = k /\ k \in 1 .. at[s] /\ rows[k] = plan[s][k]
  BY <1>1, <1>5, <1>6 DEF Faithful
<1>9. CASE IsStorm(j)
  <2>1. Found(j, rows)
    <3> SUFFICES ASSUME Flushed(s) PROVE Found(j, rows)
      BY <1>7
    <3>1. "budgetExceeded" \in Decisions(plan[s])
      BY <1>1, <1>9 DEF CalmStage
    <3>2. PICK k \in 1 .. at[s] : plan[s][k].decision = "budgetExceeded"
      BY <1>1, <1>3, <3>1 DEF Decisions
    <3>3. k \in DOMAIN rows /\ rows[k].decision = "budgetExceeded"
      BY <1>4, <1>6, <1>8, <3>2
    <3>4. "budgetExceeded" \in Decisions(rows)
      BY <3>3 DEF Decisions
    <3> QED
      BY <1>9, <3>4 DEF Found, IsStorm
  <2> QED
    BY <1>9, <2>1 DEF Judge, IsStorm, rows, trace
<1>10. CASE ~IsStorm(j) /\ Flushed(s)
  BY <1>1, <1>4, <1>10 DEF trace
<1>11. CASE ~IsStorm(j) /\ Found(j, rows)
  <2>1. rows # <<>> /\ Last(rows).decision = Case(j).policyOutcome
    BY <1>11 DEF Found, IsStorm
  <2>2. m \in 1 .. m /\ Last(rows) = rows[m]
    BY <1>6, <1>8, <2>1, EmptySeq DEF Last
  <2>3. m \in 1 .. at[s] /\ plan[s][m].decision = Case(j).policyOutcome
    BY <1>8, <2>1, <2>2
  <2>4. m = Len(plan[s]) \/ m \in 1 .. Len(plan[s]) - 1
    BY <1>1, <1>3, <2>3
  <2> QED
    BY <1>11, <2>3, <2>4 DEF trace
<1> QED
  BY <1>7, <1>9, <1>10, <1>11

LEMMA CalmResultsInductive ==
  ASSUME LogInv, BudgetInv, CalmInv, CalmResultsInv, [Next]_vars
  PROVE  CalmResultsInv'
<1> SUFFICES ASSUME Calm', NEW j \in Job, NEW i \in DOMAIN results'[j]
             PROVE  CalmResult(j, i)'
  BY DEF CalmResultsInv
<1>1. Calm /\ CalmStage(j) /\ env = {} /\ job' = job /\ StageInv /\ Stage(j)
  BY CalmBefore, JobsStay DEF CalmInv, Calm, LogInv, StageInv
<1>2. CASE i \in DOMAIN results[j] /\ results'[j][i] = results[j][i]
  <2>1. results[j] \in Seq(Result) /\ Len(job[j].suite) <= MaxCases /\ Len(job[j].suite) \in Nat
    BY <1>1, JobFacts DEF StageInv
  <2>2. Len(results[j]) \in Nat /\ i \in 1 .. Len(results[j])
    BY <1>2, <2>1
  <2>3. <<j, i>> \in Session
    BY <1>1, <2>1, <2>2, MaxCasesAssumption DEF Stage, Session
  <2>4. \A k \in Job : <<j, i>> # NewSession(k)
    BY <2>2 DEF NewSession
  <2>5. plan'[<<j, i>>] = plan[<<j, i>>]
    BY <2>3, <2>4, PlanStays
  <2>6. CalmResult(j, i)
    BY <1>1, <1>2 DEF CalmResultsInv
  <2> QED
    BY <1>1, <1>2, <2>5, <2>6 DEF CalmResult, IsStorm, Passes
<1>3. ASSUME NEW failures, NEW trace, NewResult(j, failures, trace), <<j, i>> = NewSession(j),
             results'[j][i] = [failures |-> failures, trace |-> trace]
      PROVE  CalmResult(j, i)'
  <2>1. plan' = plan /\ Concluded(j, failures, trace) /\ Busy(j) /\ Case(j) = job[j].suite[i]
    BY <1>3 DEF NewResult, Concluded, NewSession, Case
  <2>2. CASE Aborts(j, failures)
    <3>1. Connected(j)
      BY <1>1, <2>1 DEF CalmStage, Connected
    <3>2. CASE pc[j] = "check" /\ failures = {"precondition"}
      BY <1>1, <1>3, <3>2 DEF Stage, CalmResult, IsStorm
    <3>3. CASE /\ pc[j] = "called" /\ calls[j] >= StormCalls
               /\ "budgetExceeded" \notin Decisions(plan[queried[j]])
      <4>1. IsStorm(j) /\ queried[j] = NewSession(j) /\ CasesLeft(j)
            /\ calls[j] <= Counted(plan[queried[j]])
        BY <1>1, <3>3 DEF Stage, Working, CalmStage
      <4>2. NewSession(j) \in Session
        BY <1>1, <4>1, NewSessions
      <4>3. plan[NewSession(j)] \in Seq(AnyRow) /\ InBudget(plan[NewSession(j)])
        BY <4>1, <4>2 DEF BudgetInv, NewSession, LogInv, GatewayInv
      <4>4. Counted(plan[queried[j]]) \in Nat /\ Counted(plan[queried[j]]) <= Budget
        BY <4>1, <4>3, CountedRows DEF InBudget
      <4>5. calls[j] \in Nat
        BY <1>1 DEF StageInv
      <4> QED
        BY <3>3, <4>1, <4>4, <4>5, StormAssumption
    <3> QED
      BY <1>1, <2>2, <3>1, <3>2, <3>3 DEF Aborts
  <2>3. CASE /\ pc[j] = "poll" /\ trace = Trace(queried[j]) /\ failures = Judge(j, Rows(trace))
             /\ Found(j, Rows(trace)) \/ PastDeadline(j)
    <3>1. queried[j] = NewSession(j) /\ trace = Trace(<<j, i>>)
      BY <1>1, <1>3, <2>3 DEF CalmStage
    <3>2. IF IsStorm(j) THEN failures = {}
          ELSE \/ \E k \in 1 .. Len(plan[<<j, i>>]) - 1 :
                    plan[<<j, i>>][k].decision = job[j].suite[i].policyOutcome
               \/ Len(trace) = Len(plan[<<j, i>>])
      BY <1>1, <1>3, <2>1, <2>3, <3>1, CalmQuery
    <3> QED
      BY <1>1, <1>3, <2>1, <3>2 DEF CalmResult, IsStorm, Passes
  <2> QED
    BY <2>1, <2>2, <2>3 DEF Concluded
<1> QED
  BY <1>1, <1>2, <1>3, OldAndNew

\* Without faults, a case whose expected decision can only come last is judged by all
\* records of its session, however they trickle in, and a storm always passes.
THEOREM FaultlessRunsAreJudged == Spec => []FaultlessVerdict
<1>1. Init => CalmInv /\ CalmResultsInv
  <2> SUFFICES ASSUME Init PROVE CalmInv /\ CalmResultsInv
    OBVIOUS
  <2>1. \A j \in Job : pc[j] = "idle" /\ results[j] = <<>> /\ j \notin gone
    BY DEF Init
  <2> QED
    BY <2>1 DEF CalmInv, CalmStage, Busy, CalmResultsInv
<1>2. CalmResultsInv => FaultlessVerdict
  <2> SUFFICES ASSUME CalmResultsInv, Calm, NEW s \in Session, IsResult(s[1], s[2])
               PROVE  LET j == s[1]
                          result == results[j][s[2]]
                          early == \E k \in 1 .. Len(plan[s]) - 1 :
                                     plan[s][k].decision = job[j].suite[s[2]].policyOutcome
                      IN  IF job[j].kind = "storm" THEN Passes(result)
                          ELSE ~early /\ "precondition" \notin result.failures =>
                                 Len(result.trace) = Len(plan[s])
    BY DEF FaultlessVerdict, Calm
  <2>1. s = <<s[1], s[2]>> /\ s[1] \in Job
    BY DEF Session
  <2>2. CalmResult(s[1], s[2])
    BY <2>1 DEF CalmResultsInv, IsResult
  <2> QED
    BY <2>1, <2>2 DEF CalmResult, IsStorm
<1> QED
  BY <1>1, <1>2, LogInitially, LogInductive, BudgetInitially, BudgetInductive, CalmInductive,
     CalmResultsInductive, PTL DEF Spec

-----------------------------------------------------------------------------
\* Jobs get on.

LEMMA LeftAt ==
  ASSUME StageInv, NEW j \in Job
  PROVE  /\ pc[j] = "idle" => Left(j) = 8 + 2 * StormCalls
         /\ pc[j] = "up" => Left(j) = 7 + 2 * StormCalls
         /\ pc[j] = "connect" => Left(j) = 6 + 2 * StormCalls
         /\ pc[j] = "check" => Left(j) = 5 + 2 * StormCalls
         /\ pc[j] = "next" => Left(j) = 4 + 2 * StormCalls
         /\ pc[j] = "called" => Left(j) = 2 * (StormCalls - calls[j]) + 3
         /\ pc[j] = "storm" => Left(j) = 2 * (StormCalls - calls[j]) + 2
         /\ pc[j] = "triggered" => Left(j) = 2
         /\ pc[j] \in {"poll", "down"} => Left(j) = 1
         /\ pc[j] = "ended" => Left(j) = 0
BY DEF Left

\* The step gives a result, or brings the job nearer to one.
GetsOn(j) ==
  \/ Len(results[j])' = Len(results[j]) + 1
  \/ results[j]' = results[j] /\ Left(j)' < Left(j)

\* Nothing happens to the job that RunsGetOn speaks of.
Rests(j) == UNCHANGED <<pc[j], results[j], verdict[j]>>

LEMMA ResultGetsOn ==
  ASSUME StageInv, NEW j \in Job, NEW failures, NEW trace, Conclude(j, failures, trace)
  PROVE  GetsOn(j)
<1>1. results[j] \in Seq(Result) /\ Len(results[j]) \in Nat
  BY LenProperties DEF StageInv
<1>2. results'[j] = Append(results[j], [failures |-> failures, trace |-> trace])
  BY DEF Conclude, StageInv
<1>3. Len(results'[j]) = Len(results[j]) + 1
  BY <1>1, <1>2
<1> QED
  BY <1>3 DEF GetsOn

\* From one place to a later one.
LEMMA PlaceGetsOn ==
  ASSUME StageInv, StageInv', NEW j \in Job, results' = results,
         \/ pc[j] = "idle" /\ pc'[j] \in {"up", "check", "next"}
         \/ pc[j] = "up" /\ pc'[j] = "connect"
         \/ pc[j] = "connect" /\ pc'[j] \in {"next", "down"}
         \/ pc[j] = "check" /\ pc'[j] = "next"
         \/ pc[j] = "next" /\ pc'[j] \in {"triggered", "down"}
         \/ pc[j] = "next" /\ pc'[j] = "storm"
         \/ pc[j] \in {"triggered", "called"} /\ pc'[j] = "poll"
         \/ pc[j] = "storm" /\ pc'[j] = "called" /\ calls'[j] = calls[j] + 1
         \/ pc[j] = "called" /\ pc'[j] = "storm" /\ calls'[j] = calls[j]
         \/ pc[j] # "ended" /\ pc'[j] = "ended"
  PROVE  GetsOn(j)
<1>1. /\ calls[j] \in Nat /\ calls'[j] \in Nat /\ StormCalls \in Nat
      /\ calls[j] <= StormCalls /\ calls'[j] <= StormCalls
      /\ pc[j] \in Places
  BY StormAssumption DEF StageInv, CallsFit, PlacesInv, RunnerTypes
<1>2. results'[j] = results[j]
  OBVIOUS
<1>3. /\ pc'[j] = "up" => Left(j)' = 7 + 2 * StormCalls
      /\ pc'[j] = "connect" => Left(j)' = 6 + 2 * StormCalls
      /\ pc'[j] = "check" => Left(j)' = 5 + 2 * StormCalls
      /\ pc'[j] = "next" => Left(j)' = 4 + 2 * StormCalls
      /\ pc'[j] = "called" => Left(j)' = 2 * (StormCalls - calls'[j]) + 3
      /\ pc'[j] = "storm" => Left(j)' = 2 * (StormCalls - calls'[j]) + 2
      /\ pc'[j] = "triggered" => Left(j)' = 2
      /\ pc'[j] \in {"poll", "down"} => Left(j)' = 1
      /\ pc'[j] = "ended" => Left(j)' = 0
  BY DEF Left
<1>4. Left(j)' < Left(j)
  BY <1>1, <1>3, LeftAt DEF Places
<1> QED
  BY <1>2, <1>4 DEF GetsOn

\* What a job does itself.
LEMMA OwnStepGetsOn ==
  ASSUME StageInv, StageInv', NEW j \in Job,
         QuietStep(j) \/ ComposeUp(j) \/ Trigger(j) \/ StormCall(j)
  PROVE  /\ pc[j] # "ended" /\ GetsOn(j)
         /\ \A k \in Job \ {j} : Rests(k)
<1>1. /\ pc \in [Job -> Places] /\ results \in [Job -> Seq(Result)]
      /\ verdict \in [Job -> {"none", "pass", "fail"}] /\ calls \in [Job -> Nat]
  BY DEF StageInv, PlacesInv, RunnerTypes
<1> DEFINE Fine == /\ pc[j] # "ended" /\ GetsOn(j)
                   /\ \A k \in Job \ {j} : Rests(k)
<1>2. ASSUME NEW failures, NEW trace, Conclude(j, failures, trace), pc[j] # "ended"
      PROVE  Fine
  BY <1>1, <1>2, ResultGetsOn DEF Conclude, Goto, Rests
<1>3. ASSUME RunFails(j), pc[j] # "ended" PROVE Fine
  BY <1>2, <1>3 DEF RunFails
<1>4. CASE BeginCli(j) \/ BeginRequest(j)
  BY <1>1, <1>4, PlaceGetsOn DEF BeginCli, BeginRequest, Goto, End, Rests
<1>5. CASE CheckPrecondition(j)
  <2>1. CASE Goto(j, "next") /\ UNCHANGED <<results, verdict, queried, calls>>
    BY <1>1, <1>5, <2>1, PlaceGetsOn DEF CheckPrecondition, Goto, Rests
  <2>2. CASE Conclude(j, {"precondition"}, <<>>)
    BY <1>2, <1>5, <2>2 DEF CheckPrecondition
  <2> QED
    BY <1>5, <2>1, <2>2 DEF CheckPrecondition
<1>6. CASE Connect(j) \/ Finish(j) \/ StreamBreaks(j) \/ ComposeUp(j)
  BY <1>1, <1>6, PlaceGetsOn DEF Connect, Finish, StreamBreaks, ComposeUp, Goto, End, Rests
<1>7. CASE Trigger(j) \/ TriggerReturns(j)
  BY <1>1, <1>7, PlaceGetsOn DEF Trigger, TriggerReturns, Goto, Rests
<1>8. CASE TriggerFails(j) \/ StormFails(j) \/ PollFails(j)
  BY <1>3, <1>8 DEF TriggerFails, StormFails, PollFails
<1>9. CASE StormBegins(j)
  <2>1. CASE Goto(j, "storm") /\ RunnerOnly /\ UNCHANGED <<results, verdict, calls>>
    BY <1>1, <1>9, <2>1, PlaceGetsOn DEF StormBegins, Goto, Rests
  <2>2. CASE RunFails(j)
    BY <1>3, <1>9, <2>2 DEF StormBegins
  <2> QED
    BY <1>9, <2>1, <2>2 DEF StormBegins
<1>10. CASE StormCall(j)
  <2>1. /\ pc[j] = "storm" /\ pc' = [pc EXCEPT ![j] = "called"]
        /\ calls' = [calls EXCEPT ![j] = calls[j] + 1]
        /\ results' = results /\ verdict' = verdict
    BY <1>10 DEF StormCall, Goto
  <2> QED
    BY <1>1, <2>1, PlaceGetsOn DEF Rests
<1>11. CASE StormReturns(j)
  <2>1. ASSUME NEW place \in {"poll", "storm"}, Goto(j, place), pc[j] = "called",
               UNCHANGED <<results, verdict, queried, calls>>
        PROVE  Fine
    BY <1>1, <2>1, PlaceGetsOn DEF Goto, Rests
  <2>2. pc[j] = "called"
    BY <1>11 DEF StormReturns, Respond
  <2>3. CASE "budgetExceeded" \in Decisions(plan[queried[j]])
    BY <1>11, <2>1, <2>2, <2>3 DEF StormReturns, Respond
  <2>4. CASE "budgetExceeded" \notin Decisions(plan[queried[j]]) /\ calls[j] < StormCalls
    BY <1>11, <2>1, <2>2, <2>4 DEF StormReturns, Respond
  <2>5. CASE "budgetExceeded" \notin Decisions(plan[queried[j]]) /\ ~(calls[j] < StormCalls)
    BY <1>2, <1>11, <2>2, <2>5 DEF StormReturns, Respond
  <2> QED
    BY <2>3, <2>4, <2>5
<1>12. CASE Query(j)
  BY <1>2, <1>12 DEF Query
<1> QED
  BY <1>4, <1>5, <1>6, <1>7, <1>8, <1>9, <1>10, <1>11, <1>12 DEF QuietStep

\* Every step of a run brings it another result or nearer to one, and what has ended is
\* final, although runs share the stack and one's Down ends others.
THEOREM EachStepGetsOn == Spec => RunsGetOn
<1> DEFINE Go(j) == /\ <<pc[j], results[j]>>' # <<pc[j], results[j]>> =>
                         \/ Len(results[j])' = Len(results[j]) + 1
                         \/ results[j]' = results[j] /\ Left(j)' < Left(j)
                    /\ pc[j] = "ended" => UNCHANGED <<pc[j], results[j], verdict[j]>>
<1>1. ASSUME StageInv, StageInv', [Next]_vars PROVE \A j \in Job : Go(j)
  <2>1. \A j \in Job : Rests(j) => Go(j)
    BY DEF Rests
  <2>2. \A j \in Job : pc[j] # "ended" /\ GetsOn(j) => Go(j)
    BY DEF GetsOn
  <2>3. ASSUME NEW j \in Job, QuietStep(j) \/ ComposeUp(j) \/ Trigger(j) \/ StormCall(j)
        PROVE  \A k \in Job : Go(k)
    BY <1>1, <2>1, <2>2, <2>3, OwnStepGetsOn
  <2>4. ASSUME NEW j \in Job, ComposeDown(j) PROVE \A k \in Job : Go(k)
    <3> SUFFICES ASSUME NEW k \in Job PROVE Go(k)
      OBVIOUS
    <3>1. pc \in [Job -> Places] /\ verdict \in [Job -> {"none", "pass", "fail"}]
      BY <1>1 DEF StageInv, PlacesInv, RunnerTypes
    <3>2. pc[j] = "down" /\ results' = results
      BY <2>4 DEF ComposeDown
    <3>3. CASE pc[k] # "ended" /\ pc'[k] = "ended"
      BY <1>1, <2>2, <3>2, <3>3, PlaceGetsOn
    <3>4. CASE pc[k] = "ended" \/ pc'[k] # "ended"
      <4>1. Rests(k)
        BY <2>4, <3>1, <3>2, <3>4 DEF ComposeDown, Stopped, Active, End, Goto, Rests
      <4> QED
        BY <2>1, <4>1
    <3> QED
      BY <3>3, <3>4
  <2>5. CASE \/ AuditStep \/ UNCHANGED vars
             \/ \E s \in Session : GatewayWrites(s)
             \/ \E j \in Job : Disconnect(j)
    <3>1. UNCHANGED <<pc, results, verdict>>
      BY <2>5 DEF AuditStep, AuditTakes, AuditInserts, AuditFails, GatewayWrites, Disconnect,
         vars, runnerVars
    <3> QED
      BY <2>1, <3>1 DEF Rests
  <2> QED
    BY <1>1, <2>3, <2>4, <2>5, Steps
<1>2. StageInv /\ StageInv' /\ [Next]_vars => [ \A j \in Job : Go(j) ]_vars
  BY <1>1
<1>3. LogInv => StageInv
  BY DEF LogInv
<1> QED
  BY <1>2, <1>3, LogInitially, LogInductive, PTL DEF Spec, RunsGetOn
=============================================================================
