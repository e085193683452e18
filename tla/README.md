# ToolGate: TLA+ specifications

ToolGate is a gateway between LLM agents and an upstream MCP server. It
serializes the tool calls of a session, checks each call against a policy,
holds some of them for a human's approval, and audits what it decides. These
modules specify the parts where order, failure and time decide whether that
works. TLC checks them on small instances, TLAPS proves the main results for
all instances.

Paths below are relative to `src/`; without a directory they are in
`src/cmd/gateway/`.

## The system

| Component | State | Operations | What makes it correct |
|---|---|---|---|
| Session lock, `session_locker.go` | Redis `session:<id>:lock`, `:refcount` with one TTL | `Acquire` (polls), `Release`, `Extend` | One turn at a time; a release never frees the lock under another call of the turn; nothing stays locked |
| Turn read/write lock, `turn_rwlock.go` | Redis `turn:<id>:readers`, `:wlock`, each with its TTL | `ReadLock`, `WriteLock` (poll), `ReadUnlock`, `WriteUnlock` | Readers or one writer; keys vanish |
| Concurrency guard, `concurrency_guard.go` | none of its own | `Execute`: session lock, turn lock, pipeline, deferred releases | Every path releases what it took, once; no refusal without a reason; every call is answered |
| Policy gate, `policy_gate.go`, `core/policy` | budget counters | `Handle` | Every call gets one decision and one audit record; budgets; redaction before forwarding |
| Approval bridge, `approval_bridge.go` | subscription, pump goroutine, timer, ticker | `WaitForDecision` | Only an approval forwards; every wait ends |
| Ticket store, `ticket.go` | Postgres row, `pending` to a final status | `Insert`, `UpdateStatus` | A decision is never changed; tells what happened |
| Webhook, `slack_webhook.go` | none | `ServeHTTP`: update, then publish | No signal without a recorded decision |
| Notifier, `slack_notifier.go` | none | `SendApprovalRequest` | Its failure does not end the hold |
| Audit writer, `audit.go` | channel of 256, worker | `Write`, `Start` | What is written is what happened, in order |
| Upstream forwarder, `core/mcp/forwarder.go` | upstream session ID, shared by all calls | `Handle`, re-initialization, one retry | A stale session heals; nothing that may have been executed is sent again; no failure looks like success |
| Server, `server.go`, `session.go`, `capability_cache.go` | sessions, cached capabilities | MCP `POST`, `GET`, `DELETE` | Only known sessions get through, and with an upstream session; every request is answered; what is cached was an answer |
| Eval runner, `cmd/eval-runner` | results of a run so far, the compose stack, which its runs share | `Up`, `Down`, trigger an agent, poll the audit log, evaluate, retry storm, report or stream | A case passes only on what its own session did; a verdict does not depend on how records trickle in; the stack is taken down; every run ends |

A `tools/call` goes from the server into `ConcurrencyGuard.Execute`, takes the
session lock and the turn lock in Redis, and runs the pipeline: logger, context
injector, policy gate, forwarder. The gate may answer it, let it pass, or hold
it. A hold inserts a ticket, starts the notifier and blocks in the bridge, with
both locks held; the bridge's ticker extends the session lock. The webhook, a
request of its own and perhaps in another process, updates the ticket and
publishes on its channel. Audit records go through a channel to a worker.

The eval runner is a second program. It starts the stack (gateway, agents,
database, and a server form of itself), asks an agent to do something, and reads
in the audit log what the gateway has made of it. It does not talk to the
gateway about it: the log, which the gateway fills in the background, is all
they share.

The hard behaviours: several processes poll the same Redis keys; keys expire
under long calls; releases run on a context that may be cancelled; Pub/Sub
forgets what nobody hears; the timer, the context and a signal race in one
`select`; two clicks race over one ticket; updates fail after they were
executed; all requests share one upstream session, which a restart of the
upstream server ends under them; the gateway restarts; the eval runner reads a
log that is still being written, from a stack another run may stop. `PROJECT.json`
lists each at its line.

## Modules

| Module | Models |
|---|---|
| `Lease` | The lock TTL, in units of the extension interval `lockTTL / 2`; the code's value is 2 |
| `SessionLocker` | The session's keys and the three Lua scripts, as operators from keys to keys |
| `TurnRWLock` | The turn's keys and the four Lua scripts |
| `ConcurrencyGuard` | `Execute`: the calls of all gateway processes as a state machine over both locks, with faults and time |
| `TurnScheduling` | What the guard promises, without locks: pipelines of conflicting calls do not overlap |
| `ApprovalFlow` | One held call: gate branch, ticket, notifier, subscription, pump, `select`, webhook requests |
| `HeldCall` | What a hold promises, without subscription, webhook and timer: it ends once, forwarded only on an approver's word, with a ticket decided at most once |
| `UpstreamFlow` | Requests from `handleMCPPost` through the forwarder to the upstream server and back: upstream session, client sessions, capability cache, restarts |
| `RemoteCall` | What the gateway promises of a forwarded request, without sessions and retries: executed at most once, answered accordingly |
| `Policy` | The rules of a policy, their evaluation with Go's comparison of dynamic types, and redaction, as operators |
| `AuditWriter` | The bounded channel, the goroutine that inserts, and the log |
| `PolicyGate` | Tool calls through server, context injector, gate and forwarder, the budget counters, and the records all of them write |
| `EvalSuite` | Suites, the four checks of a case against a trace, what a list of results amounts to, as operators |
| `EvalRunner` | Eval runs of the command and of the server, the stack they share, agents, and the gateway as far as it writes records, over `AuditWriter` |
| `MCConcurrencyGuard`, `MCApprovalFlow`, `MCUpstreamFlow`, `MCPolicyGate`, `MCEvalRunner` | Instances for TLC |
| `ConcurrencyGuard_proofs`, `ApprovalFlow_proofs`, `UpstreamFlow_proofs`, `PolicyGate_proofs`, `EvalRunner_proofs` | Theorems and proofs |
| `Policy_proofs` | What the evaluator decides and what redaction leaves |
| `AuditWriter_proofs`, `EvalSuite_proofs` | Facts about the channel and the log that gate and runner share; what the runner's loops compute |

`EvalRunner` composes with the gateway through `AuditWriter` alone: `PolicyGate`
says which records the gate writes for a call and that they reach the log,
`EvalRunner` takes sequences of such rows as `Written` and says what the runner
makes of them.

Operators whose comment ends in "(mutant)" are plausible bugs. Nothing uses
them; `PROJECT.json` names the definition each would replace and the property
that then fails.

### ConcurrencyGuard

A call's `pc` is where it is in `Execute`: polling for the `session` or `turn`
lock, in the pipeline up to the policy decision (`gate`), `held`, in the rest of
the pipeline (`forward`), or in a deferred release. A script is one atomic step,
as in Redis. A poll that fails before the deadline changes nothing and is not a
step; a failing poll at the deadline is `SessionBusy` or `TurnBusy`.

Two details of the code matter and are kept. `evalAcquireResult` takes any
`INCR` result but 0 for success, so a counter that a late unlock made negative
can count a reader whose call is told "blocked" (`ReadMiscounted`). And
`ReadUnlock` is an unconditional `DECR`, which creates a missing key without a
TTL, so `readers` ranges over the integers and `readersTTL = 0` means no TTL.

A `Tick` lets one interval pass for all keys. Extensions that are due come
before the next tick, which is what a ticker of that period gives. Unless the
environment is `slow`, no tick passes while a call holds locks outside an
approval wait: polling for the turn lock takes at most 5 s and a forwarded call
30 s against a TTL of 60 s. `env` is chosen at the start and says which faults a
behavior may have: `hold`, `slow`, `cancel`, `crash`, `redisError`, `lostReply`.
A script that was executed just before its context was cancelled leaves the
same keys as one that succeeded in front of a cancellation, so it needs no step
of its own. A crash ends the calls of all processes; that of one process is the
same to the keys as the cancellation of its calls.

### ApprovalFlow

Tickets have fresh IDs, and the ID names the row and the channel, so holds do
not interact and one hold stands for all. The hold goes from `insert` to `wait`,
perhaps to `expiring`, to an outcome. A failing insert leaves the hold without a
ticket (`ticket = "none"`), as the code does; a card without an ID is rejected.

The way of a signal is modelled in full: `Publish` reaches `queue` only while
the subscription is `on`, and the subscription comes up some time after the wait
has begun (`Subscribe`), since the code does not wait for it. The pump hands one
signal at a time to `buffer`, and the `select` takes from there, from the timer,
or from the context, whichever it likes. A closed subscription ends in the
pump's closing message, which the wait treats as a timeout.

A click is a webhook request: `received`, `persisted`, `done`. `UpdateStatus`
changes a pending ticket only and reports nothing otherwise. An update that
fails, executed or not, answers 500 and the request may come again.

### UpstreamFlow

A request is an `initialize`, which the server hands to the forwarder directly,
a `tools/list` or a `tools/call`. Its `pc` is `send` before `doRequest` reads the
session ID, `sent` while the upstream server has it, `replied` when the reply is
there and `doRequest` has not looked at it yet, `handled` when `Handle` has
returned. The three are the code's interleaving points: the mutex is held for the
read and for the write of `upstreamSessionID`, and not between them. `leg` says
which of its up to three requests to upstream it is at: the `first`, the `reinit`
of `revalidateSession`, the `retry`. `used` is the session ID that request
carried; `Stale` depends on it and not on the ID of that moment. Upstream
session IDs are numbered; 0 stands for none.

Kept as the code has it: a stale reply clears the ID even if it is another one by
now; the ID of a reply to an `initialize` is stored before its status is looked
at; any response does for a re-initialization, and one without an ID leaves the
retry without a session; a stale retry returns neither response nor error and
is answered with 204; any response is cached. A `tools/call` whose response is
there still becomes an error when the guard cannot release its locks, which is
the second case of `RespondError`.

The upstream server is external and modelled from what the forwarder expects of
one with sessions, as the MCP transport defines it: 400 to a request without a
session ID, 404 to an unknown one, a new session for an `initialize` without one.
An `initialize` that comes with a session may get a new ID, the same, or none. An
upstream server without sessions never makes a session stale, so nothing here
concerns it. `Fail` is every reply that is not a response (none in time,
connection lost, another status, a body that cannot be decoded); the request may
have been executed. An execution that comes after the client's timeout is put
into that step, since no other step can tell the difference.

The client sessions are named by the `initialize` that created them. A client
knows its session from then on and may use it after a `DELETE` or a restart of
the gateway, when it is `Invalid`. `env` again says what may happen; without
`overlap`, restarts, deletions and new requests come only while no request is
under way. The guard and the handlers of the pipeline are one choice,
`Refuse` or go on.

### PolicyGate

A call is `entered` when the server has found its session, `counted` when it has
its number from `IncrementAndGet`, `held` for an approval, let through to
`forward`, `leaving` with an answer whose deferred releases are still to come, or
`failed` with an error the server has yet to record. The injector changes only
the call's own parameters, so it shares a step with the counter; the decision and
its record share one because nothing between them is shared. Guard, hold and
forwarder have modules of their own and are their results here. All calls may be
under way at once: that is more than the guard allows, and what the gate promises
does not rest on the guard.

Arguments are functions from fields to values with the dynamic type Go gives
them. `Evaluate` is the set of decisions the code may come to, as `matchWhen`
ranges over a map: with an array or object among the conditions it may panic
or return before it gets there. `Execute` turns the panic into an error.

The record of an error is written for every error of a call with a tool, a
lock timeout included, and comes after the gate's own records. `lost` remembers
whether a record has been dropped, failed to be inserted, or died with the
process; without it the trail in the log is complete. A `DELETE` takes a session
out of the registry and leaves its calls and counters alone. `hang` means that the
database or the goroutine may stand still for ever; then records are
dropped and the calls go on.

What the records of a call are is said without a recursive operator, so that it
can be proved about: `IsTrail` characterizes the subsequence of the records of one
call, `Told` is the set of those subsequences.

### EvalRunner

A job is an eval run. `run` of the command (`cli`) goes from `idle` through `up`
and `connect`, over its cases, to `down`; a `request` or `stream` of the server
goes over its cases and answers; a `storm` is the retry storm, a stream of one
case. `next` is the head of the loop over the cases: `Case` is the one at hand,
`results` are those before it. A case is `triggered` while the agent works, then the
runner is in `poll`; a storm alternates between `storm` and `called`. `Connected`
says that the stack answers and that the request's context has not ended; without
it every HTTP call and query of the job fails, which is its only fault in an
environment without faults: another command's `Down`.

The agent opens a session for each trigger, so `NewSession` names a session by
the job and the case. What it does there and what the gateway makes of it is a
choice among `Written` of its input: `plan`. The gateway writes these rows one at
a time (`GatewayWrites`), and answers a call after its rows, so that the agent
answers when all are written; one that gives up a call answers before that. A
storm makes its calls itself, and the gateway's side is spelled out: a call is
refused for the budget once as many have been counted, and until then it is
allowed and may fail upstream, or fails without being counted.

`Query` is the query that ends the poll, because its last row has the expected
decision (any row, for a storm) or because the deadline has passed. A query
that finds nothing is not a step. The deadline of 90 s is far more than inserts
take, so `PastDeadline` lets records arrive first unless the environment is
`slow` or the agent went away early. `decided_at` is the time of the insert, so the
order of the log is the order of insertion; rows inserted in the same instant
are taken in that order too.

`Up` and `Down` work on the one compose project of all commands. A failing
`Up` leaves anything between the old state and a partly started stack, and
`run` returns before it has deferred `Down`. `Down` stops agents, gateway,
database and server: what is planned and not written never will be, the log is
gone (`down -v`), and the server's jobs end. The client of the server that
`leave`s ends the context; a stream also ends at the next event it cannot write.

Configuration, the look for docker and the arguments only make `run` exit before
it does anything, as a suite that cannot be loaded does; the latter stands for them.

## Runs

| Run | Instance | Shows | Distinct states |
|---|---|---|---|
| `guard` | 3 calls, 2 sessions, 3 turns, TTL 2, 6 environments | Safety of the guard and the refinement; every call is answered; leaked locks drain | 308,139 |
| `approval` | 1 hold, 3 clicks, 6 environments | Safety and liveness of a hold, and the refinement of `HeldCall` | 62,536 |
| `upstream` | 3 requests, 3 combinations of methods, 2 upstream restarts, 5 environments | At most one execution, sessions in step, healing, where cached answers come from, no endless retries, an answer for everybody | 262,867 |
| `gate` | 3 calls, 2 sessions, 2 turns, 2 policies, channel of 2, 5 environments | Budgets, the policy's decisions, records of what was forwarded, trails that reach the log, no waiting for the audit | 147,281 |
| `eval` | 2 runs out of 8 (13 pairs), 2 cases each, storm of 2 calls, budget of 1, channel of 2, 7 environments | What a pass and a trace stand for, the life of the stack, progress and end of every run | 217,850 |
| `guard_hold_writes` | 2 calls, `hold` | Violated: two writes of a turn run at once | |
| `guard_cancel_leak` | 2 calls, `cancel` | Violated: a session lock without a holder | |
| `guard_reader_ghost` | 2 calls, `hold` | Violated: a readers key that never expires | |
| `approval_authority` | 2 clicks, no faults | Violated: forwarded with a denied ticket | |
| `upstream_overlap` | 2 calls, 1 upstream restart, `overlap` | Violated: a restart is not healed when calls overlap | |
| `upstream_cache` | an `initialize` and a `tools/list`, `rpcError` | Violated: an error response is cached as the last successful one | |
| `eval_early` | 1 request run of the first case of `ai-agent.yaml`, its call fails upstream, no faults of the eval side | Violated: the case passes on the `allow` before the `upstream_error` is inserted | |

The violations are disagreements between the code and its documents; the
findings in `PROJECT.json` quote the sentence and say what happens. A few more are in
the models, as the code has them, without a run of their own:

- A hold whose client goes away leaves its ticket pending, and no code reads
  `expires_at`; `.kiro/specs/approval-flow/research.md:142` says the ticket
  expires. It is the exception of `TicketSettled`.
- A call that gets no lock or whose `when` panics is recorded as
  `upstream_error` (`Fail`), which
  `docs/superpowers/specs/2026-05-27-truefoundry-resilience-pivot-design.md:17`
  means for failures of the forwarder.
- A call that the upstream server answers with 400 or 404 again after its
  re-initialization gets a 204 without a message (`RespondEmpty`), as the retry ignores
  that the session is stale once more; `.kiro/specs/bare-proxy/requirements.md:67`
  wants JSON-RPC error responses for all failure cases.
- When a redacted call fails upstream, the server's record of the error
  (`Fail`, `server.go:141`) has the arguments it parsed before the gate redacted
  them; `.kiro/specs/eval-gate/design.md:673` says that the column stores the
  values after redaction.
- The redact branch makes the parameters anew from name and arguments
  (`RedactCall`, `policy_gate.go:241`), so the `_meta` the injector has just added
  is gone, against `.kiro/specs/bare-proxy/requirements.md:39`.
- Whether a condition with an array or an object panics depends on the order in
  which Go goes over a map (`MatchWhen`, `evaluator.go:49`), so the same call may
  be decided once and fail once; `.kiro/specs/policy-gate/design.md:7` speaks of
  deterministic decisions.
- A JSON-RPC response is no evidence that its record is in the log, though
  `.kiro/specs/eval-gate/design.md:386` says that the row "is guaranteed to exist at
  query time": it is why the poll exists, and a dropped record makes a case fail.
- `evalsuite/localstripe-agent.yaml` has cases without `policyOutcome`, which
  `LoadSuiteFromReader` refuses (`suite.go:46`); with them a case would pass
  on no record at all.

**The bounds.** Three calls are the least in which two calls of a turn share
the refcount, or two readers the counter, while a third of another turn or a
writer wants in. Two turns of one session and one of another give every kind of
conflict. The request list is handed out in order, which is sound because the
calls are alike; with faults the third call may be one without a tool, which
takes no part, and for half of the environments is (`ForTwo`); that the safety
properties hold for any number of calls and any combination is proved. A TTL of
2 is the code's own ratio and the least at which a
ticker keeps a lease. `lostReply` is bounded to one repeated script per call.
Liveness needs two calls: one that leaves something behind and one that waits
for it. Three clicks give an agreeing pair and a third that differs; the queue
of signals is then at most three long, so it needs no bound.

In the upstream flow nothing gets past the server without an `initialize`, so one
of the three requests is one and two are free: two calls that share a lost
session, a list and a call, or a second `initialize` that replaces the session
under a call. Two restarts of the upstream server are the least that make a
re-initialized session stale before the retry. `MaxRestarts` bounds restarts
only; sessions are bounded by the requests, as each sends at most three upstream.

At the gate, three calls of a turn exceed a budget of two in every order, and a
budget of one needs two. The requests cover every action of the shipped
`policy.yaml`, another turn of the session, another session with the same turn
ID, and a policy with a number and an array that do not compare. Two dry
runs and a third call, or two calls of any kind, meet there; with faults a pair
suffices. A channel of two overflows when the goroutine is slow and does not when
it keeps up, as a call has at most three records.

Two eval runs are the least that share a stack: two commands, or a command and a
run of the server that its `Down` ends. Two cases are the least with a case after
a failed one. The suites are cut from the shipped ones, with every action of the
shipped policy and a case without an outcome. Runs meet only in stack and audit
channel, so pairs that cover these meetings are enough (`Pairs`), and with faults
shorter ones. A budget of one and a storm of two calls
are the least with a refused call and with a storm the budget does not stop; a
channel of two overflows when the goroutine is slow.

**Properties worth knowing.** `SessionExclusive` and `WriteExclusive` say in
which environments they hold, and the violations show that the limits are
real: a lease that lapses under its holder breaks them. `RefusalJustified`
compares a refusal with what the other calls do at that moment; it excludes
reads refusing each other and a lock kept by a finished call.
`SignalAfterDecision` and `VerdictRecorded` relate three actors: the webhook,
the ticket and the waiting call. `PumpEnds` says exactly when the pump goroutine
leaks: when a signal was handed over that the hold never took.
`ImplementsRemoteCall` is why the retry is safe: the code sends a request again
only after a rejection, and what the client is told never contradicts what the
upstream server did. `SentInSession` relates three parties' idea of a session:
that a client's session is registered implies that the forwarder has an upstream
session and that the upstream server knows it, which is delicate because an
`initialize` registers the session before it is forwarded. `HealsAlone` is the
promise of the comment at `core/mcp/forwarder.go:57` as far as the code keeps it;
`upstream_overlap` shows that it keeps it only for a request that is alone.
`RetriesEnd` and `RunsGetOn` bound what a request or a run may still do: every
step of it leaves less, whatever the others do to the session or the stack it
uses. `CacheHasSource` says where a cached answer comes from: a response, be it a result or
an error, to a request of a client that was executed, never one to a
re-initialization or a rejected request. That it is a successful one, as the
documents promise, is `SuccessCached`, which `upstream_cache` shows violated. `TurnKeysLeased` is the half
of "locks vanish" that holds at every moment; `guard_reader_ghost` shows that it
needs calls shorter than the TTL. `PolicyEnforced` relates what is forwarded to
the evaluator's decision on what was received, past injector, hold and redaction:
it was to allow the call, to redact it or to ask for an approval. That the
approval came is `ForwardedByApprover` of the hold. `RecordedAsForwarded` is about the
gate's records only; the server's record of an error is listed above.
`ImplementsHeldCall` says of the hold as a whole what the other properties say of
its parts: one end, on an approver's word that has been made known or not at all.
`BudgetHolds` spans restarts: counters and sessions are forgotten together, so a
turn never gets a second budget; a session registry that outlived a restart
would break it. `TrailTells` says that every answered call has the
records its answer calls for, in their order, whichever of gate and server wrote
them. That does not tell all answers apart: neither an approval nor a rejection is
recorded, so a hold that was approved and has its result and one that was
rejected both have `approvalRequired` alone, and only the ticket knows; a call without
records was malformed, invalid or lost with the gateway. The theorem
`AnswersAreReadOff` says that nothing else is left open.
`PassNeedsEvidence` relates a verdict to what the gateway did, past agents that
give up, dropped records, stacks that are taken away and clients that leave:
the expected decision was made, after all the calls the case asks for, in the
session of the case. Its reference for `mustInclude` is `InOrder`, which is the
definition of a subsequence and not the code's loop. `FaultlessVerdict` is the
other direction, and `eval_early` shows why it speaks only of decisions that
come last: an `allow` is followed by an `upstream_error` when the call fails.
`StackTakenDown` is what is left to say when commands share a stack and compose
may fail.

**Fairness.** In the guard, every call's own steps are weakly fair: goroutines
run, every poll loop has a deadline, an approval wait has a timer and a ticker,
and time passes. In the approval flow the same holds for the wait, the pump, the
notifier, the subscription and a webhook request under way. In the upstream flow
it holds for every request under way, its upstream side included, since the HTTP
client has a timeout: a server that does not reply is a `Fail` in an environment
with `error`. At the gate it holds for a call that has entered, since lock
polling, holds and forwarding have deadlines, and for the audit goroutine unless
the environment lets it hang. In the eval runner it holds for a run that has
begun, since agents are called with a timeout, `docker compose` returns and clocks
run; for a query unless it may `hang`; for the gateway, and for its audit
goroutine unless it is `slow`. No fault is fair, and nobody owes a click, a request
or a run.

**Deadlock** is checked in every run. `Quiescent` stands for a system in which
everything has been answered, and is enabled only then.

## Proofs

All theorems hold for any sets of calls, sessions, turns, clicks, requests and
environments and any number of restarts. The assumptions are the named ones of
the modules: `TTL >= 2`, policies are valid, the channel has room for one record,
the empty values are no turns or calls, requests and environments are of their
types, and there are finitely many calls. Of the eval runner: rows and
`mustInclude` lists are sequences (`WrittenAssumption`, `JobsAssumption`), suites
are no longer than `MaxCases`, and a storm makes more calls than the budget allows
(`StormAssumption`; 6 and 5 in the code and its policy).

`ConcurrencyGuard_proofs`:

- `TypeCorrect`: `TypeOK` is inductive.
- `SessionExclusion`: `SessionExclusive` alone is not inductive. `SessionInv`
  adds that the lock key names the turn of each holder (`OwnsLock`), that the
  refcount is at least the number of holders (`RefcountCovers`; at least, as a
  cancelled call leaks its count), and how much of the lease is left
  (`FreshLease`). A release is harmless because of the second, a tick because of
  the third. The number of holders changes by one at an acquisition and a
  release, for which the proof uses the library's facts about cardinality.
- `WriteExclusion`: `TurnInv` says that a writer's token is in the key, that no
  writer's token is there while a reader holds the lock, and that the counter
  covers the readers.
- `CountsAreExact`: without faults `CountsInv` makes both covers equalities. It
  needs the locks' exclusion, since the script that acquires a free lock sets the
  refcount to 1 and does not add to it.
- `RefusalsAreJustified`: the counts lead from a key in Redis back to a call. A
  refusal at the session lock finds a key with a refcount, so a holder, which is of
  the key's turn by `OwnsLock`; a write refused for readers finds one of them.
  `WritersInv` adds that a write lock key has its writer. The theorem assumes that
  no two sessions use one turn ID (`TurnsOfOneSession`), as the runs do.
- `ImplementsTurnScheduling`: with both invariants, every step of the guard is a
  step of `TurnScheduling` or changes nothing there. `executing` and `answered`
  are mapped to the phases of the calls.
- `TurnKeysHaveLeases`: that a readers key without a TTL counts nothing is not
  inductive, as a `DECR` may find the key expired. `LeaseInv` adds that the key
  has its whole TTL while a reader holds the lock (`ReadersRenewed`), which a
  `Tick` keeps since without `hold` and `slow` none passes under a reader
  (`NoUnaskedHold`); so its `DECR`, a repeated one too, leaves the TTL.

`ApprovalFlow_proofs`: `ApprovalInv` follows every signal under way back to the
click that sent it (`SignalsHaveClicks`), every click past its update to a
decided ticket (`ClicksDecide`), and every status to who wrote it
(`StatusHasAuthor`). From it follow `ForwardingNeedsApprover`,
`DecisionBeforeSignal`, `VerdictIsRecorded`, `TicketIsSettled` and
`TicketDecidedOnce`. `ImplementsHold`, the refinement of `HeldCall`, maps `voices`
to the verdicts of the clicks that have been through a recorded ticket, which only
publishing changes (`VoicesKept`), and every place before the outcome to `held`;
`ApprovalInv` gives each signal that the hold takes a click among the voices.

`UpstreamFlow_proofs`:

- `ImplementsAtMostOnce`: a request that is executed must not be sendable any
  more. `ExecutionInv` says so for every place and leg: nothing executed before a
  reply, nothing executed behind a rejection or a re-initialization, a response
  of its own only after an execution. With it every step of the flow is
  `Execute`, `Answer`, `Lose` or a stutter of `RemoteCall`.
- `ForwardedInSession`: `SessionInv` follows the ID from the upstream server into
  the reply, into `sid` and into the next request. Its core is that `sid` is set
  from the first answered `initialize` on and then stays a session that upstream
  knows; that needs to know of every request what its reply and its ID can be.
- `LoneRequestsHeal`: `LoneInv` says what the one request under way finds at each
  leg, and what it leaves to the next (`Rested`): with a client session there is
  an upstream session ID, perhaps a lost one, and with an ID a cached `initialize`.

- `EachStepLeavesLess`: the steps to an answer and the legs left are a measure that
  every step of a request lowers, the step back to `send` for a retry included,
  since it goes to a later leg.
- `CacheHasAnswers`: a response is cached in the step that answers its request, and
  `ExecutionInv` says that this request has been executed; its outcome does not
  change afterwards (`AnswersStay`, from the refinement).

`Policy_proofs`, for all policies and calls: `EvaluateDecides` says that the evaluator
comes to a decision and to which: that of a rule which matches when none before it
does, a panic at a rule that compares arrays or objects, or the default when no
rule matches. Its `Matches` and `MayPanic` speak of the condition itself and not of the
code's loop over it. `PlainPoliciesDecide` says that the decision is unique unless an
array or object is compared. `FirstMatchDecides` and
`AddedRulesOnlyReplaceDefault` say what the order of the rules means.
`RedactionHides` says that redaction depends on nothing it hides. The loop over
the rules is a choice of the first number with a property here (`LeastNumber`).

`PolicyGate_proofs`, for any policies, calls and capacity of the channel:

- `BudgetIsKept` and `BudgetIsNotWasted`: `BudgetInv` says that the numbers of a
  turn's calls are distinct and without gaps, and that the counter is the
  greatest of them as long as its session is alive (`Counter`), which is
  what a restart leaves true. Numbers map the forwarded calls into the
  budget one to one, and the budget into the calls before a refused one. A
  session counts as alive (`Live`) while a call of it is under way, as a `DELETE`
  does not stop it.
- `PolicyIsEnforced`: `ClearedInv` says of a call past the decision that its parameters
  are what an `allow`, a `redact` or a request for approval leaves of it, and
  `BudgetInv` that its number is in the budget. `DenialsAndRedactionsHold` concludes
  that what the rules deny for certain is not forwarded, and that a field they
  redact for certain goes upstream as the marker only.
- `ForwardedIsRecorded`: `AuditInv` says of everything in the channel, in the
  goroutine's hands and in the log that a record that lets a call through shows its
  parameters, which are final once it is written (`FaithfulStays`).
- `TrailsAreTold`: a call's records are spread over log, goroutine and channel.
  `TrailInv` says that the trail of a call is what its place calls for: nothing
  before the decision, the decision's record after it, and the error's after
  that. Taking and inserting a record does not change the concatenation of the three,
  and a new record at its end extends the trail of its call alone, which the
  lemmas about `IsTrail` say.
- `AnswersAreReadOff`: `IsTrail` fixes the set of a call's decisions (`TrailDecisions`),
  and that set the answer, or the few answers, that `ReadOff` lists.
- `TypeCorrect`, with the capacity of the channel.

`EvalSuite_proofs`:

- `IncludesInOrder`: the loop of `mustInclude`, which compares each row with the
  next tool it waits for, accepts exactly the traces that have the tools as a
  subsequence. What it accepts has the rows it stopped at (`FoundInOrder`); that it
  misses nothing, although it never goes back, is that after each row it is at
  least as far as any other choice of rows (`OrderFound`). Loops over rows are recursive functions here. That a loop computes
  what its equations say needs an induction: an interval of numbers is a finite
  set, and finite sets are well-founded (`SetInduction`, `LoopsCompute`, from the
  library's facts on cardinality, without a theorem that takes an operator).

`EvalRunner_proofs`, for any jobs, suites and capacities:

- `StackIsTakenDown`: `StackInv` says that a stack that is not down either has a
  command inside `run`, between `Up` and `Down`, or compose has failed and a
  command has ended with exit code 1. The other ways out of `run` do not matter, as
  `Down` is deferred before any of them.
- `TypeCorrect`: `LogInv`. `StageInv` says for each place of a job whose session it
  asks for and how many calls it has made; `GatewayInv` that a session is used for
  one case only (`Unused`); `RecordsInv` that log, goroutine and channel hold the
  records of a session in order and, until one is lost, all of them.
- `TracesAreFaithful`: `TraceSelects` says that the loop of the query yields the
  records of the session in the order of the log, and no others. With
  `RecordsInv` a new trace is faithful; an old one stays so since the gateway only
  adds rows (`FaithInv`).
- `PassingNeedsEvidence`: a check is about the rows in the trace, `Evidence` about
  what the gateway has done, and between them records may have been lost.
  `RowsOfTrace` maps the rows of the trace to rows of the session in the same order, so a subsequence in the one is one in the other. For a storm
  `BudgetInv` says that a call is refused for the budget only after as many have
  been counted, and none is counted after that. `PassInv` is about results,
  `VerdictInv` about the run: its verdict is the conjunction of results that are
  not touched any more.

- `FaultlessRunsAreJudged`: `CalmInv` says that without faults, as long as no
  record is lost, services and client are there for every case at hand, that a
  poll begins when all rows of its session are written, and that a storm that has
  not been refused has a counted call for each of its calls, so that it is refused
  before it runs out of them. At the deadline the log then has all rows
  (`FlushedTrace`); a poll that ends before has found the decision it waits for,
  in the last row unless it can come earlier (`CalmQuery`).
- `EachStepGetsOn`: a pair of results so far and steps left at the case at hand is
  what every step of a run raises or lowers. Only the count of a storm's calls is
  not a matter of its place, and `StageInv` bounds it.

Only model-checked: the liveness properties (`EveryCallAnswered`, `LeasesDrain`,
`HoldEnds`, `PumpEnds`, `EveryRequestAnswered`, `TrailReachesLog`, `EveryRunEnds`),
since TLAPS does not prove fairness properties here. For requests to upstream and eval
runs the part of the argument that does not rest on fairness is proved: no
step of theirs leads back (`EachStepLeavesLess`, `EachStepGetsOn`), so it is only
steps that do not come that could keep them. Every other property of a passing
run is a theorem.

## Plan

The locks, the hold, the way upstream, the gate with its records, and the eval
runner are modelled, in this order, as that is where several actors share state.
What could follow would join modules that exist: `ApprovalFlow` under the locks of
`ConcurrencyGuard`, so that a hold's ticker, its outcome and the leases are one
behaviour, and `PolicyGate` under the guard. Both products are larger than TLC can
check with the bounds the parts need, and each part already takes the other
as a choice of results. The classifier is a table from names to two
classes; the guard's calls have either class, so its result is covered.

## Not modelled

Authentication of webhook requests, card and report layout, logging, reading
the configuration, connecting to and migrating the databases, the HTTP framing
of SSE, the eval runner's page and health probes, its warm-up of the gateway's
cache, which sends two requests like any client, and the example servers: input
and output without state that a property could be about. `EVAL_SKIP_COMPOSE` makes
`Up` and `Down` do nothing on a stack that somebody else takes care of. The GET
stream of the server sends keepalives and keeps no state. Sessions with a turn ID in
common are left out of the guard's runs: the turn keys hold the turn ID alone
(`turn_rwlock.go:177`), so such sessions refuse each other, against
`.kiro/specs/session-mgmt/requirements.md:21`. `PROJECT.json` gives the status of
each component.
