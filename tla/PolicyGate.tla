----------------------------- MODULE PolicyGate -----------------------------
(***************************************************************************)
(* Tool calls on their way from Server.handleMCPPost through the pipeline: *)
(* context injector, policy gate with its budget of calls per turn, and    *)
(* forwarder; and the audit records that gate and server write about them. *)
(*                                                                         *)
(* Of the guard, an approval hold and the forwarder, which have modules of *)
(* their own, only the results are here.  All calls may be under way at    *)
(* once, as reads of one turn and calls of different sessions are.         *)
(***************************************************************************)
EXTENDS Policy, AuditWriter, Integers, FiniteSets

CONSTANTS
  Call,          \* tool calls
  Session, Turn,
  Requests,      \* the requests they may make
  Policies,      \* the policies to consider
  Environments   \* the environments to consider, sets of FaultKinds

\* What may go wrong:
\*   lock      the guard does not get its locks, or cannot release them
\*   upstream  the forwarder fails
\*   insert    a record cannot be inserted
\*   hang      an insert, or the goroutine, hangs for ever
\*   crash     the gateway restarts
\*   delete    clients end their sessions, perhaps with calls under way
FaultKinds == {"lock", "upstream", "insert", "hang", "crash", "delete"}

ASSUME RequestsAssumption ==
  \A r \in Requests : r.session \in Session /\ r.turn \in Turn
ASSUME PoliciesAssumption ==
  \A p \in Policies : Valid(p) /\ p.maxToolCallsPerTurn \in Int
ASSUME EnvironmentsAssumption == Environments \subseteq SUBSET FaultKinds
ASSUME FiniteCallsAssumption == IsFiniteSet(Call)

VARIABLES
  env,         \* the faults that may happen in this behavior
  policy,      \* the policy the gateway has loaded
  req,         \* the request of each call: session, turn, tool, arguments
  registered,  \* the sessions the server knows
  counts,      \* BudgetTracker: calls of each session and turn
  pc,          \* where each call is
  number,      \* what IncrementAndGet has returned to it
  params,      \* req.Params: arguments, and whether _meta has session and turn
  forwarded,   \* what has been sent upstream, or Nothing
  answer,      \* what the pipeline has answered, later the client
  lost         \* history: whether a record has been lost

gateVars == <<registered, counts, pc, number, params, forwarded, answer>>
vars == <<env, policy, req, gateVars, lost, auditVars>>
constants == <<env, policy, req>>

Nothing == <<>>

Answers == {"result", "denied", "budgetExceeded", "rejected", "expired", "error",
            "invalid", "malformed", "lost"}

Phases == {"idle", "entered", "counted", "held", "forward", "leaving", "failed", "done"}

DecisionNames == {"allow", "deny", "approvalRequired", "budgetExceeded", "expired",
                  "upstream_error"}

KeyOf(c) == <<req[c].session, req[c].turn>>

TypeOK ==
  /\ env \in Environments /\ policy \in Policies /\ req \in [Call -> Requests]
  /\ registered \subseteq Session
  /\ counts \in [Session \X Turn -> Nat]
  /\ pc \in [Call -> Phases]
  /\ number \in [Call -> Nat]
  /\ \A c \in Call : forwarded[c] \in {Nothing, params[c]}
  /\ answer \in [Call -> {"none"} \cup Answers]
  /\ \A c \in Call : pc[c] \in {"leaving", "done"} <=> answer[c] # "none"
  /\ lost \in BOOLEAN
  /\ Len(queue) <= Capacity /\ Len(worker) <= 1
  /\ \A i \in DOMAIN Records :
       Records[i].call \in Call /\ Records[i].decision \in DecisionNames

Init ==
  /\ env \in Environments /\ policy \in Policies /\ req \in [Call -> Requests]
  /\ registered = Session
  /\ counts = [k \in Session \X Turn |-> 0]
  /\ pc = [c \in Call |-> "idle"]
  /\ number = [c \in Call |-> 0]
  /\ params = [c \in Call |-> [args |-> req[c].args, meta |-> FALSE]]
  /\ forwarded = [c \in Call |-> Nothing]
  /\ answer = [c \in Call |-> "none"]
  /\ lost = FALSE
  /\ AuditInit

-----------------------------------------------------------------------------

UnderWay(c) == pc[c] \notin {"idle", "done"}

Goto(c, place) == pc' = [pc EXCEPT ![c] = place]

\* The pipeline has an answer; the guard's deferred releases come before it is sent.
Leave(c, a) == Goto(c, "leaving") /\ answer' = [answer EXCEPT ![c] = a]

Finish(c, a) == Goto(c, "done") /\ answer' = [answer EXCEPT ![c] = a]

Audit(c, decision, args) ==
  /\ Write([call |-> c, decision |-> decision, args |-> args])
  /\ lost' = (lost \/ Full)
  /\ UNCHANGED <<worker, auditLog>>

Quiet == UNCHANGED <<lost, auditVars>>

-----------------------------------------------------------------------------
\* handleMCPPost without its look at the registry (mutant).
EnterUnchecked(c) ==
  /\ pc[c] = "idle" /\ req[c].tool # NoTool
  /\ Goto(c, "entered")
  /\ Quiet /\ UNCHANGED <<constants, registered, counts, number, params, forwarded, answer>>

\* handleMCPPost: a call of a registered session.
Enter(c) ==
  /\ pc[c] = "idle" /\ req[c].tool # NoTool /\ req[c].session \in registered
  /\ Goto(c, "entered")
  /\ Quiet /\ UNCHANGED <<constants, registered, counts, number, params, forwarded, answer>>

\* handleMCPPost: an unknown session; or parameters that injector or gate cannot
\* decode, which nobody counts or records.
TurnAway(c) ==
  /\ pc[c] = "idle"
  /\ \/ req[c].session \notin registered /\ Finish(c, "invalid")
     \/ /\ req[c].tool = NoTool /\ req[c].session \in registered
        /\ Finish(c, "malformed")
  /\ Quiet /\ UNCHANGED <<constants, registered, counts, number, params, forwarded>>

\* Execute: no session lock or no turn lock.
LockFails(c) ==
  /\ pc[c] = "entered" /\ "lock" \in env
  /\ Goto(c, "failed")
  /\ Quiet /\ UNCHANGED <<constants, registered, counts, number, params, forwarded, answer>>

\* One counter for all turns of a session (mutant).
CountPerSession(c) ==
  /\ pc[c] = "entered"
  /\ counts' = [k \in DOMAIN counts |->
                  IF k[1] = req[c].session THEN counts[k] + 1 ELSE counts[k]]
  /\ number' = [number EXCEPT ![c] = counts[KeyOf(c)] + 1]
  /\ params' = [params EXCEPT ![c].meta = TRUE]
  /\ Goto(c, "counted")
  /\ Quiet /\ UNCHANGED <<constants, registered, forwarded, answer>>

\* ContextInjector.Handle, which puts session and turn into _meta, and
\* IncrementAndGet.
Count(c) ==
  /\ pc[c] = "entered"
  /\ counts' = [counts EXCEPT ![KeyOf(c)] = @ + 1]
  /\ number' = [number EXCEPT ![c] = counts[KeyOf(c)] + 1]
  /\ params' = [params EXCEPT ![c].meta = TRUE]
  /\ Goto(c, "counted")
  /\ Quiet /\ UNCHANGED <<constants, registered, forwarded, answer>>

Exceeds(c) == number[c] > policy.maxToolCallsPerTurn

Exceed(c) ==
  /\ pc[c] = "counted" /\ Exceeds(c)
  /\ Audit(c, "budgetExceeded", req[c].args)
  /\ Leave(c, "budgetExceeded")
  /\ UNCHANGED <<constants, registered, counts, number, params, forwarded>>

\* The policy may decide so.
Decides(c, action) ==
  /\ pc[c] = "counted" /\ ~Exceeds(c)
  /\ \E d \in Evaluate(policy, req[c].tool, req[c].args) : d.action = action

Allow(c) ==
  /\ Decides(c, "allow")
  /\ Audit(c, "allow", req[c].args)
  /\ Goto(c, "forward")
  /\ UNCHANGED <<constants, registered, counts, number, params, forwarded, answer>>

Deny(c) ==
  /\ Decides(c, "deny")
  /\ Audit(c, "deny", req[c].args)
  /\ Leave(c, "denied")
  /\ UNCHANGED <<constants, registered, counts, number, params, forwarded>>

Hold(c) ==
  /\ Decides(c, "approvalRequired")
  /\ Audit(c, "approvalRequired", req[c].args)
  /\ Goto(c, "held")
  /\ UNCHANGED <<constants, registered, counts, number, params, forwarded, answer>>

Redactions(c) ==
  { Redact(req[c].args, d.redactFields) :
      d \in { e \in Evaluate(policy, req[c].tool, req[c].args) : e.action = "redact" } }

\* A record of what the client has sent (mutant).
RedactUnrecorded(c) ==
  /\ Decides(c, "redact")
  /\ \E args \in Redactions(c) :
       /\ Audit(c, "allow", req[c].args)
       /\ params' = [params EXCEPT ![c] = [args |-> args, meta |-> FALSE]]
  /\ Goto(c, "forward")
  /\ UNCHANGED <<constants, registered, counts, number, forwarded, answer>>

\* Redacted in the record, and forwarded as they came (mutant).
RedactRecordOnly(c) ==
  /\ Decides(c, "redact")
  /\ \E args \in Redactions(c) : Audit(c, "allow", args)
  /\ Goto(c, "forward")
  /\ UNCHANGED <<constants, registered, counts, number, params, forwarded, answer>>

\* The parameters are made anew of name and arguments, without _meta.
RedactCall(c) ==
  /\ Decides(c, "redact")
  /\ \E args \in Redactions(c) :
       /\ Audit(c, "allow", args)
       /\ params' = [params EXCEPT ![c] = [args |-> args, meta |-> FALSE]]
  /\ Goto(c, "forward")
  /\ UNCHANGED <<constants, registered, counts, number, forwarded, answer>>

\* A comparison panics; Execute makes an error of it.
Panic(c) ==
  /\ Decides(c, "panic")
  /\ Goto(c, "failed")
  /\ Quiet /\ UNCHANGED <<constants, registered, counts, number, params, forwarded, answer>>

-----------------------------------------------------------------------------
\* An expiry that is not recorded (mutant).
ResumeUnrecorded(c) ==
  /\ pc[c] = "held"
  /\ \/ Goto(c, "forward") /\ UNCHANGED answer
     \/ Leave(c, "rejected")
     \/ Leave(c, "expired")
  /\ Quiet /\ UNCHANGED <<constants, registered, counts, number, params, forwarded>>

\* WaitForDecision returns: approved, denied (or failed), or timed out.
Resume(c) ==
  /\ pc[c] = "held"
  /\ \/ Goto(c, "forward") /\ Quiet /\ UNCHANGED answer
     \/ Leave(c, "rejected") /\ Quiet
     \/ Leave(c, "expired") /\ Audit(c, "expired", req[c].args)
  /\ UNCHANGED <<constants, registered, counts, number, params, forwarded>>

\* UpstreamForwarder.Handle: a response, or a failure.
Forward(c) ==
  /\ pc[c] = "forward"
  /\ forwarded' = [forwarded EXCEPT ![c] = params[c]]
  /\ \/ Leave(c, "result")
     \/ "upstream" \in env /\ Goto(c, "failed") /\ UNCHANGED answer
  /\ Quiet /\ UNCHANGED <<constants, registered, counts, number, params>>

\* Execute: the deferred releases; if one fails, its error replaces the answer.
Return(c) ==
  /\ pc[c] = "leaving"
  /\ \/ Goto(c, "done") /\ UNCHANGED answer
     \/ /\ "lock" \in env
        /\ Goto(c, "failed")
        /\ answer' = [answer EXCEPT ![c] = "none"]
  /\ Quiet /\ UNCHANGED <<constants, registered, counts, number, params, forwarded>>

\* handleMCPPost: any error is recorded, with the arguments the client has sent.
Fail(c) ==
  /\ pc[c] = "failed"
  /\ Audit(c, "upstream_error", req[c].args)
  /\ Finish(c, "error")
  /\ UNCHANGED <<constants, registered, counts, number, params, forwarded>>

-----------------------------------------------------------------------------
AuditTakes == Take /\ UNCHANGED <<constants, gateVars, lost>>

AuditInserts == Insert /\ UNCHANGED <<constants, gateVars, lost>>

AuditFails ==
  /\ "insert" \in env /\ InsertFails
  /\ lost' = TRUE
  /\ UNCHANGED <<constants, gateVars>>

\* The gateway restarts: sessions, counters and records in memory are gone.
Crash ==
  /\ "crash" \in env
  /\ registered # {}
  /\ registered' = {}
  /\ counts' = [k \in Session \X Turn |-> 0]
  /\ pc' = [c \in Call |-> IF UnderWay(c) THEN "done" ELSE pc[c]]
  /\ answer' = [c \in Call |-> IF UnderWay(c) THEN "lost" ELSE answer[c]]
  /\ AuditStops
  /\ lost' = TRUE
  /\ UNCHANGED <<constants, number, params, forwarded>>

\* handleMCPDelete: calls under way go on, and the counters stay.
Delete(s) ==
  /\ "delete" \in env /\ s \in registered
  /\ registered' = registered \ {s}
  /\ Quiet /\ UNCHANGED <<constants, counts, pc, number, params, forwarded, answer>>

\* All calls have been answered, and all records are where they get to.
Quiescent ==
  /\ \A c \in Call : pc[c] = "done"
  /\ worker = <<>> /\ queue = <<>>
  /\ UNCHANGED vars

-----------------------------------------------------------------------------
Judge(c) ==
  \/ Count(c) \/ Exceed(c)
  \/ Allow(c) \/ Deny(c) \/ Hold(c) \/ RedactCall(c) \/ Panic(c)

Progress(c) ==
  LockFails(c) \/ Judge(c) \/ Resume(c) \/ Forward(c) \/ Return(c) \/ Fail(c)

AuditStep == AuditTakes \/ AuditInserts \/ AuditFails

Next ==
  \/ \E c \in Call : Enter(c) \/ TurnAway(c) \/ Progress(c)
  \/ AuditStep
  \/ \E s \in Session : Delete(s)
  \/ Crash
  \/ Quiescent

\* Goroutines run; locks, holds and upstream requests have their timeouts.  The
\* audit goroutine runs, too, unless it hangs.  No client owes a call.
Fairness ==
  /\ \A c \in Call : WF_vars(Progress(c))
  /\ WF_vars("hang" \notin env /\ AuditStep)

Spec == Init /\ [][Next]_vars /\ Fairness

-----------------------------------------------------------------------------
\* A turn has no more calls forwarded than its budget allows, however its calls
\* overlap, and though a restart forgets the counters: it forgets the sessions,
\* too, so no call of the turn comes after it.
BudgetHolds ==
  \A c \in Call : forwarded[c] # Nothing =>
    Cardinality({ d \in Call : KeyOf(d) = KeyOf(c) /\ forwarded[d] # Nothing })
      <= policy.maxToolCallsPerTurn

\* A call is refused for the budget only when that many calls of its own turn
\* have been counted: no turn is charged for another.
BudgetNotWasted ==
  \A c \in Call : answer[c] = "budgetExceeded" =>
    Cardinality({ d \in Call : KeyOf(d) = KeyOf(c) /\ number[d] \in 1 .. number[c] - 1 })
      >= policy.maxToolCallsPerTurn

\* The arguments that the policy lets through: those of the request, or what is left
\* of them when fields are redacted.
Sanctioned(c) ==
  {req[c].args : d \in { e \in Evaluate(policy, req[c].tool, req[c].args) :
                           e.action \in {"allow", "approvalRequired"} }}
    \cup Redactions(c)

\* The policy is enforced on every path to the upstream server: a call is forwarded
\* only within its budget and by a decision of the evaluator that allows it, redacts
\* it or asks for an approval, with the arguments of that decision, though the
\* parameters pass injector, gate and hold on the way and all calls share the
\* counters.  That an approval asked for was given is ApprovalFlow's to say.
PolicyEnforced ==
  \A c \in Call : forwarded[c] # Nothing =>
    /\ number[c] \in 1 .. policy.maxToolCallsPerTurn
    /\ forwarded[c].args \in Sanctioned(c)

\* The gate's records of a forwarded call show the arguments that were forwarded.
RecordedAsForwarded ==
  \A i \in DOMAIN Records :
    LET r == Records[i]
    IN  r.decision \in {"allow", "approvalRequired"} /\ forwarded[r.call] # Nothing =>
          r.args = forwarded[r.call].args

\* The records of a call, by its answer.  The gate writes none for an approval or a
\* rejection: of a call that was held and had a result they are those of a call that
\* was held and rejected, and only the ticket tells the two apart.
Passing == {<<"allow">>, <<"approvalRequired">>}

Halting == {<<"deny">>, <<"budgetExceeded">>, <<"approvalRequired", "expired">>}

Trails(c) ==
  CASE answer[c] = "result" -> Passing
    [] answer[c] = "denied" -> {<<"deny">>}
    [] answer[c] = "budgetExceeded" -> {<<"budgetExceeded">>}
    [] answer[c] = "rejected" -> {<<"approvalRequired">>}
    [] answer[c] = "expired" -> {<<"approvalRequired", "expired">>}
    [] answer[c] = "error" /\ forwarded[c] # Nothing ->
         { Append(t, "upstream_error") : t \in Passing }
    [] answer[c] = "error" /\ forwarded[c] = Nothing ->
         { Append(t, "upstream_error") :
             t \in {<<>>, <<"approvalRequired">>} \cup Halting }
    [] OTHER -> {<<>>}

\* The records of the call are those of the trail, in its order.
IsTrail(records, c, trail) ==
  LET own == { i \in DOMAIN records : records[i].call = c }
  IN  \E at \in [DOMAIN trail -> own] :
        /\ \A i \in own : \E k \in DOMAIN trail : at[k] = i
        /\ \A k \in DOMAIN trail : records[at[k]].decision = trail[k]
        /\ \A k, l \in DOMAIN trail : k < l => at[k] < at[l]

Told(records, c) == \E trail \in Trails(c) : IsTrail(records, c, trail)

\* As long as no record is lost, every answered call has a trail of its answer, in
\* the order of its decisions, in the log or on the way there: written before the
\* answer, whatever path the call took, and none for a call that was turned away.
TrailTells ==
  ~lost => \A c \in Call : pc[c] = "done" => Told(Records, c)

\* Unless an insert fails or hangs, the channel overflows or the gateway stops,
\* the trail of every answered call gets into the log.
TrailReachesLog ==
  \A c \in Call :
    pc[c] = "done" ~> lost \/ "hang" \in env \/ Told(auditLog, c)

\* Auditing never keeps a call waiting, even if the database hangs for ever.
EveryCallAnswered == \A c \in Call : UnderWay(c) ~> pc[c] = "done"
=============================================================================
