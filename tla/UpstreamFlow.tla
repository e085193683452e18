---------------------------- MODULE UpstreamFlow ----------------------------
(***************************************************************************)
(* The way of requests from Server.handleMCPPost to the upstream MCP       *)
(* server and back: UpstreamForwarder with its one upstream session, which *)
(* all requests share and which a restart of the upstream server ends, the *)
(* sessions the gateway gives to its own clients, and the cache of         *)
(* capabilities it falls back on.                                          *)
(*                                                                         *)
(* Concurrency guard and policy gate, which are modelled elsewhere, let a  *)
(* tool call pass or refuse it.                                            *)
(***************************************************************************)
EXTENDS Naturals

CONSTANTS
  Request,        \* requests of clients
  Programs,       \* the methods of the requests, to be considered
  Environments,   \* the environments to consider, sets of FaultKinds
  MaxRestarts     \* bound: restarts of the upstream server

Methods == {"initialize", "tools/list", "tools/call"}

\* What may happen:
\*   overlap     requests overlap, with each other and with restarts
\*   restart     the upstream server restarts and forgets its sessions
\*   crash       the gateway restarts
\*   error       no reply in time, or one that is not a response
\*   rpcError    the upstream server responds with a JSON-RPC error
\*   badRequest  the upstream server finds fault with a request, status 400
FaultKinds == {"overlap", "restart", "crash", "error", "rpcError", "badRequest"}

ASSUME ProgramsAssumption == Programs \subseteq [Request -> Methods]
ASSUME EnvironmentsAssumption == Environments \subseteq SUBSET FaultKinds
ASSUME MaxRestartsAssumption == MaxRestarts \in Nat

VARIABLES
  env,        \* the faults that may happen in this behavior
  method,     \* the method of each request
  pc,         \* where each request is
  leg,        \* which of the requests to upstream it is about to make
  used,       \* the session ID its latest request to upstream carried
  reply,      \* the reply to that request, then what Handle returns
  outcome,    \* what the client has been answered
  executed,   \* upstream: how often each request has been executed
  sid,        \* forwarder: upstreamSessionID
  sessions,   \* upstream: the sessions it knows
  issued,     \* upstream: how many sessions it has given out
  restarts,   \* upstream: how often it has restarted
  registry,   \* server: the clients' sessions, named by their initialize
  cache       \* server: the cached responses

vars == <<env, method, pc, leg, used, reply, outcome, executed, sid, sessions,
          issued, restarts, registry, cache>>

constants == <<env, method>>
upstreamVars == <<executed, sessions, issued, restarts>>
serverVars == <<registry, cache>>

\* The absent upstream session ID, "" in the code.  Sessions are numbered in
\* the order they are given out.
NoId == 0

Legs == {"first", "reinit", "retry"}

\* Replies are responses, a status 404 or 400 ("rejected"), or "failed": no
\* reply, another status, an undecodable body.  "nil" is what Handle returns
\* when neither of its results is set.
Replies == {"none", "result", "rpcError", "rejected", "failed", "nil"}

Outcomes == {"result", "rpcError", "empty", "cached", "error", "invalid",
             "refused", "lost"}

Cached == {"initialize", "tools/list"}

TypeOK ==
  /\ env \in Environments
  /\ method \in Programs
  /\ pc \in [Request -> {"idle", "send", "sent", "replied", "handled", "done"}]
  /\ leg \in [Request -> Legs]
  /\ used \in [Request -> Nat]
  /\ reply \in [Request -> [status : Replies, id : Nat]]
  /\ outcome \in [Request -> {"none"} \cup Outcomes]
  /\ \A r \in Request : pc[r] = "done" <=> outcome[r] # "none"
  /\ executed \in [Request -> Nat]
  /\ sid \in Nat
  /\ sessions \subseteq Nat
  /\ issued \in Nat
  /\ restarts \in 0 .. MaxRestarts
  /\ registry \subseteq Request
  /\ cache \in [Cached -> {"none", "result", "rpcError"}]

NoReply == [status |-> "none", id |-> NoId]

Init ==
  /\ env \in Environments
  /\ method \in Programs
  /\ pc = [r \in Request |-> "idle"]
  /\ leg = [r \in Request |-> "first"]
  /\ used = [r \in Request |-> NoId]
  /\ reply = [r \in Request |-> NoReply]
  /\ outcome = [r \in Request |-> "none"]
  /\ executed = [r \in Request |-> 0]
  /\ sid = NoId
  /\ sessions = {}
  /\ issued = 0
  /\ restarts = 0
  /\ registry = {}
  /\ cache = [m \in Cached |-> "none"]

-----------------------------------------------------------------------------

UnderWay(r) == pc[r] \notin {"idle", "done"}

\* Unless things overlap, they happen while no request is under way.
Calm == "overlap" \in env \/ \A r \in Request : ~UnderWay(r)

Goto(r, place) == pc' = [pc EXCEPT ![r] = place]

Answer(r, a) == Goto(r, "done") /\ outcome' = [outcome EXCEPT ![r] = a]

\* A request to upstream is an initialize: a client's, or revalidateSession's.
Initializes(r) == method[r] = "initialize" \/ leg[r] = "reinit"

-----------------------------------------------------------------------------
\* handleMCPPost, an initialize: it gets a session before it is forwarded.
Initialize(r) ==
  /\ pc[r] = "idle" /\ method[r] = "initialize" /\ Calm
  /\ registry' = registry \cup {r}
  /\ Goto(r, "send")
  /\ UNCHANGED <<constants, leg, used, reply, outcome, upstreamVars, sid, cache>>

\* A client learns its session with the answer to its initialize, and may go on
\* using it after it has been deleted or the gateway has restarted.
Known(s) == method[s] = "initialize" /\ pc[s] = "done" /\ outcome[s] # "lost"

\* handleMCPPost, another method: the session is looked up once.
Enter(r) ==
  /\ pc[r] = "idle" /\ method[r] # "initialize" /\ Calm
  /\ \E s \in Request : Known(s) /\ s \in registry
  /\ Goto(r, "send")
  /\ UNCHANGED <<constants, leg, used, reply, outcome, upstreamVars, sid, serverVars>>

\* handleMCPPost: no session ID, or one that is not registered.
Invalid(r) ==
  /\ pc[r] = "idle" /\ method[r] # "initialize" /\ Calm
  /\ Answer(r, "invalid")
  /\ UNCHANGED <<constants, leg, used, reply, executed, sid, sessions, issued,
                 restarts, serverVars>>

\* runPipeline: the guard or a handler of the pipeline answers a tool call.
Refuse(r) ==
  /\ pc[r] = "send" /\ leg[r] = "first" /\ method[r] = "tools/call"
  /\ Answer(r, "refused")
  /\ UNCHANGED <<constants, leg, used, reply, upstreamVars, sid, serverVars>>

\* doRequest: the session ID is read and the request posted with it.
Send(r) ==
  /\ pc[r] = "send"
  /\ used' = [used EXCEPT ![r] = sid]
  /\ Goto(r, "sent")
  /\ UNCHANGED <<constants, leg, reply, outcome, upstreamVars, sid, serverVars>>

-----------------------------------------------------------------------------
\* The upstream server replies.
Reply(r, status, id) ==
  /\ reply' = [reply EXCEPT ![r] = [status |-> status, id |-> id]]
  /\ Goto(r, "replied")
  /\ UNCHANGED <<constants, leg, used, outcome, restarts, sid, serverVars>>

\* The request itself is executed, not the initialize of a re-initialization.
Executes(r) ==
  executed' = [executed EXCEPT ![r] = IF leg[r] = "reinit" THEN @ ELSE @ + 1]

NewSession ==
  /\ issued' = issued + 1
  /\ sessions' = sessions \cup {issued + 1}

Responses == {"result"} \cup (env \cap {"rpcError"})

\* A request of a session is executed.
Serve(r) ==
  /\ pc[r] = "sent" /\ ~Initializes(r) /\ used[r] \in sessions
  /\ \E status \in Responses : Reply(r, status, NoId)
  /\ Executes(r)
  /\ UNCHANGED <<sessions, issued>>

\* An initialize begins a session, or goes on with the one it came with.
ServeInitialize(r) ==
  /\ pc[r] = "sent" /\ Initializes(r)
  /\ Executes(r)
  /\ \/ /\ used[r] \in {NoId} \cup sessions
        /\ NewSession
        /\ Reply(r, "result", issued + 1)
     \/ /\ used[r] \in sessions
        /\ \E id \in {NoId, used[r]} : Reply(r, "result", id)
        /\ UNCHANGED <<sessions, issued>>
     \/ /\ used[r] \in {NoId} \cup sessions /\ "rpcError" \in env
        /\ Reply(r, "rpcError", NoId)
        /\ UNCHANGED <<sessions, issued>>

\* A request without a session, an unknown session, a bad request.
Reject(r) ==
  /\ pc[r] = "sent"
  /\ \/ used[r] \notin sessions /\ ~(Initializes(r) /\ used[r] = NoId)
     \/ "badRequest" \in env
  /\ Reply(r, "rejected", NoId)
  /\ UNCHANGED <<executed, sessions, issued>>

\* The server cannot be reached, fails, is too late, or is not understood; it
\* may have executed the request.
Fail(r) ==
  /\ pc[r] = "sent" /\ "error" \in env
  /\ Executes(r) \/ UNCHANGED executed
  /\ \/ Reply(r, "failed", NoId) /\ UNCHANGED <<sessions, issued>>
     \/ Initializes(r) /\ NewSession /\ Reply(r, "failed", issued + 1)

-----------------------------------------------------------------------------
\* An ID stored without a look at it (mutant).
StoreAlways(r) == sid' = IF Initializes(r) THEN reply[r].id ELSE sid

\* doRequest: the session ID in the reply to an initialize, whatever its status.
Store(r) ==
  sid' = IF Initializes(r) /\ reply[r].id # NoId THEN reply[r].id ELSE sid

\* Any failure taken for a lost session (mutant).
StaleAlways(r) ==
  used[r] # NoId /\ ~Initializes(r) /\ reply[r].status \in {"rejected", "failed"}

\* doRequest: the upstream server does not know the session any more.
Stale(r) ==
  used[r] # NoId /\ ~Initializes(r) /\ reply[r].status = "rejected"

\* Handle returns to the server.
Return(r, status) ==
  /\ reply' = [reply EXCEPT ![r] = [status |-> status, id |-> NoId]]
  /\ Goto(r, "handled")

\* A retry that may be repeated (mutant).
ReceiveStaleForever(r) ==
  /\ pc[r] = "replied" /\ Stale(r)
  /\ sid' = NoId
  /\ leg' = [leg EXCEPT ![r] = "reinit"]
  /\ Goto(r, "send")
  /\ UNCHANGED <<constants, used, reply, outcome, upstreamVars, serverVars>>

\* A lost session that stays the forwarder's (mutant).
ReceiveStaleKeepsId(r) ==
  /\ pc[r] = "replied" /\ Stale(r)
  /\ UNCHANGED sid
  /\ \/ /\ leg[r] = "first"
        /\ leg' = [leg EXCEPT ![r] = "reinit"]
        /\ Goto(r, "send")
        /\ UNCHANGED reply
     \/ /\ leg[r] = "retry"
        /\ Return(r, "nil")
        /\ UNCHANGED leg
  /\ UNCHANGED <<constants, used, outcome, upstreamVars, serverVars>>

\* doRequest and Handle: the session is dropped, even if another request has
\* replaced it meanwhile.  The first time a new one is asked for; after the
\* retry Handle returns neither response nor error.
ReceiveStale(r) ==
  /\ pc[r] = "replied" /\ Stale(r)
  /\ sid' = NoId
  /\ \/ /\ leg[r] = "first"
        /\ leg' = [leg EXCEPT ![r] = "reinit"]
        /\ Goto(r, "send")
        /\ UNCHANGED reply
     \/ /\ leg[r] = "retry"
        /\ Return(r, "nil")
        /\ UNCHANGED leg
  /\ UNCHANGED <<constants, used, outcome, upstreamVars, serverVars>>

Good(r) == reply[r].status \in {"result", "rpcError"}

\* revalidateSession and Handle: any response is good enough for the retry.
ReceiveReinit(r) ==
  /\ pc[r] = "replied" /\ leg[r] = "reinit"
  /\ Store(r)
  /\ \/ /\ Good(r)
        /\ leg' = [leg EXCEPT ![r] = "retry"]
        /\ Goto(r, "send")
        /\ UNCHANGED reply
     \/ /\ ~Good(r)
        /\ Return(r, "failed")
        /\ UNCHANGED leg
  /\ UNCHANGED <<constants, used, outcome, upstreamVars, serverVars>>

\* doRequest and Handle: the reply to the request itself.
Receive(r) ==
  /\ pc[r] = "replied" /\ leg[r] # "reinit" /\ ~Stale(r)
  /\ Store(r)
  /\ Return(r, IF Good(r) THEN reply[r].status ELSE "failed")
  /\ UNCHANGED <<constants, leg, used, outcome, upstreamVars, serverVars>>

-----------------------------------------------------------------------------
\* handleMCPPost, writeInitializeResponse: a response is cached and handed on.
Respond(r) ==
  /\ pc[r] = "handled" /\ Good(r)
  /\ cache' = [m \in Cached |->
                 IF m = method[r] THEN reply[r].status ELSE cache[m]]
  /\ Answer(r, reply[r].status)
  /\ UNCHANGED <<constants, leg, used, reply, upstreamVars, sid, registry>>

\* writeJSONResponse without a response: status 204.
RespondEmpty(r) ==
  /\ pc[r] = "handled" /\ reply[r].status = "nil"
  /\ Answer(r, "empty")
  /\ UNCHANGED <<constants, leg, used, reply, upstreamVars, sid, serverVars>>

\* A cache that is not filled yet (mutant).
FallbackUnfilled(m) ==
  IF m \in Cached
    THEN IF cache[m] # "none" THEN "cached" ELSE "none"
    ELSE "error"

\* A cache that answers before it is filled (mutant).
FallbackAlways(m) == IF m \in Cached THEN "cached" ELSE "error"

\* The cached response of the method, if there is one.
Fallback(m) ==
  IF m \in Cached /\ cache[m] # "none" THEN "cached" ELSE "error"

\* handleMCPPost, writeInitializeResponse: the forwarder has failed, or the
\* guard could not release the locks of a tool call.
RespondError(r) ==
  /\ pc[r] = "handled"
  /\ \/ reply[r].status = "failed"
     \/ method[r] = "tools/call" /\ "error" \in env
  /\ Answer(r, Fallback(method[r]))
  /\ UNCHANGED <<constants, leg, used, reply, upstreamVars, sid, serverVars>>

\* handleMCPDelete.  Requests of the session that are under way go on.
Delete(s) ==
  /\ s \in registry /\ Known(s) /\ Calm
  /\ registry' = registry \ {s}
  /\ UNCHANGED <<constants, pc, leg, used, reply, outcome, upstreamVars, sid, cache>>

-----------------------------------------------------------------------------
\* The upstream server restarts.
Restart ==
  /\ "restart" \in env /\ Calm
  /\ restarts < MaxRestarts
  /\ restarts' = restarts + 1
  /\ sessions' = {}
  /\ UNCHANGED <<constants, pc, leg, used, reply, outcome, executed, sid, issued,
                 serverVars>>

\* The gateway restarts: it keeps nothing.
Crash ==
  /\ "crash" \in env /\ Calm
  /\ LET lost == { r \in Request : UnderWay(r) }
     IN  /\ pc' = [r \in Request |-> IF r \in lost THEN "done" ELSE pc[r]]
         /\ outcome' = [r \in Request |-> IF r \in lost THEN "lost" ELSE outcome[r]]
  /\ sid' = NoId
  /\ registry' = {}
  /\ cache' = [m \in Cached |-> "none"]
  /\ UNCHANGED <<constants, leg, used, reply, upstreamVars>>

\* All requests have been answered.
Quiescent == (\A r \in Request : pc[r] = "done") /\ UNCHANGED vars

-----------------------------------------------------------------------------
Begin(r) == Initialize(r) \/ Enter(r) \/ Invalid(r)

UpstreamStep(r) == Serve(r) \/ ServeInitialize(r) \/ Reject(r) \/ Fail(r)

ForwarderStep(r) == Send(r) \/ ReceiveStale(r) \/ ReceiveReinit(r) \/ Receive(r)

ServerStep(r) == Respond(r) \/ RespondEmpty(r) \/ RespondError(r)

Progress(r) == UpstreamStep(r) \/ ForwarderStep(r) \/ ServerStep(r) \/ Refuse(r)

Next ==
  \/ \E r \in Request : Begin(r) \/ Progress(r)
  \/ \E s \in Request : Delete(s)
  \/ Restart \/ Crash
  \/ Quiescent

\* Goroutines run, and the HTTP client gives up on a reply in the end.  No
\* client owes a request, and no fault is owed.
Fairness == \A r \in Request : WF_vars(Progress(r))

Spec == Init /\ [][Next]_vars /\ Fairness

-----------------------------------------------------------------------------
\* Whatever is lost, rejected, retried or restarted, a request is executed at
\* most once and its answer does not contradict that: no retry after a failure
\* that may have been an execution, no response that was the re-initialization's,
\* nothing handed on that was not executed.
Remote == INSTANCE RemoteCall WITH answer <- outcome

ImplementsRemoteCall == Remote!Spec

\* The gateway's own sessions vouch for an upstream session: as long as the
\* upstream server keeps its sessions and answers, a request that the server
\* lets in is never sent upstream without a session that is known there.  So
\* registry, sid and the upstream server agree, through crashes of the gateway
\* and overlapping initializations.
NothingLost == env \subseteq {"overlap", "crash"}

SentInSession ==
  NothingLost =>
    \A r \in Request :
      pc[r] = "sent" /\ ~Initializes(r) => used[r] \in sessions

\* After any restarts of the upstream server and the gateway a request that is
\* alone heals the session and is answered as if nothing had been: by the
\* upstream server or, an initialize that came with the lost session, from the
\* cache.
Alone == env \subseteq {"restart", "crash"}

HealsAlone ==
  Alone =>
    \A r \in Request : outcome[r] \notin {"error", "empty"}

\* The most steps a request may have left: those of the request to upstream it is
\* at, and of the legs that may follow.
Work(r) ==
  LET place == [send |-> 4, sent |-> 3, replied |-> 2, handled |-> 1, done |-> 0]
      after == [first |-> 2, reinit |-> 1, retry |-> 0]
  IN  place[pc[r]] + IF pc[r] \in {"handled", "done"} THEN 0 ELSE 3 * after[leg[r]]

\* No loop: whatever restarts, is lost or rejected, by whomever the session is
\* replaced meanwhile, each step of a request leaves it less to do, so that it
\* makes at most three requests to upstream; and its answer is final.
RetriesEnd ==
  [][ \A r \in Request :
        /\ UnderWay(r) /\ <<pc[r], leg[r]>>' # <<pc[r], leg[r]>> => Work(r)' < Work(r)
        /\ pc[r] = "done" => <<pc[r], outcome[r]>>' = <<pc[r], outcome[r]>> ]_vars

\* Where the cache has its entries from: each is the response of the upstream
\* server, a result or an error, to a request that it has executed, for the same
\* method and as the client of that request has got it: never the answer to a
\* re-initialization, to a rejected or a lost request; and no client is answered
\* from the cache before another was by the upstream server.  That error
\* responses are among them is not what the documents say: see SuccessCached.
CacheHasSource ==
  /\ \A m \in Cached : cache[m] # "none" =>
       \E r \in Request :
         method[r] = m /\ outcome[r] = cache[m] /\ executed[r] = 1
  /\ \A r \in Request : outcome[r] = "cached" =>
       \E q \in Request :
         method[q] = method[r] /\ outcome[q] \in {"result", "rpcError"}

\* Every request is answered: a session that is lost again and again does not
\* keep one going round.
EveryRequestAnswered ==
  \A r \in Request : UnderWay(r) ~> pc[r] = "done"

-----------------------------------------------------------------------------
\* The invariants these properties rest on.

\* A request that may still be sent, again or for the first time, has not been
\* executed; a response of its own says that it has.
ExecutionOf(r) ==
  /\ executed[r] \in {0, 1}
  /\ pc[r] \in {"idle", "send", "sent"} => executed[r] = 0
  /\ pc[r] = "replied" =>
       /\ reply[r].status \in {"result", "rpcError", "rejected", "failed"}
       /\ leg[r] = "reinit" \/ reply[r].status = "rejected" => executed[r] = 0
       /\ leg[r] # "reinit" /\ Good(r) => executed[r] = 1
  /\ pc[r] = "handled" =>
       /\ reply[r].status \in {"result", "rpcError", "failed", "nil"}
       /\ Good(r) => executed[r] = 1
       /\ reply[r].status = "nil" => executed[r] = 0

ExecutionInv == \A r \in Request : ExecutionOf(r)

\* As long as no session is lost, the forwarder has one from the first answered
\* initialize on.
SessionOf(r) ==
  /\ leg[r] = "first"
  /\ used[r] \in {NoId} \cup sessions
  /\ reply[r].id \in {NoId} \cup sessions
  /\ r \in registry /\ ~UnderWay(r) => sid # NoId
  /\ pc[r] = "send" /\ ~Initializes(r) => sid # NoId
  /\ pc[r] \in {"sent", "replied"} /\ used[r] # NoId => sid # NoId
  /\ pc[r] \in {"sent", "replied"} /\ ~Initializes(r) => used[r] # NoId
  /\ pc[r] = "replied" =>
       /\ reply[r].status = "result"
       /\ Initializes(r) => used[r] # NoId \/ reply[r].id # NoId
  /\ pc[r] = "handled" => sid # NoId

SessionInv ==
  /\ NoId \notin sessions
  /\ NothingLost =>
       /\ sid \in {NoId} \cup sessions
       /\ \A r \in Request : SessionOf(r)

\* What a request under way finds, leg by leg, when nothing else happens.
HasCache == cache["initialize"] # "none"

LoneRequest(r) ==
  /\ leg[r] = "first" /\ pc[r] # "handled" =>
       /\ sid # NoId => HasCache
       /\ ~Initializes(r) => sid # NoId
       /\ pc[r] # "send" => used[r] = sid
       /\ pc[r] = "replied" =>
            /\ reply[r].status \in {"result", "rejected"}
            /\ reply[r].status = "rejected" => sid # NoId
            /\ Initializes(r) => sid # NoId \/ reply[r].id # NoId
  /\ leg[r] # "first" => method[r] # "initialize" /\ HasCache
  /\ leg[r] = "reinit" =>
       /\ pc[r] # "handled"
       /\ sid = NoId
       /\ pc[r] # "send" => used[r] = NoId
       /\ pc[r] = "replied" =>
            reply[r].status = "result" /\ reply[r].id \in sessions
  /\ leg[r] = "retry" =>
       /\ sid \in sessions
       /\ pc[r] \in {"sent", "replied"} => used[r] = sid
       /\ pc[r] = "replied" => reply[r].status = "result"
  /\ pc[r] = "handled" =>
       /\ sid # NoId
       /\ reply[r].status \in {"result", "failed"}
       /\ HasCache \/ (method[r] = "initialize" /\ reply[r].status = "result")
       /\ reply[r].status = "failed" => method[r] = "initialize"

\* Between requests: with a session of its own the gateway has registered one
\* upstream, perhaps a lost one, and with that it has cached an initialize.
Rested ==
  /\ registry # {} => sid # NoId
  /\ sid # NoId => HasCache

LoneInv ==
  Alone =>
    /\ \A q, r \in Request : UnderWay(q) /\ UnderWay(r) => q = r
    /\ (\A r \in Request : ~UnderWay(r)) => Rested
    /\ \A r \in Request :
         /\ outcome[r] \notin {"error", "empty"}
         /\ pc[r] = "idle" => leg[r] = "first"
         /\ UnderWay(r) => LoneRequest(r)

-----------------------------------------------------------------------------
\* What the documents and comments say, which the code does not keep.

\* forwarder.go: "Upstream session was lost (upstream restart); re-initialize
\* and retry once".  So one restart should be all a client never sees.
HealsTogether ==
  env \subseteq {"restart", "overlap"} =>
    \A r \in Request : outcome[r] # "error"

\* README.md: "The gateway caches the last successful initialize and tools/list
\* responses from the upstream MCP server".  So, until the gateway restarts, the
\* cache has a result from the first successful answer on, whatever errors the
\* server answers later, and nothing before.
SuccessCached ==
  "crash" \notin env =>
    \A m \in Cached :
      cache[m] = IF \E r \in Request : method[r] = m /\ outcome[r] = "result"
                   THEN "result" ELSE "none"
=============================================================================
