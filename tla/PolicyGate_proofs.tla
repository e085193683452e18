------------------------- MODULE PolicyGate_proofs -------------------------
(***************************************************************************)
(* Theorems about PolicyGate, for all calls, requests, policies, capacities*)
(* of the audit channel and environments.                                  *)
(***************************************************************************)
EXTENDS PolicyGate, Policy_proofs, AuditWriter_proofs, FiniteSetTheorems

\* The steps of one call.
CallStep(c) ==
  \/ Enter(c) \/ TurnAway(c) \/ LockFails(c) \/ Count(c) \/ Exceed(c) \/ Allow(c)
  \/ Deny(c) \/ Hold(c) \/ RedactCall(c) \/ Panic(c) \/ Resume(c) \/ Forward(c)
  \/ Return(c) \/ Fail(c)

\* A step is one call's, the audit goroutine's, or a restart.
LEMMA Steps ==
  ASSUME [Next]_vars
  PROVE  \/ \E c \in Call : CallStep(c)
         \/ \E s \in Session : Delete(s)
         \/ AuditStep \/ Crash \/ UNCHANGED vars
BY DEF Next, CallStep, Progress, Judge, Quiescent

LEMMA ConstantsKept == [Next]_vars => UNCHANGED constants
BY Steps DEF CallStep, AuditStep, Delete, Crash, vars, constants, Enter, TurnAway, LockFails,
   Count, Exceed, Allow, Deny, Hold, RedactCall, Panic, Resume, Forward, Return, Fail,
   AuditTakes, AuditInserts, AuditFails

-----------------------------------------------------------------------------
\* Where a call is and what is known of it there.

\* The arguments a call may be recorded or forwarded with; they do not change.
Arguments(c) == {req[c].args} \cup Redactions(c)

AllArguments == UNION { Arguments(c) : c \in Call }

Params == [args : AllArguments, meta : BOOLEAN]

CallTypes ==
  /\ env \in Environments /\ policy \in Policies /\ req \in [Call -> Requests]
  /\ registered \subseteq Session
  /\ counts \in [Session \X Turn -> Nat]
  /\ pc \in [Call -> Phases]
  /\ number \in [Call -> Nat]
  /\ params \in [Call -> Params]
  /\ forwarded \in [Call -> {Nothing} \cup Params]
  /\ answer \in [Call -> {"none"} \cup Answers]
  /\ lost \in BOOLEAN

Stage(c) ==
  /\ pc[c] \in {"leaving", "done"} <=> answer[c] # "none"
  /\ forwarded[c] \in {Nothing, params[c]}
  /\ pc[c] \in {"idle", "entered", "counted", "held", "forward"} =>
       forwarded[c] = Nothing
  /\ pc[c] \in {"idle", "entered", "counted"} => params[c].args = req[c].args

CallInv == CallTypes /\ \A c \in Call : Stage(c)

LEMMA CallInvInit == Init => CallInv
<1> SUFFICES ASSUME Init PROVE CallInv
  OBVIOUS
<1>1. \A c \in Call : req[c].args \in AllArguments
  BY DEF AllArguments, Arguments
<1>2. params \in [Call -> Params]
  BY <1>1 DEF Init, Params
<1> QED
  BY <1>2 DEF Init, CallInv, CallTypes, Stage, Phases

LEMMA ArgumentsKept ==
  ASSUME UNCHANGED constants
  PROVE  Params' = Params /\ \A c \in Call : Arguments(c)' = Arguments(c)
BY DEF constants, Params, AllArguments, Arguments, Redactions

LEMMA MetaSet ==
  ASSUME NEW S, NEW r \in [args : S, meta : BOOLEAN]
  PROVE  [r EXCEPT !.meta = TRUE] = [args |-> r.args, meta |-> TRUE]
<1> DEFINE e == [r EXCEPT !.meta = TRUE]
<1>1. e \in [args : S, meta : BOOLEAN]
  OBVIOUS
<1>2. e.args = r.args /\ e.meta = TRUE
  OBVIOUS
<1>3. e = [args |-> e.args, meta |-> e.meta]
  <2> HIDE DEF e
  <2> QED
    BY <1>1
<1> QED
  BY <1>2, <1>3

LEMMA CallInvStep == CallInv /\ [Next]_vars => CallInv'
<1> SUFFICES ASSUME CallInv, [Next]_vars PROVE CallInv'
  OBVIOUS
<1>1. UNCHANGED constants /\ Params' = Params
  BY ConstantsKept, ArgumentsKept
<1> USE <1>1 DEF CallInv, CallTypes, Stage, Phases, Answers, Goto, Leave, Finish,
                 Audit, constants
<1>2. ASSUME NEW c \in Call,
             Enter(c) \/ TurnAway(c) \/ LockFails(c) \/ Exceed(c) \/ Allow(c)
             \/ Deny(c) \/ Hold(c) \/ Panic(c)
      PROVE  CallInv'
  <2>1. lost' \in BOOLEAN
    BY <1>2 DEF Enter, TurnAway, LockFails, Exceed, Allow, Deny, Hold, Panic, Quiet
  <2> QED
    BY <1>2, <2>1 DEF Enter, TurnAway, LockFails, Exceed, Allow, Deny, Hold, Panic,
       Decides
<1>3. ASSUME NEW c \in Call, Count(c) PROVE CallInv'
  <2>1. KeyOf(c) \in Session \X Turn
    BY RequestsAssumption DEF KeyOf
  <2>2. counts' \in [Session \X Turn -> Nat] /\ number' \in [Call -> Nat]
    BY <1>3, <2>1 DEF Count
  <2>3. params' = [params EXCEPT ![c] = [args |-> params[c].args, meta |-> TRUE]]
    <3>1. params[c] \in [args : AllArguments, meta : BOOLEAN]
      BY DEF Params
    <3>2. params' = [params EXCEPT ![c] = [params[c] EXCEPT !.meta = TRUE]]
      BY <1>3 DEF Count
    <3> QED
      BY <3>1, <3>2, MetaSet
  <2>4. params' \in [Call -> Params] /\ \A d \in Call : params'[d].args = params[d].args
    BY <2>3 DEF Params
  <2> QED
    BY <1>3, <2>2, <2>3, <2>4 DEF Count, Quiet
<1>4. ASSUME NEW c \in Call, RedactCall(c) PROVE CallInv'
  <2>1. PICK args \in Redactions(c) :
          params' = [params EXCEPT ![c] = [args |-> args, meta |-> FALSE]]
    BY <1>4 DEF RedactCall
  <2>2. [args |-> args, meta |-> FALSE] \in Params
    BY DEF Params, AllArguments, Arguments
  <2>3. params' \in [Call -> Params]
    BY <2>1, <2>2
  <2>4. lost' \in BOOLEAN
    BY <1>4 DEF RedactCall
  <2> QED
    BY <1>4, <2>1, <2>3, <2>4 DEF RedactCall, Decides
<1>5. ASSUME NEW c \in Call, Resume(c) \/ Forward(c) \/ Return(c) \/ Fail(c)
      PROVE  CallInv'
  <2>1. lost' \in BOOLEAN
    BY <1>5 DEF Resume, Forward, Return, Fail, Quiet
  <2> QED
    BY <1>5, <2>1 DEF Resume, Forward, Return, Fail
<1>6. CASE AuditStep
  BY <1>6 DEF AuditStep, AuditTakes, AuditInserts, AuditFails, gateVars
<1>7. CASE Crash
  BY <1>7 DEF Crash, UnderWay
<1>8. ASSUME NEW s \in Session, Delete(s) PROVE CallInv'
  BY <1>8 DEF Delete, Quiet
<1>9. CASE UNCHANGED vars
  BY <1>9 DEF vars, gateVars
<1> QED
  BY <1>2, <1>3, <1>4, <1>5, <1>6, <1>7, <1>8, <1>9, Steps DEF CallStep

-----------------------------------------------------------------------------
\* The budget: the calls of a turn have consecutive numbers, and one that passes
\* the gate has a number within the budget.

Numbered(k, n) == \E d \in Call : KeyOf(d) = k /\ number[d] = n

CallNumber(c) ==
  /\ pc[c] \in {"idle", "entered"} => number[c] = 0
  /\ pc[c] \in {"counted", "held", "forward"} => number[c] > 0
  /\ pc[c] \in {"held", "forward"} \/ forwarded[c] # Nothing =>
       number[c] \in 1 .. policy.maxToolCallsPerTurn
  /\ answer[c] = "budgetExceeded" => Exceeds(c)

Distinct(c, d) ==
  c # d /\ KeyOf(c) = KeyOf(d) /\ number[c] = number[d] => number[c] = 0

\* A session of which there is or may still be a call.
Live(s) == s \in registered \/ \E c \in Call : UnderWay(c) /\ req[c].session = s

\* Its turns have their counters yet: a restart takes counters, sessions and calls.
Counter(k) ==
  Live(k[1]) =>
    \A n \in Nat \ {0} : Numbered(k, n) <=> n <= counts[k]

BudgetInv ==
  /\ \A c \in Call : CallNumber(c)
  /\ \A c, d \in Call : Distinct(c, d)
  /\ \A k \in Session \X Turn : Counter(k)
  /\ \A c \in Call : \A n \in 1 .. number[c] - 1 : Numbered(KeyOf(c), n)

LEMMA BudgetInvInit == Init => BudgetInv
<1> SUFFICES ASSUME Init PROVE BudgetInv
  OBVIOUS
<1>1. \A k \in Session \X Turn : Counter(k)
  BY DEF Init, Counter, Numbered
<1>2. \A c \in Call : CallNumber(c)
  BY DEF Init, CallNumber, UnderWay
<1> QED
  BY <1>1, <1>2 DEF Init, BudgetInv, Distinct

\* Steps that leave numbers and counters alone and bring no session to life.
LEMMA NumbersKept ==
  ASSUME BudgetInv, UNCHANGED <<req, number, counts>>, \A s : Live(s)' => Live(s)
  PROVE  /\ \A c, d \in Call : Distinct(c, d)'
         /\ \A k \in Session \X Turn : Counter(k)'
         /\ \A c \in Call : \A n \in 1 .. number'[c] - 1 : Numbered(KeyOf(c), n)'
<1>1. \A c \in Call : KeyOf(c)' = KeyOf(c)
  BY DEF KeyOf
<1>2. \A k, n : Numbered(k, n)' <=> Numbered(k, n)
  BY <1>1 DEF Numbered
<1>3. \A c, d \in Call : Distinct(c, d)' <=> Distinct(c, d)
  BY <1>1 DEF Distinct
<1>4. \A k \in Session \X Turn : Counter(k) => Counter(k)'
  BY <1>2 DEF Counter
<1> QED
  BY <1>1, <1>2, <1>3, <1>4 DEF BudgetInv

LEMMA CountKeepsBudget ==
  ASSUME CallInv, BudgetInv, NEW c \in Call, Count(c)
  PROVE  BudgetInv'
<1> DEFINE k == KeyOf(c)
           N == counts[k] + 1
<1>1. /\ UNCHANGED <<constants, registered, forwarded, answer>>
      /\ pc[c] = "entered" /\ pc' = [pc EXCEPT ![c] = "counted"]
      /\ counts' = [counts EXCEPT ![k] = N] /\ number' = [number EXCEPT ![c] = N]
  BY DEF Count, Goto
<1>2. k \in Session \X Turn /\ Live(k[1]) /\ counts[k] \in Nat /\ number[c] = 0
  BY <1>1, RequestsAssumption DEF CallInv, CallTypes, BudgetInv, CallNumber, UnderWay,
     KeyOf, Live
<1>3. /\ counts \in [Session \X Turn -> Nat] /\ number \in [Call -> Nat]
      /\ pc \in [Call -> Phases]
  BY DEF CallInv, CallTypes
<1>4. \A d \in Call : KeyOf(d)' = KeyOf(d) /\ KeyOf(d) \in Session \X Turn
  BY <1>1, RequestsAssumption DEF KeyOf, constants, CallInv, CallTypes
<1>5. \A n \in Nat \ {0} : Numbered(k, n) <=> n < N
  BY <1>2 DEF BudgetInv, Counter
<1>6. \A q : \A n \in Nat \ {0} :
        Numbered(q, n)' <=> Numbered(q, n) \/ (q = k /\ n = N)
  BY <1>1, <1>2, <1>3, <1>4 DEF Numbered
<1>7. \A s : Live(s)' => Live(s)
  BY <1>1, <1>3 DEF Live, UnderWay, constants
<1>8. \A d \in Call : CallNumber(d)'
  <2> TAKE d \in Call
  <2>1. forwarded[c] = Nothing /\ answer[c] = "none"
    BY <1>1 DEF CallInv, Stage
  <2>2. CASE d = c
    BY <1>1, <1>2, <1>3, <2>1, <2>2 DEF CallNumber, UnderWay, Phases, KeyOf, constants
  <2>3. CASE d # c
    BY <1>1, <1>3, <2>3 DEF BudgetInv, CallNumber, UnderWay, Exceeds, constants
  <2> QED
    BY <2>2, <2>3
<1>9. \A d, e \in Call : Distinct(d, e)'
  <2>1. \A d \in Call : KeyOf(d) = k /\ number[d] # 0 => number[d] < N
    BY <1>3, <1>5 DEF Numbered
  <2>2. \A d, e \in Call : Distinct(d, e)
    BY DEF BudgetInv
  <2> QED
    BY <1>1, <1>2, <1>3, <1>4, <2>1, <2>2 DEF Distinct
<1>10. \A q \in Session \X Turn : Counter(q)'
  <2> TAKE q \in Session \X Turn
  <2>1. CASE q = k
    BY <1>1, <1>2, <1>3, <1>5, <1>6, <2>1 DEF Counter
  <2>2. CASE q # k
    BY <1>1, <1>2, <1>3, <1>6, <1>7, <2>2 DEF BudgetInv, Counter
  <2> QED
    BY <2>1, <2>2
<1>11. \A d \in Call : \A n \in 1 .. number'[d] - 1 : Numbered(KeyOf(d), n)'
  <2> TAKE d \in Call
  <2>1. CASE d = c
    BY <1>1, <1>2, <1>3, <1>4, <1>5, <1>6, <2>1
  <2>2. CASE d # c
    BY <1>1, <1>3, <1>4, <1>6, <2>2 DEF BudgetInv
  <2> QED
    BY <2>1, <2>2
<1> QED
  BY <1>8, <1>9, <1>10, <1>11 DEF BudgetInv

LEMMA BudgetInvStep == CallInv /\ BudgetInv /\ [Next]_vars => BudgetInv'
<1> SUFFICES ASSUME CallInv, BudgetInv, [Next]_vars PROVE BudgetInv'
  OBVIOUS
<1>1. UNCHANGED constants
  BY ConstantsKept
<1>2. ASSUME UNCHANGED <<number, counts>>, \A s : Live(s)' => Live(s),
             \A c \in Call : CallNumber(c)'
      PROVE  BudgetInv'
  <2>1. UNCHANGED req
    BY <1>1 DEF constants
  <2> QED
    BY <1>2, <2>1, NumbersKept DEF BudgetInv
<1>3. \A c \in Call : CallNumber(c) /\ Stage(c)
  BY DEF BudgetInv, CallInv
<1>4. CallTypes
  BY DEF CallInv
<1>5. ASSUME NEW c \in Call, CallStep(c), ~Count(c) PROVE BudgetInv'
  <2> USE <1>3, <1>4 DEF CallTypes, Phases, Goto, Leave, Finish, CallNumber, Exceeds,
                         UnderWay, Stage, constants
  <2>1. ASSUME NEW d \in Call, d # c PROVE CallNumber(d)'
    BY <1>1, <1>5, <2>1 DEF CallStep, Enter, TurnAway, LockFails, Exceed, Allow,
       Deny, Hold, RedactCall, Panic, Resume, Forward, Return, Fail
  <2>2. CASE Enter(c) \/ TurnAway(c) \/ LockFails(c)
    <3>1. CallNumber(c)'
      BY <1>1, <2>2 DEF Enter, TurnAway, LockFails
    <3>2. UNCHANGED <<number, counts>> /\ \A s : Live(s)' => Live(s)
      BY <1>1, <2>2 DEF Enter, TurnAway, LockFails, Live
    <3> QED
      BY <1>2, <2>1, <3>1, <3>2
  <2>3. CASE Exceed(c) \/ Allow(c) \/ Deny(c) \/ Hold(c) \/ RedactCall(c) \/ Panic(c)
    <3>1. policy.maxToolCallsPerTurn \in Int
      BY PoliciesAssumption
    <3>2. CallNumber(c)'
      BY <1>1, <2>3, <3>1 DEF Exceed, Allow, Deny, Hold, RedactCall, Panic, Decides
    <3>3. UNCHANGED <<number, counts>> /\ \A s : Live(s)' => Live(s)
      <4>1. /\ UNCHANGED <<number, counts, registered, req>> /\ UnderWay(c)
            /\ \A d \in Call : d # c => pc'[d] = pc[d]
        BY <1>1, <2>3 DEF Exceed, Allow, Deny, Hold, RedactCall, Panic, Decides
      <4> QED
        BY <4>1 DEF Live
    <3> QED
      BY <1>2, <2>1, <3>2, <3>3
  <2>4. CASE Resume(c) \/ Forward(c) \/ Return(c) \/ Fail(c)
    <3>1. CallNumber(c)'
      BY <1>1, <2>4 DEF Resume, Forward, Return, Fail
    <3>2. UNCHANGED <<number, counts>> /\ \A s : Live(s)' => Live(s)
      BY <1>1, <2>4 DEF Resume, Forward, Return, Fail, Live
    <3> QED
      BY <1>2, <2>1, <3>1, <3>2
  <2> QED
    BY <1>5, <2>2, <2>3, <2>4 DEF CallStep
<1>6. ASSUME \/ AuditStep \/ UNCHANGED vars \/ \E s \in Session : Delete(s)
      PROVE  BudgetInv'
  <2>1. /\ UNCHANGED <<number, counts, pc, req, answer, forwarded, policy>>
        /\ registered' \subseteq registered
    BY <1>6 DEF AuditStep, AuditTakes, AuditInserts, AuditFails, Delete, vars, gateVars,
       constants
  <2>2. \A c \in Call : CallNumber(c)'
    BY <1>3, <2>1 DEF CallNumber, Exceeds
  <2> QED
    BY <1>2, <2>1, <2>2 DEF Live, UnderWay
<1>7. ASSUME Crash PROVE BudgetInv'
  <2>1. /\ UNCHANGED <<number, forwarded, req, policy>> /\ registered' = {}
        /\ pc' = [c \in Call |-> IF UnderWay(c) THEN "done" ELSE pc[c]]
        /\ answer' = [c \in Call |-> IF UnderWay(c) THEN "lost" ELSE answer[c]]
    BY <1>1, <1>7 DEF Crash, constants
  <2>2. \A c \in Call : CallNumber(c)'
    BY <1>3, <2>1 DEF CallNumber, UnderWay, Exceeds
  <2>3. \A c \in Call : KeyOf(c)' = KeyOf(c)
    BY <2>1 DEF KeyOf
  <2>4. \A k, n : Numbered(k, n)' <=> Numbered(k, n)
    BY <2>1, <2>3 DEF Numbered
  <2>5. \A c, d \in Call : Distinct(c, d)' <=> Distinct(c, d)
    BY <2>1, <2>3 DEF Distinct
  <2>6. \A s : ~Live(s)'
    BY <2>1 DEF Live, UnderWay
  <2> QED
    BY <2>1, <2>2, <2>3, <2>4, <2>5, <2>6 DEF BudgetInv, Counter
<1> QED
  BY <1>5, <1>6, <1>7, Steps, CountKeepsBudget

\* The forwarded calls of a turn have different numbers within the budget.
Forwarded(c) == { d \in Call : KeyOf(d) = KeyOf(c) /\ forwarded[d] # Nothing }

LEMMA BudgetImplied == CallInv /\ BudgetInv => BudgetHolds
<1> SUFFICES ASSUME CallInv, BudgetInv, NEW c \in Call, forwarded[c] # Nothing
             PROVE  Cardinality(Forwarded(c)) <= policy.maxToolCallsPerTurn
  BY DEF BudgetHolds, Forwarded
<1> DEFINE m == policy.maxToolCallsPerTurn
           f == [d \in Forwarded(c) |-> number[d]]
<1>1. m \in Int /\ m >= 1
  BY PoliciesAssumption DEF CallInv, CallTypes, BudgetInv, CallNumber
<1>2. \A d \in Forwarded(c) : number[d] \in 1 .. m
  BY DEF Forwarded, BudgetInv, CallNumber
<1>3. \A d, e \in Forwarded(c) : number[d] = number[e] => d = e
  BY <1>1, <1>2 DEF Forwarded, BudgetInv, Distinct
<1>4. f \in Injection(Forwarded(c), 1 .. m)
  BY <1>2, <1>3 DEF Injection, IsInjective
<1>5. IsFiniteSet(1 .. m) /\ Cardinality(1 .. m) = m
  BY <1>1, FS_Interval
<1> QED
  BY <1>4, <1>5, FS_Injection

\* The calls counted before a refused one have every number below its own.
Counted(c) == { d \in Call : KeyOf(d) = KeyOf(c) /\ number[d] \in 1 .. number[c] - 1 }

LEMMA RefusalImplied == CallInv /\ BudgetInv => BudgetNotWasted
<1> SUFFICES ASSUME CallInv, BudgetInv, NEW c \in Call, answer[c] = "budgetExceeded"
             PROVE  Cardinality(Counted(c)) >= policy.maxToolCallsPerTurn
  BY DEF BudgetNotWasted, Counted
<1> DEFINE m == policy.maxToolCallsPerTurn
<1>1. m \in Int /\ number[c] \in Nat /\ number[c] > m
  BY PoliciesAssumption DEF CallInv, CallTypes, BudgetInv, CallNumber, Exceeds
<1>2. IsFiniteSet(Counted(c)) /\ Cardinality(Counted(c)) \in Nat
  <2>1. Counted(c) \in SUBSET Call
    BY DEF Counted
  <2> QED
    BY <2>1, FiniteCallsAssumption, FS_Subset, FS_CardinalityType
<1>3. CASE m <= 0
  BY <1>1, <1>2, <1>3
<1>4. CASE m >= 1
  <2> DEFINE g == [n \in 1 .. m |-> CHOOSE d \in Counted(c) : number[d] = n]
  <2>1. \A n \in 1 .. m : \E d \in Counted(c) : number[d] = n
    BY <1>1 DEF Counted, BudgetInv, Numbered
  <2>2. \A n \in 1 .. m : g[n] \in Counted(c) /\ number[g[n]] = n
    BY <2>1
  <2>3. g \in Injection(1 .. m, Counted(c))
    <3> HIDE DEF g
    <3>1. g \in [1 .. m -> Counted(c)]
      BY <2>2 DEF g
    <3> QED
      BY <2>2, <3>1 DEF Injection, IsInjective
  <2>4. IsFiniteSet(1 .. m) /\ Cardinality(1 .. m) = m
    BY <1>1, <1>4, FS_Interval
  <2> QED
    BY <1>2, <2>3, <2>4, FS_Injection
<1> QED
  BY <1>1, <1>3, <1>4

-----------------------------------------------------------------------------
\* The policy: a call past the gate has the arguments the policy lets through, and
\* sends no others.

Cleared(c) ==
  /\ pc[c] \in {"held", "forward"} => params[c].args \in Sanctioned(c)
  /\ forwarded[c] # Nothing => forwarded[c].args \in Sanctioned(c)

LEMMA SanctionedKept ==
  ASSUME UNCHANGED constants, NEW c \in Call
  PROVE  Sanctioned(c)' = Sanctioned(c)
BY DEF constants, Sanctioned, Redactions

\* Each way past the gate.
LEMMA GateClears ==
  ASSUME CallInv, NEW c \in Call, Allow(c) \/ Hold(c) \/ RedactCall(c)
  PROVE  params'[c].args \in Sanctioned(c)
<1>1. pc[c] = "counted" /\ params[c].args = req[c].args /\ params \in [Call -> Params]
  BY DEF Allow, Hold, RedactCall, Decides, CallInv, CallTypes, Stage
<1>2. CASE Allow(c) \/ Hold(c)
  <2>1. req[c].args \in Sanctioned(c)
    BY <1>2 DEF Allow, Hold, Decides, Sanctioned
  <2>2. params' = params
    BY <1>2 DEF Allow, Hold
  <2> QED
    BY <1>1, <2>1, <2>2
<1>3. CASE RedactCall(c)
  <2>1. PICK args \in Redactions(c) :
          params' = [params EXCEPT ![c] = [args |-> args, meta |-> FALSE]]
    BY <1>3 DEF RedactCall
  <2> QED
    BY <1>1, <2>1 DEF Sanctioned
<1> QED
  BY <1>2, <1>3

LEMMA ClearedStep ==
  ASSUME CallInv, [Next]_vars, \A c \in Call : Cleared(c)
  PROVE  \A c \in Call : Cleared(c)'
<1>1. UNCHANGED constants /\ \A c \in Call : Sanctioned(c)' = Sanctioned(c)
  BY ConstantsKept, SanctionedKept
<1>2. /\ pc \in [Call -> Phases] /\ params \in [Call -> Params]
      /\ forwarded \in [Call -> {Nothing} \cup Params]
      /\ \A c \in Call : Stage(c)
  BY DEF CallInv, CallTypes
<1>3. ASSUME NEW c \in Call, CallStep(c), NEW d \in Call PROVE Cleared(d)'
  <2>1. CASE d # c
    <3>1. pc'[d] = pc[d] /\ params'[d] = params[d] /\ forwarded'[d] = forwarded[d]
      BY <1>2, <1>3, <2>1
         DEF CallStep, Enter, TurnAway, LockFails, Count, Exceed, Allow, Deny, Hold,
             RedactCall, Panic, Resume, Forward, Return, Fail, Goto, Leave, Finish
    <3> QED
      BY <1>1, <3>1 DEF Cleared
  <2>2. CASE d = c
    <3>1. CASE Allow(c) \/ Hold(c) \/ RedactCall(c)
      <4>1. forwarded'[c] = forwarded[c]
        BY <3>1 DEF Allow, Hold, RedactCall
      <4> QED
        BY <1>1, <2>2, <3>1, <4>1, GateClears DEF Cleared
    <3>2. CASE Forward(c)
      <4>1. /\ pc[c] = "forward" /\ forwarded'[c] = params[c] /\ params' = params
            /\ pc'[c] \in {"leaving", "failed"}
        BY <1>2, <3>2 DEF Forward, Leave, Goto
      <4> QED
        BY <1>1, <2>2, <4>1 DEF Cleared
    <3>3. CASE Resume(c)
      <4>1. pc[c] = "held" /\ forwarded' = forwarded /\ params' = params
        BY <3>3 DEF Resume
      <4> QED
        BY <1>1, <2>2, <4>1 DEF Cleared
    <3>4. CASE \/ Enter(c) \/ TurnAway(c) \/ LockFails(c) \/ Count(c) \/ Exceed(c)
               \/ Deny(c) \/ Panic(c) \/ Return(c) \/ Fail(c)
      <4>1. forwarded' = forwarded /\ pc'[c] \notin {"held", "forward"}
        BY <1>2, <3>4
           DEF Enter, TurnAway, LockFails, Count, Exceed, Deny, Panic, Return, Fail,
               Goto, Leave, Finish
      <4> QED
        BY <1>1, <2>2, <4>1 DEF Cleared
    <3> QED
      BY <1>3, <3>1, <3>2, <3>3, <3>4 DEF CallStep
  <2> QED
    BY <2>1, <2>2
<1>4. CASE AuditStep \/ UNCHANGED vars \/ \E s \in Session : Delete(s)
  <2>1. UNCHANGED <<pc, params, forwarded>>
    BY <1>4 DEF AuditStep, AuditTakes, AuditInserts, AuditFails, Delete, vars, gateVars
  <2> QED
    BY <1>1, <2>1 DEF Cleared
<1>5. CASE Crash
  <2>1. /\ UNCHANGED <<params, forwarded>>
        /\ \A c \in Call : pc'[c] \in {"done", pc[c]}
    BY <1>5 DEF Crash
  <2> QED
    BY <1>1, <2>1 DEF Cleared
<1> QED
  BY <1>3, <1>4, <1>5, Steps

LEMMA EnforcedImplied ==
  BudgetInv /\ (\A c \in Call : Cleared(c)) => PolicyEnforced
BY DEF BudgetInv, CallNumber, Cleared, PolicyEnforced

-----------------------------------------------------------------------------
\* Records.

Record == [call : Call, decision : DecisionNames, args : AllArguments]

\* A record of a call that has been let through shows its parameters.
Faithful(r) ==
  r.decision \in {"allow", "approvalRequired"} =>
    /\ pc[r.call] \notin {"idle", "entered", "counted"}
    /\ r.args = params[r.call].args

FaithfulRecords == { r \in Record : Faithful(r) }

AuditInv ==
  /\ Kept(FaithfulRecords)
  /\ Len(queue) <= Capacity /\ Len(worker) <= 1

\* A call that is let through does not change its parameters any more.
LEMMA FaithfulStays ==
  ASSUME CallInv, [Next]_vars
  PROVE  FaithfulRecords \subseteq FaithfulRecords'
<1>1. UNCHANGED constants /\ Record' = Record
  BY ConstantsKept, ArgumentsKept DEF Record, AllArguments
<1>2. ASSUME NEW c \in Call, pc[c] \notin {"idle", "entered", "counted"}
      PROVE  pc'[c] \notin {"idle", "entered", "counted"} /\ params'[c] = params[c]
  <2> USE <1>2 DEF CallInv, CallTypes, Phases, Goto, Leave, Finish
  <2>1. ASSUME NEW d \in Call, CallStep(d)
        PROVE  pc'[c] \notin {"idle", "entered", "counted"} /\ params'[c] = params[c]
    BY <2>1 DEF CallStep, Enter, TurnAway, LockFails, Count, Exceed, Allow, Deny,
       Hold, RedactCall, Panic, Resume, Forward, Return, Fail, Decides
  <2>2. CASE AuditStep \/ UNCHANGED vars
    BY <2>2 DEF AuditStep, AuditTakes, AuditInserts, AuditFails, vars, gateVars
  <2>3. CASE Crash \/ \E s \in Session : Delete(s)
    BY <2>3 DEF Crash, Delete
  <2> QED
    BY <2>1, <2>2, <2>3, Steps
<1> QED
  BY <1>1, <1>2 DEF FaithfulRecords, Record, Faithful

LEMMA AuditInvInit == Init => AuditInv
BY CapacityAssumption DEF Init, AuditInit, AuditInv, Kept

LEMMA AuditInvStep == CallInv /\ AuditInv /\ [Next]_vars => AuditInv'
<1> SUFFICES ASSUME CallInv, AuditInv, [Next]_vars PROVE AuditInv'
  OBVIOUS
<1> DEFINE S == FaithfulRecords'
<1>1. Kept(S) /\ Len(queue) <= Capacity /\ Len(worker) <= 1
  BY FaithfulStays, KeptMonotone DEF AuditInv
<1>2. UNCHANGED constants /\ Record' = Record
  BY ConstantsKept, ArgumentsKept DEF Record, AllArguments
<1>3. ASSUME NEW c \in Call, CallStep(c)
      PROVE  \/ \E r \in S : Write(r) /\ UNCHANGED <<worker, auditLog>>
             \/ UNCHANGED auditVars
  <2> DEFINE Rec(decision, args) == [call |-> c, decision |-> decision, args |-> args]
  <2>1. req[c].args \in AllArguments /\ Redactions(c) \subseteq AllArguments
    BY DEF AllArguments, Arguments
  <2>2. ASSUME NEW decision \in DecisionNames, NEW args \in AllArguments,
               Audit(c, decision, args), Faithful(Rec(decision, args))'
        PROVE  \E r \in S : Write(r) /\ UNCHANGED <<worker, auditLog>>
    <3>1. Rec(decision, args) \in S
      BY <1>2, <2>2 DEF FaithfulRecords, Record
    <3> QED
      BY <2>2, <3>1 DEF Audit
  <2>3. ASSUME NEW decision \in {"budgetExceeded", "deny", "expired", "upstream_error"},
               Audit(c, decision, req[c].args)
        PROVE  \E r \in S : Write(r) /\ UNCHANGED <<worker, auditLog>>
    BY <2>1, <2>2, <2>3 DEF Faithful, DecisionNames
  <2>4. CASE Allow(c) \/ Hold(c)
    <3>1. /\ pc'[c] \in {"forward", "held"} /\ params'[c].args = req[c].args
      BY <2>4 DEF CallInv, CallTypes, Stage, Allow, Hold, Decides, Goto
    <3> QED
      BY <2>1, <2>2, <2>4, <3>1 DEF Faithful, DecisionNames, Allow, Hold
  <2>5. CASE RedactCall(c)
    <3>1. PICK args \in Redactions(c) :
            /\ Audit(c, "allow", args)
            /\ params' = [params EXCEPT ![c] = [args |-> args, meta |-> FALSE]]
      BY <2>5 DEF RedactCall
    <3>2. pc'[c] = "forward" /\ params'[c].args = args
      BY <2>5, <3>1 DEF CallInv, CallTypes, RedactCall, Goto
    <3> QED
      BY <2>1, <2>2, <3>1, <3>2 DEF Faithful, DecisionNames
  <2>6. CASE Exceed(c) \/ Deny(c) \/ Resume(c) \/ Fail(c)
    BY <2>3, <2>6 DEF Exceed, Deny, Resume, Fail, Quiet
  <2>7. CASE \/ Enter(c) \/ TurnAway(c) \/ LockFails(c) \/ Count(c) \/ Panic(c)
             \/ Forward(c) \/ Return(c)
    BY <2>7 DEF Enter, TurnAway, LockFails, Count, Panic, Forward, Return, Quiet
  <2> QED
    BY <1>3, <2>4, <2>5, <2>6, <2>7 DEF CallStep
<1>4. \/ \E r \in S : Write(r) /\ UNCHANGED <<worker, auditLog>>
      \/ UNCHANGED auditVars
      \/ Take \/ Insert \/ InsertFails \/ AuditStops
  BY <1>3, Steps DEF AuditStep, AuditTakes, AuditInserts, AuditFails, Delete, Quiet,
     Crash, vars
<1> HIDE DEF S
<1>5. /\ auditLog' \in Seq(S) /\ worker' \in Seq(S) /\ queue' \in Seq(S)
      /\ Len(queue') <= Capacity /\ Len(worker') <= 1
  BY <1>1, <1>4, AuditKeeps DEF Kept
<1> QED
  BY <1>5 DEF AuditInv, Kept, S

\* What holds of a call and its records, in the terms of TypeOK.
LEMMA TypeImplied == CallInv /\ AuditInv => TypeOK
<1> SUFFICES ASSUME CallInv, AuditInv PROVE TypeOK
  OBVIOUS
<1>1. \A i \in DOMAIN Records : Records[i] \in FaithfulRecords
  BY InRecords DEF AuditInv
<1>2. \A i \in DOMAIN Records :
        Records[i].call \in Call /\ Records[i].decision \in DecisionNames
  BY <1>1 DEF FaithfulRecords, Record
<1> QED
  BY <1>2 DEF TypeOK, CallInv, CallTypes, Stage, AuditInv

LEMMA RecordedImplied == CallInv /\ AuditInv => RecordedAsForwarded
<1> SUFFICES ASSUME CallInv, AuditInv, NEW i \in DOMAIN Records,
                    Records[i].decision \in {"allow", "approvalRequired"},
                    forwarded[Records[i].call] # Nothing
             PROVE  Records[i].args = forwarded[Records[i].call].args
  BY DEF RecordedAsForwarded
<1>1. Records[i] \in FaithfulRecords
  BY InRecords DEF AuditInv
<1> QED
  BY <1>1 DEF FaithfulRecords, Record, Faithful, CallInv, Stage

-----------------------------------------------------------------------------
\* The trails: where a call is tells which records it has, as long as none is lost.

Trail == Seq(DecisionNames)

\* The trails a call may have where it is; an answered one has one of its Trails.
Partial(c) ==
  CASE pc[c] = "held" -> {<<"approvalRequired">>}
    [] pc[c] = "forward" -> Passing
    [] pc[c] = "failed" /\ forwarded[c] # Nothing -> Passing
    [] pc[c] = "failed" /\ forwarded[c] = Nothing ->
         {<<>>, <<"approvalRequired">>} \cup Halting
    [] OTHER -> Trails(c)

\* Only a call that has been forwarded can have a result.
Answered(c) ==
  pc[c] = "leaving" =>
    \/ answer[c] = "result" /\ forwarded[c] # Nothing
    \/ /\ answer[c] \in {"denied", "budgetExceeded", "rejected", "expired"}
       /\ forwarded[c] = Nothing

HasTrail(c) == \E trail \in Partial(c) : IsTrail(Records, c, trail)

TrailInv ==
  /\ \A c \in Call : Answered(c)
  /\ ~lost => \A c \in Call : HasTrail(c)

LEMMA ShortTrails ==
  /\ \A a, b : Append(<<>>, a) = <<a>> /\ Append(<<a>>, b) = <<a, b>>
  /\ Passing \cup Halting \cup {<<>>} \subseteq Trail
<1>1. ASSUME NEW a, NEW b PROVE Append(<<>>, a) = <<a>> /\ Append(<<a>>, b) = <<a, b>>
  <2>1. <<>> \in Seq({a, b}) /\ <<a>> \in Seq({a, b}) /\ <<a, b>> \in Seq({a, b})
    OBVIOUS
  <2>2. Len(<<>>) = 0 /\ Len(<<a>>) = 1 /\ <<a>>[1] = a
    OBVIOUS
  <2>3. Len(<<a, b>>) = 2 /\ <<a, b>>[1] = a /\ <<a, b>>[2] = b
    OBVIOUS
  <2>4. /\ Append(<<>>, a) \in Seq({a, b}) /\ Len(Append(<<>>, a)) = 1
        /\ Append(<<>>, a)[1] = a
    BY <2>1, <2>2, AppendProperties
  <2>5. /\ Append(<<a>>, b) \in Seq({a, b}) /\ Len(Append(<<a>>, b)) = 2
        /\ Append(<<a>>, b)[1] = a /\ Append(<<a>>, b)[2] = b
    BY <2>1, <2>2, AppendProperties
  <2>6. \A i \in 1 .. Len(Append(<<>>, a)) : Append(<<>>, a)[i] = <<a>>[i]
    BY <2>2, <2>4
  <2>7. \A i \in 1 .. Len(Append(<<a>>, b)) : Append(<<a>>, b)[i] = <<a, b>>[i]
    BY <2>3, <2>5
  <2>8. Append(<<>>, a) = <<a>>
    BY <2>1, <2>2, <2>4, <2>6, SeqEqual
  <2>9. Append(<<a>>, b) = <<a, b>>
    BY <2>1, <2>3, <2>5, <2>7, SeqEqual
  <2> QED
    BY <2>8, <2>9
<1>2. Passing \cup Halting \cup {<<>>} \subseteq Trail
  BY DEF Passing, Halting, Trail, DecisionNames
<1> QED
  BY <1>1, <1>2

LEMMA PartialType == ASSUME NEW c PROVE Partial(c) \subseteq Trail
<1>1. /\ \A t \in Passing \cup Halting \cup {<<>>, <<"approvalRequired">>} :
           t \in Trail /\ Append(t, "upstream_error") \in Trail
  BY ShortTrails, AppendProperties DEF Passing, Trail, DecisionNames
<1>2. /\ <<"deny">> \in Trail /\ <<"budgetExceeded">> \in Trail
      /\ <<"approvalRequired">> \in Trail /\ <<"approvalRequired", "expired">> \in Trail
  BY ShortTrails DEF Halting, Passing
<1>3. Trails(c) \subseteq Trail
  BY <1>1, <1>2 DEF Trails
<1> QED
  BY <1>1, <1>2, <1>3 DEF Partial

\* A record of the call extends its trail; one of another call does not.
LEMMA TrailGrows ==
  ASSUME NEW R \in Seq(Record), NEW r \in Record, NEW c, NEW t \in Trail, IsTrail(R, c, t)
  PROVE  /\ r.call = c => IsTrail(Append(R, r), c, Append(t, r.decision))
         /\ r.call # c => IsTrail(Append(R, r), c, t)
<1> DEFINE own == { i \in DOMAIN R : R[i].call = c }
           R1 == Append(R, r)
           own1 == { i \in DOMAIN R1 : R1[i].call = c }
           n == Len(R) + 1
           m == Len(t) + 1
           t1 == Append(t, r.decision)
<1>1. PICK at \in [DOMAIN t -> own] :
        /\ \A i \in own : \E k \in DOMAIN t : at[k] = i
        /\ \A k \in DOMAIN t : R[at[k]].decision = t[k]
        /\ \A k, l \in DOMAIN t : k < l => at[k] < at[l]
  BY DEF IsTrail
<1>2. /\ Len(R) \in Nat /\ DOMAIN R = 1 .. Len(R) /\ DOMAIN R1 = 1 .. n
      /\ R1[n] = r /\ \A i \in 1 .. Len(R) : R1[i] = R[i]
  BY AppendProperties, LenProperties
<1>3. r.decision \in DecisionNames
  BY DEF Record
<1>4. /\ Len(t) \in Nat /\ DOMAIN t = 1 .. Len(t) /\ DOMAIN t1 = 1 .. m
      /\ t1[m] = r.decision /\ \A k \in 1 .. Len(t) : t1[k] = t[k]
  BY <1>3, AppendProperties, LenProperties DEF Trail
<1> HIDE DEF R1, t1
<1>5. CASE r.call # c
  <2>1. own1 = own
    BY <1>2, <1>5
  <2>2. \A k \in DOMAIN t : R1[at[k]] = R[at[k]]
    BY <1>1, <1>2
  <2>3. IsTrail(R1, c, t)
    <3>1. \A k \in DOMAIN t : R1[at[k]].decision = t[k]
      BY <1>1, <2>2
    <3> HIDE DEF own
    <3> QED
      BY <1>1, <2>1, <3>1 DEF IsTrail
  <2> QED
    BY <1>5, <2>3 DEF R1
<1>6. CASE r.call = c
  <2>1. own1 = own \cup {n}
    BY <1>2, <1>6
  <2> DEFINE at1 == [k \in 1 .. m |-> IF k = m THEN n ELSE at[k]]
  <2>2. at1 \in [DOMAIN t1 -> own1]
    BY <1>1, <1>4, <2>1
  <2>3. \A i \in own1 : \E k \in DOMAIN t1 : at1[k] = i
    BY <1>1, <1>4, <2>1
  <2>4. \A k \in DOMAIN t1 : R1[at1[k]].decision = t1[k]
    BY <1>1, <1>2, <1>4
  <2>5. \A k, l \in DOMAIN t1 : k < l => at1[k] < at1[l]
    BY <1>1, <1>2, <1>4
  <2> HIDE DEF at1
  <2>6. IsTrail(R1, c, t1)
    BY <2>2, <2>3, <2>4, <2>5 DEF IsTrail
  <2> QED
    BY <1>6, <2>6 DEF R1, t1
<1> QED
  BY <1>5, <1>6

\* A call's step that writes nothing leaves it a trail it may have, one that writes
\* extends all its trails to such; the records of other calls stay.
LEMMA TrailStep ==
  ASSUME AuditInv, \A d \in Call : HasTrail(d), ~lost', NEW c \in Call,
         \A d \in Call \ {c} : Partial(d)' = Partial(d),
         \/ Quiet /\ Partial(c) \subseteq Partial(c)'
         \/ \E decision \in DecisionNames, args \in AllArguments :
              /\ Audit(c, decision, args)
              /\ \A trail \in Partial(c) : Append(trail, decision) \in Partial(c)'
  PROVE  \A d \in Call : HasTrail(d)'
<1>1. Kept(Record)
  BY KeptMonotone DEF AuditInv, FaithfulRecords
<1>2. CASE Quiet /\ Partial(c) \subseteq Partial(c)'
  <2>1. Records' = Records
    BY <1>1, <1>2, RecordsMove DEF Quiet
  <2>2. \A d \in Call : Partial(d) \subseteq Partial(d)'
    BY <1>2
  <2>3. ASSUME NEW d \in Call PROVE HasTrail(d)'
    <3>1. PICK trail \in Partial(d) : IsTrail(Records, d, trail)
      BY DEF HasTrail
    <3>2. trail \in Partial(d)' /\ IsTrail(Records', d, trail)
      BY <2>1, <2>2, <3>1
    <3> QED
      BY <3>2 DEF HasTrail, IsTrail
  <2> QED
    BY <2>3
<1>3. ASSUME NEW decision \in DecisionNames, NEW args \in AllArguments,
             Audit(c, decision, args),
             \A trail \in Partial(c) : Append(trail, decision) \in Partial(c)'
      PROVE  \A d \in Call : HasTrail(d)'
  <2> DEFINE r == [call |-> c, decision |-> decision, args |-> args]
  <2>1. r \in Record /\ r.call = c /\ r.decision = decision
    BY DEF Record
  <2>2. Write(r) /\ ~Full /\ UNCHANGED <<worker, auditLog>>
    BY <1>3 DEF Audit
  <2> HIDE DEF r
  <2>3. Records \in Seq(Record) /\ Records' = Append(Records, r)
    BY <1>1, <2>1, <2>2, RecordsMove
  <2> TAKE d \in Call
  <2>4. PICK trail \in Partial(d) : IsTrail(Records, d, trail)
    BY DEF HasTrail
  <2>5. trail \in Trail
    BY <2>4, PartialType
  <2>6. \E t \in Partial(d)' : IsTrail(Records', d, t)
    <3>1. CASE d = c
      <4>1. IsTrail(Append(Records, r), d, Append(trail, decision))
        BY <2>1, <2>3, <2>4, <2>5, <3>1, TrailGrows
      <4>2. Append(trail, decision) \in Partial(d)'
        BY <1>3, <2>4, <3>1
      <4> QED
        BY <2>3, <4>1, <4>2
    <3>2. CASE d # c
      <4>1. IsTrail(Append(Records, r), d, trail)
        BY <2>1, <2>3, <2>4, <2>5, <3>2, TrailGrows
      <4>2. trail \in Partial(d)'
        BY <2>4, <3>2
      <4> QED
        BY <2>3, <4>1, <4>2
    <3> QED
      BY <3>1, <3>2
  <2> QED
    BY <2>6 DEF HasTrail, IsTrail
<1> QED
  BY <1>2, <1>3

LEMMA TrailInvInit == Init => TrailInv
<1> SUFFICES ASSUME Init PROVE TrailInv
  OBVIOUS
<1>1. \A c \in Call : Answered(c)
  BY DEF Init, Answered
<1>2. ASSUME NEW c \in Call PROVE HasTrail(c)
  <2>1. Records = <<>>
    BY DEF Init, AuditInit, Records
  <2>2. <<>> \in Partial(c)
    BY DEF Init, Partial, Trails
  <2>3. IsTrail(<<>>, c, <<>>)
    <3> DEFINE own == { i \in DOMAIN <<>> : <<>>[i].call = c }
               at == [k \in DOMAIN <<>> |-> k]
    <3>1. DOMAIN <<>> = {} /\ own = {}
      OBVIOUS
    <3>2. at \in [DOMAIN <<>> -> own]
      BY <3>1
    <3> HIDE DEF at
    <3> QED
      BY <3>1, <3>2 DEF IsTrail
  <2> QED
    BY <2>1, <2>2, <2>3 DEF HasTrail
<1> QED
  BY <1>1, <1>2 DEF TrailInv

\* A forwarded request is something.
LEMMA ParamsAreThere == \A p \in Params : p # Nothing
<1> SUFFICES ASSUME NEW p \in Params, p = <<>> PROVE FALSE
  BY DEF Nothing
<1>1. "args" \in DOMAIN p
  BY DEF Params
<1>2. DOMAIN p = {}
  OBVIOUS
<1> QED
  BY <1>1, <1>2

\* What the steps of a call make of its trails.
LEMMA CallTrails ==
  ASSUME CallInv, NEW c \in Call, Answered(c), CallStep(c)
  PROVE  /\ Answered(c)'
         /\ \/ Quiet /\ Partial(c) \subseteq Partial(c)'
            \/ \E decision \in DecisionNames, args \in AllArguments :
                 /\ Audit(c, decision, args)
                 /\ \A trail \in Partial(c) : Append(trail, decision) \in Partial(c)'
<1> DEFINE Silent == Quiet /\ Partial(c) \subseteq Partial(c)'
           Writes(decision) ==
             /\ \E args \in AllArguments : Audit(c, decision, args)
             /\ \A trail \in Partial(c) : Append(trail, decision) \in Partial(c)'
<1>1. /\ pc \in [Call -> Phases] /\ answer \in [Call -> {"none"} \cup Answers]
      /\ forwarded \in [Call -> {Nothing} \cup Params] /\ params[c] # Nothing
      /\ Stage(c)
  BY ParamsAreThere DEF CallInv, CallTypes
<1>2. req[c].args \in AllArguments /\ Redactions(c) \subseteq AllArguments
  BY DEF AllArguments, Arguments
<1>3. CASE Enter(c) \/ TurnAway(c) \/ LockFails(c) \/ Count(c) \/ Panic(c)
  <2>1. Silent
    BY <1>1, <1>3 DEF Enter, TurnAway, LockFails, Count, Panic, Decides, Goto, Finish,
       Stage, Partial, Trails
  <2>2. Answered(c)'
    BY <1>1, <1>3 DEF Enter, TurnAway, LockFails, Count, Panic, Decides, Goto, Finish,
       Answered
  <2> QED
    BY <2>1, <2>2
<1>4. CASE Forward(c) \/ Return(c)
  <2>1. Silent
    BY <1>1, <1>4 DEF Forward, Return, Leave, Goto, Stage, Partial, Trails, Answered, Halting
  <2>2. Answered(c)'
    BY <1>1, <1>4 DEF Forward, Return, Leave, Goto, Stage, Answered
  <2> QED
    BY <2>1, <2>2
<1>5. CASE Exceed(c) \/ Deny(c)
  <2>1. Writes("budgetExceeded") \/ Writes("deny")
    BY <1>1, <1>2, <1>5, ShortTrails DEF Exceed, Deny, Decides, Leave, Goto, Stage, Partial,
       Trails
  <2>2. Answered(c)'
    BY <1>1, <1>5 DEF Exceed, Deny, Decides, Leave, Goto, Stage, Answered
  <2> QED
    BY <2>1, <2>2 DEF DecisionNames
<1>6. CASE Allow(c) \/ Hold(c) \/ RedactCall(c)
  <2>1. Writes("allow") \/ Writes("approvalRequired")
    BY <1>1, <1>2, <1>6, ShortTrails DEF Allow, Hold, RedactCall, Decides, Goto, Stage,
       Partial, Trails, Passing
  <2>2. Answered(c)'
    BY <1>1, <1>6 DEF Allow, Hold, RedactCall, Decides, Goto, Answered
  <2> QED
    BY <2>1, <2>2 DEF DecisionNames
<1>7. CASE Resume(c)
  <2>1. Silent \/ Writes("expired")
    <3>1. Partial(c) = {<<"approvalRequired">>} /\ UNCHANGED forwarded
      BY <1>7 DEF Resume, Partial
    <3>2. CASE Goto(c, "forward") /\ Quiet
      BY <1>1, <3>1, <3>2 DEF Goto, Partial, Passing
    <3>3. CASE Leave(c, "rejected") /\ Quiet
      BY <1>1, <3>1, <3>3 DEF Leave, Goto, Partial, Trails
    <3>4. CASE Leave(c, "expired") /\ Audit(c, "expired", req[c].args)
      <4>1. Partial(c)' = {<<"approvalRequired", "expired">>}
        BY <1>1, <3>1, <3>4 DEF Leave, Goto, Partial, Trails
      <4> QED
        BY <1>2, <3>1, <3>4, <4>1, ShortTrails
    <3> QED
      BY <1>7, <3>2, <3>3, <3>4 DEF Resume
  <2>2. Answered(c)'
    BY <1>1, <1>7 DEF Resume, Leave, Goto, Stage, Answered
  <2> QED
    BY <2>1, <2>2 DEF DecisionNames
<1>8. CASE Fail(c)
  <2>1. Writes("upstream_error")
    BY <1>1, <1>2, <1>8 DEF Fail, Finish, Goto, Stage, Partial, Trails
  <2>2. Answered(c)'
    BY <1>1, <1>8 DEF Fail, Finish, Goto, Answered
  <2> QED
    BY <2>1, <2>2 DEF DecisionNames
<1> QED
  BY <1>3, <1>4, <1>5, <1>6, <1>7, <1>8 DEF CallStep

LEMMA TrailInvStep == CallInv /\ AuditInv /\ TrailInv /\ [Next]_vars => TrailInv'
<1> SUFFICES ASSUME CallInv, AuditInv, TrailInv, [Next]_vars PROVE TrailInv'
  OBVIOUS
<1>1. ASSUME NEW c \in Call, CallStep(c) PROVE TrailInv'
  <2>1. ASSUME NEW d \in Call \ {c}
        PROVE  pc'[d] = pc[d] /\ answer'[d] = answer[d] /\ forwarded'[d] = forwarded[d]
    BY <1>1, <2>1 DEF CallInv, CallTypes, CallStep, Enter, TurnAway, LockFails, Count,
       Exceed, Allow, Deny, Hold, RedactCall, Panic, Resume, Forward, Return, Fail, Goto,
       Leave, Finish
  <2>2. ASSUME NEW d \in Call \ {c} PROVE Partial(d)' = Partial(d) /\ Answered(d)'
    <3>1. Partial(d)' = Partial(d)
      BY <2>1 DEF Partial, Trails
    <3>2. Answered(d)'
      BY <2>1 DEF TrailInv, Answered
    <3> QED
      BY <3>1, <3>2
  <2>3. Answered(c)
    BY DEF TrailInv
  <2>4. ~lost' => ~lost
    BY <1>1 DEF CallStep, Enter, TurnAway, LockFails, Count, Exceed, Allow, Deny, Hold,
       RedactCall, Panic, Resume, Forward, Return, Fail, Quiet, Audit
  <2>5. ~lost' => \A d \in Call : HasTrail(d)'
    BY <1>1, <2>2, <2>3, <2>4, CallTrails, TrailStep DEF TrailInv
  <2>6. \A d \in Call : Answered(d)'
    BY <1>1, <2>2, <2>3, CallTrails
  <2> QED
    BY <2>5, <2>6 DEF TrailInv
<1>2. ASSUME UNCHANGED <<pc, answer, forwarded>>, ~lost' => ~lost /\ UNCHANGED Records
      PROVE  TrailInv'
  <2>1. \A c : Answered(c)' <=> Answered(c)
    BY <1>2 DEF Answered
  <2>2. \A c : Partial(c)' = Partial(c)
    BY <1>2 DEF Partial, Trails
  <2>3. ~lost' => \A c : HasTrail(c)' <=> HasTrail(c)
    BY <1>2, <2>2 DEF HasTrail, IsTrail
  <2> QED
    BY <1>2, <2>1, <2>3 DEF TrailInv
<1>3. CASE AuditStep
  <2>1. UNCHANGED <<pc, answer, forwarded>>
    BY <1>3 DEF AuditStep, AuditTakes, AuditInserts, AuditFails, gateVars
  <2>2. ~lost' => ~lost /\ (Take \/ Insert)
    BY <1>3 DEF AuditStep, AuditTakes, AuditInserts, AuditFails
  <2>3. ~lost' => UNCHANGED Records
    BY <2>2, RecordsMove DEF AuditInv
  <2> QED
    BY <1>2, <2>1, <2>2, <2>3
<1>4. CASE UNCHANGED vars \/ \E s \in Session : Delete(s)
  <2>1. UNCHANGED <<pc, answer, forwarded, lost, auditVars>>
    BY <1>4 DEF vars, gateVars, Delete, Quiet
  <2>2. UNCHANGED Records
    BY <2>1, RecordsMove DEF AuditInv
  <2> QED
    BY <1>2, <2>1, <2>2
<1>5. CASE Crash
  <2>1. lost' /\ \A c \in Call : pc'[c] # "leaving"
    BY <1>5 DEF Crash, UnderWay
  <2> QED
    BY <2>1 DEF TrailInv, Answered
<1> QED
  BY <1>1, <1>3, <1>4, <1>5, Steps

LEMMA TrailImplied == TrailInv => TrailTells
BY DEF TrailInv, HasTrail, Partial, TrailTells, Told

ClearedInv == \A c \in Call : Cleared(c)

GateInv == CallInv /\ BudgetInv /\ ClearedInv /\ AuditInv /\ TrailInv

LEMMA GateInvariant == Spec => []GateInv
<1>1. Init => GateInv
  <2>1. Init => ClearedInv
    BY DEF Init, ClearedInv, Cleared
  <2> QED
    BY <2>1, CallInvInit, BudgetInvInit, AuditInvInit, TrailInvInit DEF GateInv
<1>2. GateInv /\ [Next]_vars => GateInv'
  <2>1. CallInv /\ ClearedInv /\ [Next]_vars => ClearedInv'
    BY ClearedStep DEF ClearedInv
  <2> QED
    BY <2>1, CallInvStep, BudgetInvStep, AuditInvStep, TrailInvStep DEF GateInv
<1> QED
  BY <1>1, <1>2, PTL DEF Spec

\* The variables of the gate and of the audit writer keep their types; the channel
\* never holds more than its capacity.
THEOREM TypeCorrect == Spec => []TypeOK
BY GateInvariant, TypeImplied, PTL DEF GateInv

\* However calls overlap and gateways restart, a turn has at most its budget of
\* calls forwarded.
THEOREM BudgetIsKept == Spec => []BudgetHolds
BY GateInvariant, BudgetImplied, PTL DEF GateInv

\* A call refused for the budget had as many calls of its turn before it.
THEOREM BudgetIsNotWasted == Spec => []BudgetNotWasted
BY GateInvariant, RefusalImplied, PTL DEF GateInv

\* Nothing reaches the upstream server but within the budget, by a decision of the
\* policy, and with the arguments of that decision.
THEOREM PolicyIsEnforced == Spec => []PolicyEnforced
<1>1. GateInv => PolicyEnforced
  BY EnforcedImplied DEF GateInv, ClearedInv
<1> QED
  BY <1>1, GateInvariant, PTL

\* No decision of the policy lets the call through, or shows the field if it does.
Denied(c) ==
  \A d \in Evaluate(policy, req[c].tool, req[c].args) : d.action \in {"deny", "panic"}

Hidden(c, f) ==
  \A d \in Evaluate(policy, req[c].tool, req[c].args) :
    /\ d.action \notin {"allow", "approvalRequired"}
    /\ d.action = "redact" => f \in d.redactFields

\* What is forwarded respects the rules that deny and the rules that redact.
RulesHold ==
  \A c \in Call : forwarded[c] # Nothing =>
    /\ ~Denied(c)
    /\ \A f \in DOMAIN req[c].args : Hidden(c, f) => forwarded[c].args[f] = Redacted

\* What the rules deny never reaches the upstream server, nor does the value of a
\* field they redact, whatever happens to the call on the way.
THEOREM DenialsAndRedactionsHold == Spec => []RulesHold
<1>1. ASSUME PolicyEnforced, NEW c \in Call, forwarded[c] # Nothing
      PROVE  /\ ~Denied(c)
             /\ \A f \in DOMAIN req[c].args :
                  Hidden(c, f) => forwarded[c].args[f] = Redacted
  <2>1. forwarded[c].args \in Sanctioned(c)
    BY <1>1 DEF PolicyEnforced
  <2>2. ~Denied(c)
    BY <2>1 DEF Sanctioned, Redactions, Denied
  <2>3. ASSUME NEW f \in DOMAIN req[c].args, Hidden(c, f)
        PROVE  forwarded[c].args[f] = Redacted
    <3>1. forwarded[c].args \in Redactions(c)
      BY <2>1, <2>3 DEF Sanctioned, Hidden
    <3>2. PICK fields : f \in fields /\ forwarded[c].args = Redact(req[c].args, fields)
      BY <2>3, <3>1 DEF Redactions, Hidden
    <3> QED
      BY <2>3, <3>2 DEF Redact
  <2> QED
    BY <2>2, <2>3
<1>2. PolicyEnforced => RulesHold
  BY <1>1 DEF RulesHold
<1> QED
  BY <1>2, PolicyIsEnforced, PTL

\* The gate's records of a forwarded call show what was forwarded, redactions and
\* all, wherever the records have got to.
THEOREM ForwardedIsRecorded == Spec => []RecordedAsForwarded
BY GateInvariant, RecordedImplied, PTL DEF GateInv

\* As long as no record is lost, every answered call has the records that its answer
\* calls for, in the order of the decisions, wherever the records have got to.
THEOREM TrailsAreTold == Spec => []TrailTells
BY GateInvariant, TrailImplied, PTL DEF GateInv

-----------------------------------------------------------------------------
\* What the records of an answered call leave open about its answer.

DecisionsOf(records, c) ==
  { records[i].decision : i \in { k \in DOMAIN records : records[k].call = c } }

\* The gate records neither an approval nor a rejection, so a held call that went on and
\* had a result looks like one that was rejected; and a call without records was turned
\* away, or lost with the gateway.
ReadOff(decisions) ==
  CASE "upstream_error" \in decisions -> {"error"}
    [] decisions = {"allow"} -> {"result"}
    [] decisions = {"approvalRequired"} -> {"result", "rejected"}
    [] decisions = {"deny"} -> {"denied"}
    [] decisions = {"budgetExceeded"} -> {"budgetExceeded"}
    [] decisions = {"approvalRequired", "expired"} -> {"expired"}
    [] OTHER -> {"invalid", "malformed", "lost"}

LEMMA TrailDecisions ==
  ASSUME NEW records, NEW c, NEW trail, IsTrail(records, c, trail)
  PROVE  DecisionsOf(records, c) = { trail[k] : k \in DOMAIN trail }
<1> DEFINE own == { i \in DOMAIN records : records[i].call = c }
<1>1. PICK at \in [DOMAIN trail -> own] :
        /\ \A i \in own : \E k \in DOMAIN trail : at[k] = i
        /\ \A k \in DOMAIN trail : records[at[k]].decision = trail[k]
  BY DEF IsTrail
<1>2. \A d \in DecisionsOf(records, c) : \E k \in DOMAIN trail : d = trail[k]
  BY <1>1 DEF DecisionsOf
<1>3. \A k \in DOMAIN trail : trail[k] \in DecisionsOf(records, c)
  BY <1>1 DEF DecisionsOf
<1> QED
  BY <1>2, <1>3

LEMMA ShortDecisions ==
  /\ { <<>>[k] : k \in DOMAIN <<>> } = {}
  /\ \A a : { <<a>>[k] : k \in DOMAIN <<a>> } = {a}
  /\ \A a, b : { <<a, b>>[k] : k \in DOMAIN <<a, b>> } = {a, b}
<1>1. { <<>>[k] : k \in DOMAIN <<>> } = {}
  OBVIOUS
<1>2. ASSUME NEW a PROVE { <<a>>[k] : k \in DOMAIN <<a>> } = {a}
  <2>1. DOMAIN <<a>> = {1} /\ <<a>>[1] = a
    OBVIOUS
  <2> QED
    BY <2>1
<1>3. ASSUME NEW a, NEW b PROVE { <<a, b>>[k] : k \in DOMAIN <<a, b>> } = {a, b}
  <2>1. DOMAIN <<a, b>> = {1, 2} /\ <<a, b>>[1] = a /\ <<a, b>>[2] = b
    OBVIOUS
  <2> QED
    BY <2>1
<1> QED
  BY <1>1, <1>2, <1>3

LEMMA ToldIsReadOff ==
  ASSUME NEW records, NEW c, answer[c] \in Answers, Told(records, c)
  PROVE  answer[c] \in ReadOff(DecisionsOf(records, c))
<1>1. PICK trail \in Trails(c) : IsTrail(records, c, trail)
  BY DEF Told
<1> DEFINE decisions == DecisionsOf(records, c)
<1>2. decisions = { trail[k] : k \in DOMAIN trail }
  BY <1>1, TrailDecisions
<1> HIDE DEF decisions
<1>3. CASE answer[c] = "result"
  <2>1. trail \in {<<"allow">>, <<"approvalRequired">>}
    BY <1>1, <1>3 DEF Trails, Passing
  <2>2. decisions \in {{"allow"}, {"approvalRequired"}}
    BY <1>2, <2>1, ShortDecisions
  <2> QED
    BY <1>3, <2>2 DEF ReadOff, decisions
<1>4. CASE answer[c] = "denied"
  <2>1. decisions = {"deny"}
    BY <1>1, <1>2, <1>4, ShortDecisions DEF Trails
  <2> QED
    BY <1>4, <2>1 DEF ReadOff, decisions
<1>5. CASE answer[c] = "budgetExceeded"
  <2>1. decisions = {"budgetExceeded"}
    BY <1>1, <1>2, <1>5, ShortDecisions DEF Trails
  <2> QED
    BY <1>5, <2>1 DEF ReadOff, decisions
<1>6. CASE answer[c] = "rejected"
  <2>1. decisions = {"approvalRequired"}
    BY <1>1, <1>2, <1>6, ShortDecisions DEF Trails
  <2> QED
    BY <1>6, <2>1 DEF ReadOff, decisions
<1>7. CASE answer[c] = "expired"
  <2>1. decisions = {"approvalRequired", "expired"}
    BY <1>1, <1>2, <1>7, ShortDecisions DEF Trails
  <2> QED
    BY <1>7, <2>1 DEF ReadOff, decisions
<1>8. CASE answer[c] = "error"
  <2>1. PICK t \in Passing \cup Halting \cup {<<>>, <<"approvalRequired">>} :
          trail = Append(t, "upstream_error")
    BY <1>1, <1>8 DEF Trails
  <2>2. t \in Trail
    BY <2>1, ShortTrails DEF Passing
  <2>3. Len(t) + 1 \in DOMAIN trail /\ trail[Len(t) + 1] = "upstream_error"
    BY <2>1, <2>2 DEF Trail
  <2>4. "upstream_error" \in decisions
    BY <1>2, <2>3
  <2> QED
    BY <1>8, <2>4 DEF ReadOff, decisions
<1>9. CASE answer[c] \in {"invalid", "malformed", "lost"}
  <2>1. trail = <<>>
    BY <1>1, <1>9 DEF Trails
  <2>2. decisions = {}
    BY <1>2, <2>1, ShortDecisions
  <2> QED
    BY <1>9, <2>2 DEF ReadOff, decisions
<1> QED
  BY <1>3, <1>4, <1>5, <1>6, <1>7, <1>8, <1>9 DEF Answers

\* The answer that the records of a call leave open, wherever they have got to.
AnswersRead ==
  ~lost => \A c \in Call :
    pc[c] = "done" => answer[c] \in ReadOff(DecisionsOf(Records, c))

\* As long as no record is lost, an auditor reads from the records alone whether a call
\* was allowed, denied, refused for the budget, expired or failed; only whether a hold
\* was approved or rejected, and why a call has no records, the records do not tell.
THEOREM AnswersAreReadOff == Spec => []AnswersRead
<1>1. CallInv /\ TrailTells => AnswersRead
  <2> SUFFICES ASSUME CallInv, TrailTells, ~lost, NEW c \in Call, pc[c] = "done"
               PROVE  answer[c] \in ReadOff(DecisionsOf(Records, c))
    BY DEF AnswersRead
  <2>1. answer[c] \in Answers
    BY DEF CallInv, CallTypes, Stage
  <2> QED
    BY <2>1, ToldIsReadOff DEF TrailTells
<1> QED
  BY <1>1, GateInvariant, TrailsAreTold, PTL DEF GateInv
=============================================================================
