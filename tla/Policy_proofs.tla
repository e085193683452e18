---------------------------- MODULE Policy_proofs ----------------------------
(***************************************************************************)
(* What Evaluate of core/policy/evaluator.go decides and what              *)
(* redactArguments leaves, for all policies, tools and arguments.          *)
(***************************************************************************)
EXTENDS Policy, WellFoundedInduction, TLAPS

\* What comes of comparing the call with a rule, and whether the loop gets to it.
Result(rule, tool, args) ==
  IF rule.tool = tool THEN MatchWhen(rule.when, args) ELSE {"differ"}

Reached(rules, i, tool, args) ==
  \A j \in 1 .. i - 1 : "differ" \in Result(rules[j], tool, args)

\* The three ways in which Evaluate ends.
OfRules(rules, tool, args) ==
  { Decision(rules[i].action, rules[i].redactFields) :
      i \in { j \in DOMAIN rules :
                Reached(rules, j, tool, args) /\ "match" \in Result(rules[j], tool, args) } }

OfPanics(rules, tool, args) ==
  { Decision("panic", {}) :
      i \in { j \in DOMAIN rules :
                Reached(rules, j, tool, args) /\ "panic" \in Result(rules[j], tool, args) } }

OfDefault(policy, tool, args) ==
  { d \in {Decision(policy.defaultAction, {})} :
      Reached(policy.rules, Len(policy.rules) + 1, tool, args) }

LEMMA EvaluateEnds ==
  ASSUME NEW policy, NEW tool, NEW args
  PROVE  Evaluate(policy, tool, args) =
           OfRules(policy.rules, tool, args) \cup OfPanics(policy.rules, tool, args)
             \cup OfDefault(policy, tool, args)
BY DEF Evaluate, OfRules, OfPanics, OfDefault, Reached, Result

\* A comparison has an outcome, and it panics only on an array or object of the policy.
LEMMA ResultIsThere ==
  ASSUME NEW rule, NEW tool, NEW args
  PROVE  /\ Result(rule, tool, args) # {}
         /\ Result(rule, tool, args) \subseteq {"match", "differ", "panic"}
         /\ "match" \in Result(rule, tool, args) => Result(rule, tool, args) = {"match"}
BY DEF Result, MatchWhen

LEMMA PanicsAreOfPolicy ==
  ASSUME NEW rule, NEW tool, NEW args,
         \A f \in DOMAIN rule.when : rule.when[f].type \notin Uncomparable
  PROVE  Result(rule, tool, args) \in {{"match"}, {"differ"}}
<1>1. Panicking(rule.when, args) = {}
  BY DEF Panicking
<1> QED
  BY <1>1 DEF Result, MatchWhen

-----------------------------------------------------------------------------
\* The first rule that does not differ.

LEMMA LeastNumber ==
  ASSUME NEW S \in SUBSET Nat, S # {}
  PROVE  \E m \in S : \A n \in S : m <= n
<1> DEFINE less == { p \in Nat \X Nat : p[1] < p[2] }
<1>1. IsWellFoundedOn(less, Nat)
  BY NatLessThanWellFounded DEF OpToRel
<1>2. PICK m \in S : \A n \in S : ~(<<n, m>> \in less)
  <2> HIDE DEF less
  <2> QED
    BY <1>1, WFMin
<1>3. ASSUME NEW n \in S PROVE m <= n
  <2>1. m \in Nat /\ n \in Nat /\ ~(<<n, m>> \in less)
    BY <1>2
  <2> QED
    BY <2>1
<1> QED
  BY <1>3

\* The loop gets to the end of the rules, or to a rule at which it must stop.
LEMMA LoopStops ==
  ASSUME NEW S, NEW rules \in Seq(S), NEW tool, NEW args
  PROVE  \/ Reached(rules, Len(rules) + 1, tool, args)
         \/ \E i \in DOMAIN rules : /\ Reached(rules, i, tool, args)
                                    /\ "differ" \notin Result(rules[i], tool, args)
<1> DEFINE stops == { i \in 1 .. Len(rules) : "differ" \notin Result(rules[i], tool, args) }
<1>1. Len(rules) \in Nat /\ DOMAIN rules = 1 .. Len(rules)
  OBVIOUS
<1>2. CASE stops = {}
  BY <1>1, <1>2 DEF Reached
<1>3. CASE stops # {}
  <2>1. stops \in SUBSET Nat
    BY <1>1
  <2>2. PICK i \in stops : \A j \in stops : i <= j
    <3> HIDE DEF stops
    <3> QED
      BY <1>3, <2>1, LeastNumber
  <2>3. \A j \in 1 .. i - 1 : j \in 1 .. Len(rules) /\ j \notin stops
    BY <1>1, <2>2
  <2> QED
    BY <1>1, <2>2, <2>3 DEF Reached
<1> QED
  BY <1>2, <1>3

\* What a rule says of a call, without the loop over its condition: it is for the tool
\* and each field of the condition has the value asked for; or a comparison may panic.
Matches(rule, tool, args) ==
  /\ rule.tool = tool
  /\ \A f \in DOMAIN rule.when :
       f \in DOMAIN args /\ args[f] = rule.when[f] /\ rule.when[f].type \notin Uncomparable

MayPanic(rule, tool, args) ==
  /\ rule.tool = tool
  /\ \E f \in DOMAIN rule.when \cap DOMAIN args :
       args[f].type = rule.when[f].type /\ rule.when[f].type \in Uncomparable

LEMMA ResultMeans ==
  ASSUME NEW rule, NEW tool, NEW args
  PROVE  /\ "match" \in Result(rule, tool, args) => Matches(rule, tool, args)
         /\ "panic" \in Result(rule, tool, args) => MayPanic(rule, tool, args)
         /\ "differ" \in Result(rule, tool, args) => ~Matches(rule, tool, args)
<1>1. ASSUME "match" \in Result(rule, tool, args) PROVE Matches(rule, tool, args)
  <2>1. rule.tool = tool /\ "match" \in MatchWhen(rule.when, args)
    BY <1>1 DEF Result
  <2>2. Differing(rule.when, args) = {} /\ Panicking(rule.when, args) = {}
    BY <2>1 DEF MatchWhen
  <2> QED
    BY <2>1, <2>2 DEF Matches, Differing, Panicking
<1>2. ASSUME "panic" \in Result(rule, tool, args) PROVE MayPanic(rule, tool, args)
  <2>1. rule.tool = tool /\ "panic" \in MatchWhen(rule.when, args)
    BY <1>2 DEF Result
  <2>2. Panicking(rule.when, args) # {}
    BY <2>1 DEF MatchWhen
  <2> QED
    BY <2>1, <2>2 DEF MayPanic, Panicking
<1>3. ASSUME Matches(rule, tool, args) PROVE "differ" \notin Result(rule, tool, args)
  <2>1. Differing(rule.when, args) = {}
    BY <1>3 DEF Matches, Differing
  <2> QED
    BY <1>3, <2>1 DEF Matches, Result, MatchWhen
<1> QED
  BY <1>1, <1>2, <1>3

\* Evaluate always comes to a decision, and only to one of these: that of a rule which
\* matches the call while no rule before it does; a panic at a rule for the tool that
\* compares arrays or objects, again with no match before it; or the default action,
\* when no rule matches.  Its action is one that the gate has a case for, or a panic.
THEOREM EvaluateDecides ==
  ASSUME NEW S, NEW policy, policy.rules \in Seq(S), Valid(policy), NEW tool, NEW args
  PROVE  /\ Evaluate(policy, tool, args) # {}
         /\ \A d \in Evaluate(policy, tool, args) :
              /\ d.action \in Actions \cup {"panic"}
              /\ \/ \E i \in DOMAIN policy.rules :
                      /\ Matches(policy.rules[i], tool, args)
                      /\ \A j \in 1 .. i - 1 : ~Matches(policy.rules[j], tool, args)
                      /\ d = Decision(policy.rules[i].action, policy.rules[i].redactFields)
                 \/ \E i \in DOMAIN policy.rules :
                      /\ MayPanic(policy.rules[i], tool, args)
                      /\ \A j \in 1 .. i - 1 : ~Matches(policy.rules[j], tool, args)
                      /\ d = Decision("panic", {})
                 \/ /\ \A i \in DOMAIN policy.rules : ~Matches(policy.rules[i], tool, args)
                    /\ d = Decision(policy.defaultAction, {})
<1> DEFINE rules == policy.rules
<1>1. ASSUME Reached(rules, Len(rules) + 1, tool, args)
      PROVE  Evaluate(policy, tool, args) # {}
  BY <1>1, EvaluateEnds DEF OfDefault
<1>2. ASSUME NEW i \in DOMAIN rules, Reached(rules, i, tool, args),
             "differ" \notin Result(rules[i], tool, args)
      PROVE  Evaluate(policy, tool, args) # {}
  <2>1. "match" \in Result(rules[i], tool, args) \/ "panic" \in Result(rules[i], tool, args)
    BY <1>2, ResultIsThere
  <2> QED
    BY <1>2, <2>1, EvaluateEnds DEF OfRules, OfPanics
<1>3. \A d \in Evaluate(policy, tool, args) : d.action \in Actions \cup {"panic"}
  BY EvaluateEnds DEF OfRules, OfPanics, OfDefault, Valid, Actions, Decision
<1>4. \/ Reached(rules, Len(rules) + 1, tool, args)
      \/ \E i \in DOMAIN rules : /\ Reached(rules, i, tool, args)
                                 /\ "differ" \notin Result(rules[i], tool, args)
  BY LoopStops
<1>5. ASSUME NEW i, Reached(rules, i, tool, args)
      PROVE  \A j \in 1 .. i - 1 : ~Matches(rules[j], tool, args)
  BY <1>5, ResultMeans DEF Reached
<1>6. ASSUME NEW d \in OfRules(rules, tool, args)
      PROVE  \E i \in DOMAIN rules :
               /\ Matches(rules[i], tool, args)
               /\ \A j \in 1 .. i - 1 : ~Matches(rules[j], tool, args)
               /\ d = Decision(rules[i].action, rules[i].redactFields)
  <2>1. PICK i \in DOMAIN rules :
               /\ Reached(rules, i, tool, args) /\ "match" \in Result(rules[i], tool, args)
               /\ d = Decision(rules[i].action, rules[i].redactFields)
    BY <1>6 DEF OfRules
  <2> QED
    BY <1>5, <2>1, ResultMeans
<1>7. ASSUME NEW d \in OfPanics(rules, tool, args)
      PROVE  \E i \in DOMAIN rules :
               /\ MayPanic(rules[i], tool, args)
               /\ \A j \in 1 .. i - 1 : ~Matches(rules[j], tool, args)
               /\ d = Decision("panic", {})
  <2>1. PICK i \in DOMAIN rules :
               /\ Reached(rules, i, tool, args) /\ "panic" \in Result(rules[i], tool, args)
               /\ d = Decision("panic", {})
    BY <1>7 DEF OfPanics
  <2> QED
    BY <1>5, <2>1, ResultMeans
<1>8. ASSUME NEW d \in OfDefault(policy, tool, args)
      PROVE  /\ \A i \in DOMAIN rules : ~Matches(rules[i], tool, args)
             /\ d = Decision(policy.defaultAction, {})
  <2>1. Reached(rules, Len(rules) + 1, tool, args) /\ d = Decision(policy.defaultAction, {})
    BY <1>8 DEF OfDefault
  <2>2. \A i \in DOMAIN rules : i \in 1 .. (Len(rules) + 1) - 1
    OBVIOUS
  <2> QED
    BY <1>5, <2>1, <2>2
<1>9. ASSUME NEW d \in Evaluate(policy, tool, args)
      PROVE  \/ d \in OfRules(rules, tool, args)
             \/ d \in OfPanics(rules, tool, args)
             \/ d \in OfDefault(policy, tool, args)
  BY <1>9, EvaluateEnds
<1>10. Evaluate(policy, tool, args) # {}
  BY <1>1, <1>2, <1>4
<1> HIDE DEF rules
<1> QED
  BY <1>3, <1>6, <1>7, <1>8, <1>9, <1>10 DEF rules

\* The order of the rules decides: the first one that matches, whatever the others
\* say.
THEOREM FirstMatchDecides ==
  ASSUME NEW S, NEW policy, policy.rules \in Seq(S), NEW tool, NEW args,
         NEW i \in DOMAIN policy.rules,
         "match" \in Result(policy.rules[i], tool, args),
         \A j \in 1 .. i - 1 : Result(policy.rules[j], tool, args) = {"differ"}
  PROVE  Evaluate(policy, tool, args) =
           {Decision(policy.rules[i].action, policy.rules[i].redactFields)}
<1> DEFINE rules == policy.rules
<1>1. DOMAIN rules = 1 .. Len(rules) /\ Len(rules) \in Nat
  OBVIOUS
<1>2. Result(rules[i], tool, args) = {"match"}
  BY ResultIsThere
<1>3. Reached(rules, i, tool, args)
  BY DEF Reached
<1>4. ASSUME NEW j \in 1 .. Len(rules) + 1, Reached(rules, j, tool, args) PROVE j <= i
  BY <1>1, <1>2, <1>4 DEF Reached
<1>5. ASSUME NEW j \in DOMAIN rules, Reached(rules, j, tool, args), j # i
      PROVE  Result(rules[j], tool, args) = {"differ"}
  <2>1. j \in 1 .. i - 1
    BY <1>1, <1>4, <1>5
  <2> QED
    BY <2>1
<1>6. OfRules(rules, tool, args) = {Decision(rules[i].action, rules[i].redactFields)}
  BY <1>2, <1>3, <1>5 DEF OfRules
<1>7. OfPanics(rules, tool, args) = {}
  <2>1. ASSUME NEW j \in DOMAIN rules, Reached(rules, j, tool, args)
        PROVE  "panic" \notin Result(rules[j], tool, args)
    <3>1. CASE j = i
      BY <1>2, <3>1
    <3>2. CASE j # i
      <4>1. Result(rules[j], tool, args) = {"differ"}
        BY <1>5, <2>1, <3>2
      <4> QED
        BY <4>1
    <3> QED
      BY <3>1, <3>2
  <2> QED
    BY <2>1 DEF OfPanics
<1>8. OfDefault(policy, tool, args) = {}
  BY <1>1, <1>4 DEF OfDefault
<1> QED
  BY <1>6, <1>7, <1>8, EvaluateEnds

\* Go iterates over a condition in any order, and yet a policy without arrays and
\* objects in its conditions decides every call in one way only, and without a panic.
THEOREM PlainPoliciesDecide ==
  ASSUME NEW S, NEW policy, policy.rules \in Seq(S), Valid(policy), NEW tool, NEW args,
         \A i \in DOMAIN policy.rules : \A f \in DOMAIN policy.rules[i].when :
           policy.rules[i].when[f].type \notin Uncomparable
  PROVE  \E d : Evaluate(policy, tool, args) = {d} /\ d.action \in Actions
<1> DEFINE rules == policy.rules
<1>1. DOMAIN rules = 1 .. Len(rules) /\ Len(rules) \in Nat
  OBVIOUS
<1>2. \A i \in DOMAIN rules : Result(rules[i], tool, args) \in {{"match"}, {"differ"}}
  BY PanicsAreOfPolicy
<1>3. CASE Reached(rules, Len(rules) + 1, tool, args)
  <2>1. \A i \in DOMAIN rules : Result(rules[i], tool, args) = {"differ"}
    <3>1. \A i \in DOMAIN rules : i \in 1 .. (Len(rules) + 1) - 1
      BY <1>1
    <3>2. \A i \in DOMAIN rules : "differ" \in Result(rules[i], tool, args)
      BY <1>3, <3>1 DEF Reached
    <3> QED
      BY <1>2, <3>2
  <2>2. ASSUME NEW i \in DOMAIN rules
        PROVE  /\ "match" \notin Result(rules[i], tool, args)
               /\ "panic" \notin Result(rules[i], tool, args)
    <3>1. Result(rules[i], tool, args) = {"differ"}
      BY <2>1
    <3> QED
      BY <3>1
  <2>3. OfRules(rules, tool, args) = {} /\ OfPanics(rules, tool, args) = {}
    BY <2>2 DEF OfRules, OfPanics
  <2>4. OfDefault(policy, tool, args) = {Decision(policy.defaultAction, {})}
    BY <1>3 DEF OfDefault
  <2>5. Decision(policy.defaultAction, {}).action \in Actions
    BY DEF Decision, Valid, Actions
  <2> QED
    BY <2>3, <2>4, <2>5, EvaluateEnds
<1>4. ASSUME NEW i \in DOMAIN rules, Reached(rules, i, tool, args),
             "differ" \notin Result(rules[i], tool, args)
      PROVE  \E d : Evaluate(policy, tool, args) = {d} /\ d.action \in Actions
  <2>1. "match" \in Result(rules[i], tool, args)
    BY <1>2, <1>4
  <2>2. \A j \in 1 .. i - 1 : Result(rules[j], tool, args) = {"differ"}
    <3>1. \A j \in 1 .. i - 1 : j \in DOMAIN rules
      BY <1>1
    <3> QED
      BY <1>2, <1>4, <3>1 DEF Reached
  <2>3. Decision(rules[i].action, rules[i].redactFields).action \in Actions
    BY DEF Decision, Valid
  <2> QED
    BY <2>1, <2>2, <2>3, FirstMatchDecides
<1> QED
  BY <1>3, <1>4, LoopStops

\* Rules added at the end change nothing for a call that a rule already stops: they
\* can only take the place of the default action.
THEOREM AddedRulesOnlyReplaceDefault ==
  ASSUME NEW S, NEW rules \in Seq(S), NEW more \in Seq(S), NEW policy, NEW longer,
         policy.rules = rules, longer.rules = rules \o more,
         NEW tool, NEW args,
         NEW i \in DOMAIN rules, "differ" \notin Result(rules[i], tool, args)
  PROVE  Evaluate(longer, tool, args) = Evaluate(policy, tool, args)
<1> DEFINE all == rules \o more
<1>1. /\ Len(rules) \in Nat /\ DOMAIN rules = 1 .. Len(rules)
      /\ Len(all) \in Nat /\ Len(all) >= Len(rules) /\ DOMAIN all = 1 .. Len(all)
      /\ \A j \in 1 .. Len(rules) : all[j] = rules[j]
  OBVIOUS
<1> HIDE DEF all
<1>2. \A j \in 1 .. Len(rules) :
        Reached(all, j, tool, args) <=> Reached(rules, j, tool, args)
  BY <1>1 DEF Reached
<1>3. \A j \in 1 .. Len(all) + 1 : Reached(all, j, tool, args) => j <= i
  BY <1>1 DEF Reached
<1>4. ~Reached(rules, Len(rules) + 1, tool, args)
  BY <1>1 DEF Reached
<1>5. ASSUME NEW j PROVE
        (j \in DOMAIN all /\ Reached(all, j, tool, args)) <=>
        (j \in DOMAIN rules /\ Reached(rules, j, tool, args))
  <2>1. j \in DOMAIN all /\ Reached(all, j, tool, args) => j \in DOMAIN rules
    BY <1>1, <1>3
  <2>2. j \in DOMAIN rules => j \in DOMAIN all
    BY <1>1
  <2> QED
    BY <1>1, <1>2, <2>1, <2>2
<1>6. /\ OfRules(all, tool, args) = OfRules(rules, tool, args)
      /\ OfPanics(all, tool, args) = OfPanics(rules, tool, args)
  BY <1>1, <1>5 DEF OfRules, OfPanics
<1>7. OfDefault(policy, tool, args) = {} /\ OfDefault(longer, tool, args) = {}
  BY <1>1, <1>3, <1>4 DEF OfDefault, all
<1> QED
  BY <1>6, <1>7, EvaluateEnds DEF all

-----------------------------------------------------------------------------
\* A redacted field shows nothing of its value, the others are untouched, and
\* redacting twice is redacting once.
THEOREM RedactionHides ==
  ASSUME NEW args, NEW other, NEW fields
  PROVE  /\ DOMAIN Redact(args, fields) = DOMAIN args
         /\ \A f \in DOMAIN args \ fields : Redact(args, fields)[f] = args[f]
         /\ /\ DOMAIN args = DOMAIN other
            /\ \A f \in DOMAIN args \ fields : args[f] = other[f]
            => Redact(args, fields) = Redact(other, fields)
         /\ Redact(Redact(args, fields), fields) = Redact(args, fields)
<1>1. DOMAIN Redact(args, fields) = DOMAIN args
  BY DEF Redact
<1>2. \A f \in DOMAIN args \ fields : Redact(args, fields)[f] = args[f]
  BY DEF Redact
<1>3. ASSUME DOMAIN args = DOMAIN other, \A f \in DOMAIN args \ fields : args[f] = other[f]
      PROVE  Redact(args, fields) = Redact(other, fields)
  BY <1>3 DEF Redact
<1>4. Redact(Redact(args, fields), fields) = Redact(args, fields)
  BY DEF Redact
<1> QED
  BY <1>1, <1>2, <1>3, <1>4
=============================================================================
