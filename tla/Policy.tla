------------------------------- MODULE Policy -------------------------------
(***************************************************************************)
(* core/policy: the rules of an AgentPolicy and their evaluation, and the  *)
(* redaction of arguments.                                                 *)
(*                                                                         *)
(* Values carry the dynamic type Go gives them: a number of the policy,    *)
(* which is YAML, is an int or a float, a number of a request, which is    *)
(* JSON, is always a float.                                                *)
(***************************************************************************)
EXTENDS Naturals, Sequences

CONSTANTS
  NoTool,       \* the tool of a call whose parameters do not name one
  Redacted      \* the value "***REDACTED***"

Actions == {"allow", "deny", "approvalRequired", "redact"}

\* Comparing two values of one of these types panics.
Uncomparable == {"array", "object"}

\* validatePolicy
Valid(policy) ==
  /\ policy.defaultAction \in {"allow", "deny"}
  /\ \A i \in DOMAIN policy.rules :
       policy.rules[i].tool # NoTool /\ policy.rules[i].action \in Actions

-----------------------------------------------------------------------------
\* matchWhen compares field by field, in any order, and stops at the first field
\* that differs.  So a field that would panic may or may not be reached.
Differing(when, args) ==
  { f \in DOMAIN when :
      \/ f \notin DOMAIN args
      \/ args[f].type # when[f].type
      \/ args[f] # when[f] /\ when[f].type \notin Uncomparable }

Panicking(when, args) ==
  { f \in DOMAIN when \cap DOMAIN args :
      args[f].type = when[f].type /\ when[f].type \in Uncomparable }

MatchWhen(when, args) ==
  CASE Differing(when, args) = {} /\ Panicking(when, args) = {} -> {"match"}
    [] Differing(when, args) # {} /\ Panicking(when, args) = {} -> {"differ"}
    [] Differing(when, args) = {} /\ Panicking(when, args) # {} -> {"panic"}
    [] OTHER -> {"differ", "panic"}

Decision(action, fields) == [action |-> action, redactFields |-> fields]

\* The decisions Evaluate may come to: the first matching rule's, the default
\* one, or none, because a comparison panics.
Evaluate(policy, tool, args) ==
  LET rules == policy.rules
      results(i) ==
        IF rules[i].tool = tool THEN MatchWhen(rules[i].when, args) ELSE {"differ"}
      Reached(i) == \A j \in 1 .. i - 1 : "differ" \in results(j)
  IN  { Decision(rules[i].action, rules[i].redactFields) :
          i \in { j \in DOMAIN rules : Reached(j) /\ "match" \in results(j) } }
      \cup { Decision("panic", {}) :
               i \in { j \in DOMAIN rules : Reached(j) /\ "panic" \in results(j) } }
      \cup { d \in {Decision(policy.defaultAction, {})} : Reached(Len(rules) + 1) }

\* redactArguments
Redact(args, fields) ==
  [f \in DOMAIN args |-> IF f \in fields THEN Redacted ELSE args[f]]
=============================================================================
