----------------------------- MODULE EvalSuite ------------------------------
(***************************************************************************)
(* Suites of test cases, the checks of a case against a trace of audit     *)
(* rows, and what a list of results amounts to.                            *)
(*                                                                         *)
(* A row has a tool, a decision, and in args the forbidden strings that    *)
(* its arguments contain.                                                  *)
(***************************************************************************)
EXTENDS Naturals, Sequences, SequencesExt

Outcomes == {"allow", "deny", "approvalRequired", "expired", "upstream_error"}

\* A suite that may leave the outcome of a case open (mutant).
LoadableAnyway(suite) ==
  \A i \in DOMAIN suite : suite[i].policyOutcome \in Outcomes \cup {""}

\* LoadSuiteFromReader accepts the suite.
Loadable(suite) == \A i \in DOMAIN suite : suite[i].policyOutcome \in Outcomes

-----------------------------------------------------------------------------
\* evaluateMustInclude: one pass over the trace, looking for one tool after the other.
Includes(tools, trace) ==
  LET found[k \in 0 .. Len(trace)] ==
        IF k = 0 THEN 0
        ELSE IF found[k - 1] < Len(tools) /\ trace[k].tool = tools[found[k - 1] + 1]
             THEN found[k - 1] + 1
             ELSE found[k - 1]
  IN  found[Len(trace)] = Len(tools)

NotIncludes(tools, trace) == \A k \in DOMAIN trace : trace[k].tool \notin tools

\* An empty expectation is not checked.
EndsWith(outcome, trace) ==
  outcome = "" \/ (trace # <<>> /\ Last(trace).decision = outcome)

NotContains(forbidden, trace) == \A k \in DOMAIN trace : trace[k].args \cap forbidden = {}

\* Evaluate, which goes on after a failed check: the checks that fail.
Evaluate(c, trace) ==
  LET holds == [ mustInclude |-> Includes(c.mustInclude, trace),
                 mustNotInclude |-> NotIncludes(c.mustNotInclude, trace),
                 policyOutcome |-> EndsWith(c.policyOutcome, trace),
                 mustNotContainInArgs |-> NotContains(c.mustNotContainInArgs, trace) ]
  IN  { check \in DOMAIN holds : ~holds[check] }

Passes(result) == result.failures = {}

\* ExitCode is 0; summarizeResults and the report say PASS.  No results are a pass, too.
AllPass(results) == \A i \in DOMAIN results : Passes(results[i])

-----------------------------------------------------------------------------
\* What mustInclude asks for, without the pass over the trace: the tools are those of
\* some rows, in the order of the rows.
InOrder(tools, trace) ==
  \E at \in [DOMAIN tools -> DOMAIN trace] :
    /\ \A i \in DOMAIN tools : trace[at[i]].tool = tools[i]
    /\ \A i, k \in DOMAIN tools : i < k => at[i] < at[k]
=============================================================================
