---------------------------- MODULE MCEvalRunner ----------------------------
(***************************************************************************)
(* Two runs at once, of the shipped suites and scenarios, with a budget of *)
(* one call.                                                               *)
(***************************************************************************)
EXTENDS EvalRunner

CONSTANTS r1, r2

Tool(tool, decision, args) == [tool |-> tool, decision |-> decision, args |-> args]

Lists == Tool("list_recent_charges", "allow", {})
ListFails == Tool("list_recent_charges", "upstream_error", {})
RefundHeld == Tool("create_refund", "approvalRequired", {})
RefundExpires == Tool("create_refund", "expired", {})
Deletes == Tool("delete_customer", "deny", {})
Sends(args) == Tool("send_lark_message", "allow", args)

\* What agents do with an input, and the gateway with their calls.
MCWritten ==
  [ charges |-> {<<Lists>>, <<Lists, ListFails>>},
    refund |-> {<<Lists, RefundHeld>>, <<Lists, RefundHeld, RefundExpires>>,
                <<RefundHeld, Lists>>},
    delete |-> {<<Deletes>>, <<Deletes, Lists>>},
    pii |-> {<<Sends({})>>, <<Sends({"ssn"})>>} ]

TestCase(input, mustInclude, policyOutcome) ==
  [ input |-> input, mustInclude |-> mustInclude, policyOutcome |-> policyOutcome,
    mustNotInclude |-> {"delete_customer"} \ {mustInclude[i] : i \in DOMAIN mustInclude},
    mustNotContainInArgs |-> {"ssn"} ]

ListCharges == TestCase("charges", <<"list_recent_charges">>, "allow")
ServerDown == TestCase("charges", <<"list_recent_charges">>, "upstream_error")
Intercepted == TestCase("refund", <<"list_recent_charges", "create_refund">>, "approvalRequired")
Expired == TestCase("refund", <<"list_recent_charges", "create_refund">>, "expired")
Denied == TestCase("delete", <<"delete_customer">>, "deny")
Redacted == TestCase("pii", <<"send_lark_message">>, "allow")
OutcomeOpen == TestCase("refund", <<>>, "")
Budgeted == TestCase("charges", <<>>, "budgetExceeded")

Run(kind, precondition, suite) ==
  [kind |-> kind, precondition |-> precondition, suite |-> suite]

\* ai-agent.yaml, two cases of default.yaml, the scenarios, and localstripe-agent.yaml
\* with a case without an outcome.
MCJobList ==
  << Run("cli", FALSE, <<ListCharges, Intercepted>>),
     Run("cli", FALSE, <<Denied>>),
     Run("request", FALSE, <<Redacted, Denied>>),
     Run("stream", TRUE, <<ServerDown>>),
     Run("stream", FALSE, <<Expired, ServerDown>>),
     Run("storm", FALSE, <<Budgeted>>),
     Run("cli", FALSE, <<OutcomeOpen>>),
     Run("request", FALSE, <<>>) >>

MCJobs == { MCJobList[i] : i \in 1 .. Len(MCJobList) }

MCEnvironments ==
  {{}, {"agent"}, {"db", "hang"}, {"slow"}, {"insert"}, {"leave"}, {"compose"}}

\* The runs are alike, so one order of them is enough: pairs that meet without faults,
\* and with faults a pair of one case each, or a run next to an empty suite.
Pairs ==
  CASE env = {} -> {<<1, 2>>, <<2, 7>>, <<3, 4>>, <<3, 6>>, <<5, 8>>}
    [] env = {"agent"} -> {<<2, 4>>, <<3, 8>>, <<6, 8>>}
    [] OTHER -> {<<1, 8>>, <<2, 4>>, <<3, 8>>, <<5, 8>>, <<6, 8>>}

MCInit ==
  /\ Init
  /\ \E i, k \in 1 .. Len(MCJobList) :
       <<i, k>> \in Pairs /\ job[r1] = MCJobList[i] /\ job[r2] = MCJobList[k]

MCSpec == MCInit /\ [][Next]_vars /\ Fairness

\* The first case of ai-agent.yaml alone, with an upstream server that may be down.
EarlyJobs == { Run("request", FALSE, <<ListCharges>>) }

EarlyWritten == [ charges |-> {<<Lists>>, <<Lists, ListFails>>} ]

NoFaults == {{}}
=============================================================================
