---------------------------- MODULE MCPolicyGate ----------------------------
(***************************************************************************)
(* Three calls under two policies: the shipped one with a budget of two,   *)
(* and one whose rules compare numbers and arrays, with a budget of one.   *)
(***************************************************************************)
EXTENDS PolicyGate

CONSTANTS c1, c2, c3, s1, s2, t1, t2

Value(type, val) == [type |-> type, val |-> val]

MCRedacted == Value("string", "***REDACTED***")

Dry(b) == [dry_run |-> Value("bool", b)]

Rule(tool, when, action, fields) ==
  [tool |-> tool, when |-> when, action |-> action, redactFields |-> fields]

Always == <<>>

\* policy.yaml
ShippedPolicy ==
  [ rules |->
      << Rule("lookup_charge", Always, "allow", {}),
         Rule("create_refund", Dry("true"), "allow", {}),
         Rule("create_refund", Always, "approvalRequired", {}),
         Rule("send_lark_message", Always, "redact", {"message"}) >>,
    defaultAction |-> "deny",
    maxToolCallsPerTurn |-> 2 ]

\* An amount that no JSON number equals, and an array that cannot be compared.
OddPolicy ==
  [ rules |->
      << Rule("create_refund", [amount |-> Value("int", "500")], "deny", {}),
         Rule("create_refund",
              [lines |-> Value("array", "a"), dry_run |-> Value("bool", "true")],
              "approvalRequired", {}),
         Rule("create_refund", Always, "redact", {"note", "amount"}) >>,
    defaultAction |-> "allow",
    maxToolCallsPerTurn |-> 1 ]

MCPolicies == {ShippedPolicy, OddPolicy}

Request(s, t, tool, args) == [session |-> s, turn |-> t, tool |-> tool, args |-> args]

Refund(dry) ==
  [ dry_run |-> Value("bool", dry), amount |-> Value("float", "500"),
    lines |-> Value("array", "a") ]

\* Four calls of a turn, one of another turn of the session, one of another
\* session with the same turn, and one without a tool.
MCRequestList ==
  << Request(s1, t1, "create_refund", Refund("false")),
     Request(s1, t1, "create_refund", Refund("true")),
     Request(s1, t1, "send_lark_message", [message |-> Value("string", "m")]),
     Request(s1, t1, "delete_charge", <<>>),
     Request(s1, t2, "lookup_charge", <<>>),
     Request(s2, t1, "create_refund", Refund("false")),
     Request(s1, t1, NoTool, <<>>) >>

MCRequests == { MCRequestList[i] : i \in 1 .. Len(MCRequestList) }

MCEnvironments == {{}, {"lock", "upstream"}, {"insert"}, {"hang"}, {"crash", "delete"}}

\* The calls are alike, so it is enough to hand out the requests in one order:
\* any two of them, or, with the larger budget, two dry runs and a third call.
\* With faults a few pairs are enough.
MCInit ==
  /\ Init
  /\ \E i, j, k \in 1 .. Len(MCRequestList) :
       /\ i <= j /\ j <= k
       /\ \/ /\ k = Len(MCRequestList)
             /\ env # {} => j \in {2, 5}
             /\ policy = OddPolicy => env \in {{}, {"crash", "delete"}}
          \/ env = {} /\ policy = ShippedPolicy /\ j = 2 /\ i = 2 /\ k \in {2, 3, 5}
       /\ req[c1] = MCRequestList[i]
       /\ req[c2] = MCRequestList[j]
       /\ req[c3] = MCRequestList[k]

MCSpec == MCInit /\ [][Next]_vars /\ Fairness
=============================================================================
