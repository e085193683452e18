SPECIFICATION MCSpec
CONSTANTS
  c1 = c1  c2 = c2  c3 = c3
  s1 = s1  s2 = s2
  t1 = t1  t2 = t2
  Call = {c1, c2, c3}
  Session = {s1, s2}
  Turn = {t1, t2}
  NoTool = "no tool"
  Redacted <- MCRedacted
  Capacity = 2
  Requests <- MCRequests
  Policies <- MCPolicies
  Environments <- MCEnvironments
INVARIANTS
  TypeOK
  BudgetHolds
  BudgetNotWasted
  PolicyEnforced
  RecordedAsForwarded
  TrailTells
PROPERTIES
  TrailReachesLog
  EveryCallAnswered
