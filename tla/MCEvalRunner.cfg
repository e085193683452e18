SPECIFICATION MCSpec
CONSTANTS
  r1 = r1  r2 = r2
  Job = {r1, r2}
  Jobs <- MCJobs
  MaxCases = 2
  Written <- MCWritten
  StormCalls = 2
  StormTool = "list_recent_charges"
  Budget = 1
  Environments <- MCEnvironments
  Capacity = 2
INVARIANTS
  TypeOK
  TraceFaithful
  PassNeedsEvidence
  FaultlessVerdict
  StackTakenDown
PROPERTIES
  RunsGetOn
  EveryRunEnds
