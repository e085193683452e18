SPECIFICATION Spec
CONSTANTS
  r1 = r1  r2 = r2
  Job = {r1}
  Jobs <- EarlyJobs
  MaxCases = 1
  Written <- EarlyWritten
  StormCalls = 2
  StormTool = "list_recent_charges"
  Budget = 1
  Environments <- NoFaults
  Capacity = 2
INVARIANT
  FinalRowDecides
