SPECIFICATION Spec
CONSTANTS
  q1 = q1  q2 = q2  q3 = q3
  Request = {q1, q2}
  Programs <- OneList
  Environments <- Errors
  MaxRestarts = 0
INVARIANTS
  SuccessCached
