SPECIFICATION Spec
CONSTANTS
  q1 = q1  q2 = q2  q3 = q3
  Request = {q1, q2, q3}
  Programs <- MCPrograms
  Environments <- MCEnvironments
  MaxRestarts = 2
INVARIANTS
  TypeOK
  SentInSession
  HealsAlone
  CacheHasSource
PROPERTIES
  ImplementsRemoteCall
  RetriesEnd
  EveryRequestAnswered
