SPECIFICATION MCSpec
CONSTANTS
  k1 = k1  k2 = k2  k3 = k3
  Click = {k1, k2, k3}
  Environments <- MCEnvironments
INVARIANTS
  TypeOK
  ForwardedByApprover
  SignalAfterDecision
  VerdictRecorded
  TicketSettled
PROPERTIES
  DecidedOnce
  ImplementsHeldCall
  HoldEnds
  PumpEnds
