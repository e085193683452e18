SPECIFICATION Spec
CONSTANTS
  k1 = k1  k2 = k2  k3 = k3
  Click = {k1, k2}
  Environments <- NoFaults
INVARIANT
  TicketAuthoritative
