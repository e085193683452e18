SPECIFICATION MCSpec
CONSTANTS
  c1 = c1  c2 = c2  c3 = c3
  s1 = s1  s2 = s2
  t1 = t1  t2 = t2  t3 = t3
  Call = {c1, c2, c3}
  NoCall = NoCall
  Session = {s1, s2}
  Turn = {t1, t2, t3}
  NoTurn = NoTurn
  TTL = 2
  Requests <- MCRequests
  Environments <- MCEnvironments
INVARIANTS
  TypeOK
  SessionExclusive
  WriteExclusive
  CountsExact
  TurnKeysLeased
PROPERTIES
  RefusalJustified
  ImplementsScheduling
  EveryCallAnswered
  LeasesDrain
