CONSTANTS
  k1 = k1
  k2 = k2
  w1 = w1
  w2 = w2
  t1 = t1
  t2 = t2
  a1 = a1
  None = None
  Clients <- MCClients
  AppIds <- MCAppIds
  Turns <- MCTurns
  Asked <- MCAsked
  Workers <- MCWorkers
  MaxRequests = 2
SPECIFICATION Spec
INVARIANT AnsweredOnce
SYMMETRY MCSymmetry
CHECK_DEADLOCK FALSE
