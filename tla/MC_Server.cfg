CONSTANTS
  w1 = w1
  w2 = w2
  w3 = w3
  Workers <- MC_Workers
  SchedAlgs <- MC_SchedAlgs
  QueueSize = 2
  MaxConns = 6
SPECIFICATION Spec
INVARIANT TypeOK
INVARIANT QueueConsistent
INVARIANT ConnectionsAccounted
PROPERTY EveryConnectionClosed
PROPERTY ManagerRefined
