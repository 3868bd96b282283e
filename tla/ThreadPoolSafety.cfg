\* Two workers, three clients, and as many heap addresses as clients.
SPECIFICATION Spec
CONSTANTS
  Worker = {w1, w2}
  Node = {n1, n2, n3}
  Conn = {c1, c2, c3}
  Main = Main
  NULL = NULL
  MaxSignals = 1
SYMMETRY Symmetry
INVARIANTS TypeOK ListInv MutexInv OneOwner OnePlace NoLostWakeup AtMostOneLateTask NoSessionCut
PROPERTY ImplementsPool
\* The server stops after a shutdown, and may hang in one.
CHECK_DEADLOCK FALSE
