\* Liveness: first without any assumption on the clients, then with one.
SPECIFICATION FairSpec
CONSTANTS
  Worker = {w1, w2}
  Node = {n1, n2}
  Conn = {c1, c2}
  Main = Main
  NULL = NULL
  MaxSignals = 1
PROPERTIES NoIdleWorker EveryClientServed
CHECK_DEADLOCK FALSE
