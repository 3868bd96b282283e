\* The shutdown of main.c with every session ending.
SPECIFICATION FairSpecSessionsEnd
CONSTANTS
  Worker = {w1, w2}
  Node = {n1, n2}
  Conn = {c1, c2}
  Main = Main
  NULL = NULL
  MaxSignals = 1
PROPERTY ShutdownCompletes
CHECK_DEADLOCK FALSE
