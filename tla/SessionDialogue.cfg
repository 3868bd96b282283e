CONSTANTS
  Sessions = {s1}
  Name = {"n"}
  Password = {"p", "q"}
  Salt = {1, 2}
  Command = {"change", "list", "cd", "download", "upload", "rp", "exit", "args", "unknown"}
  Fault = {"open", "close", "exit"}
SPECIFICATION FairSpec
INVARIANTS TypeOK InStep NobodyWaitsForNobody PhasesAgree
PROPERTY EveryRequestAnswered
CHECK_DEADLOCK FALSE
