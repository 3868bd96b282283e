CONSTANTS
  Sessions = {s1, s2}
  Name = {"n"}
  Password = {"p", "q"}
  Salt = {1, 2}
  Command = {"rp", "exit"}
  Fault = {"connect"}
SPECIFICATION Spec
INVARIANT PhasesAgree
PROPERTY EntersWithOwnHash
CHECK_DEADLOCK FALSE
