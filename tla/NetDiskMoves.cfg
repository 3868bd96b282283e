CONSTANTS
  Dotted <- MCDotted
  User = {"u", "v"}
  Session = {s1}
  Path <- MovePaths
  Md5 = {m1}
  Name = {"a"}
  Commands = {"mkdir", "rm", "mv", "cd"}
  MaxId = 4
  MaxDepth = 2
  NoUser = "nobody"
SPECIFICATION Spec
INVARIANT ResolvesToOwn
PROPERTIES OwnRowsOnly
SYMMETRY Sessions
CHECK_DEADLOCK FALSE
