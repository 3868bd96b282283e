CONSTANTS
  Dotted <- MCDotted
  User = {"u"}
  Session = {s1}
  Path <- TreePaths
  Md5 = {m1, m2}
  Name = {"a"}
  Commands = {"mkdir", "rm", "mv", "cp", "upload"}
  MaxId = 4
  MaxDepth = 2
  NoUser = "nobody"
SPECIFICATION Spec
INVARIANTS CountsWithinRows CountsExact
PROPERTIES DirGoesWithItsRows
SYMMETRY Contents
CHECK_DEADLOCK FALSE
