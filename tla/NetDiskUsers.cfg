CONSTANTS
  Dotted <- MCDotted
  User = {"u", "v"}
  Session = {s1, s2}
  Path <- UserPaths
  Md5 = {m1}
  Name = {"a"}
  Commands = {"mkdir", "rm", "cd", "pwd", "upload", "cp"}
  MaxId = 4
  MaxDepth = 3
  NoUser = "nobody"
SPECIFICATION Spec
INVARIANTS TypeOK ResolvesToOwn CachedDirIsOwn
PROPERTIES OwnRowsOnly
SYMMETRY Sessions
CHECK_DEADLOCK FALSE
