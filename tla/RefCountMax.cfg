CONSTANTS
  s1 = s1
  s2 = s2
  u1 = u1
  u2 = u2
  Session = {s1, s2}
  User = {u1, u2}
  UserOf <- MCUserOf
  Md5 = {m1}
  NoMd5 = NoMd5
  Commands = {"mkdir", "tree", "upload"}
  MaxId = 5
  MaxExits = 0
SPECIFICATION Spec
INVARIANT BelowOwnDir
CHECK_DEADLOCK FALSE
