CONSTANTS
  s1 = s1
  s2 = s2
  u1 = u1
  u2 = u2
  Session = {s1, s2}
  User = {u1, u2}
  UserOf <- MCUserOf
  Md5 = {m1}
  NoMd5 = NoMd5
  Commands = {"rm", "new", "over", "into", "upload"}
  MaxId = 3
  MaxExits = 1
SPECIFICATION Spec
INVARIANTS TypeOK CountsBounded ExactUnlessDisturbed CountStillThere
SYMMETRY Pairs
CHECK_DEADLOCK FALSE
