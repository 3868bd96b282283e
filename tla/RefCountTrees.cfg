CONSTANTS
  s1 = s1
  s2 = s2
  u1 = u1
  u2 = u2
  Session = {s1, s2}
  User = {u1, u2}
  UserOf <- MCUserOf
  Md5 = {m1}
  NoMd5 = NoMd5
  Commands = {"rm", "mkdir", "tree", "upload"}
  MaxId = 4
  MaxExits = 0
SPECIFICATION Spec
INVARIANTS ExactUnlessDisturbed 
SYMMETRY Pairs
CHECK_DEADLOCK FALSE
