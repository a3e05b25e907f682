CONSTANTS
  root = root
  u1 = u1
  k1 = k1
  k2 = k2
  p0 = p0
  p1 = p1
  t1 = t1
  t2 = t2
  User <- TwoUsers
  Token <- Tokens
  Brought <- NoneOrAll
  Password <- Passwords
  Thread <- TwoThreads
  Root = root
  Default = p0
  Absent = Absent
  Nothing = Nothing
SPECIFICATION Spec
INVARIANTS TypeOK KeepsUser NeverLockedOut
PROPERTIES LoneCallIsExact
SYMMETRY Symmetry
