SPECIFICATION HandoffSpec
CONSTANTS
  d1 = d1
  d2 = d2
  c1 = c1
  m1 = m1
  m2 = m2
  k1 = k1
  s1 = s1
  s2 = s2
  s3 = s3
  r1 = r1
  r2 = r2
  Draft = {d1, d2}
  Content = {c1}
  Blank = Blank
  Demo = {m1, m2}
  NoDemo = NoDemo
  Token = {k1}
  NoToken = NoToken
  Session = {s1, s2, s3}
  NoSession = NoSession
  Handler = {r1, r2}
  MaxRevision = 3
  MaxRequests = 3
SYMMETRY Alike
INVARIANTS
  PendingUntilSettled
PROPERTIES
  AttachedChoiceStands
CHECK_DEADLOCK FALSE
