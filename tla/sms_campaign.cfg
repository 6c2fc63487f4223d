CONSTANTS
  a1 = a1
  a2 = a2
  n1 = n1
  n2 = n2
  n3 = n3
  n4 = n4
  g1 = g1
  g2 = g2
  k1 = k1
  p1 = p1
  p2 = p2
  p3 = p3
  Manager = {a1, a2}
  Mobile = {n1, n2, n3, n4}
  Message = {g1, g2}
  Token = {k1}
  NoPreview = NoPreview
  NoCampaign = NoCampaign
  Post = {p1, p2, p3}
  MaxManual = 2
  MaxSegment = 3
  MaxBreaks = 2
SPECIFICATION Spec
SYMMETRY Alike
INVARIANTS
  AtMostOnce
  AsReviewed
  BooksBalance
