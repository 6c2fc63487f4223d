SPECIFICATION Spec
CONSTANTS
  d1 = d1
  d2 = d2
  c1 = c1
  c2 = c2
  demo = demo
  k1 = k1
  k2 = k2
  Draft = {d1, d2}
  Content = {c1, c2}
  Blank = Blank
  Demo = {demo}
  NoDemo = NoDemo
  Token = {k1, k2}
  NoToken = NoToken
  MaxRevision = 2
INVARIANTS
  RevisionNamesContent
  ThankedIsRecorded
  OneLeadPerToken
PROPERTIES
  OverIsOver
