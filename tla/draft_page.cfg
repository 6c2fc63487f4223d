SPECIFICATION PageSpec
CONSTANTS
  d1 = d1
  d2 = d2
  a1 = a1
  k1 = k1
  w1 = w1
  w2 = w2
  Draft = {d1, d2}
  Content = {{}, {a1}}
  Blank = {}
  Demo = {}
  NoDemo = NoDemo
  Token = {k1}
  NoToken = NoToken
  Slot = {w1, w2}
  NoLocal = NoLocal
  NoDraft = NoDraft
  MaxRevision = 2
  MaxOthers = 1
  MaxLost = 1
  MaxDecided = 3
SYMMETRY Alike
INVARIANTS
  AtRestStored
PROPERTIES
  NeverBlind
