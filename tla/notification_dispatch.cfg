SPECIFICATION FairSpec
CONSTANTS
  m1 = m1
  m2 = m2
  p1 = p1
  Manager = {m1, m2}
  Nobody = Nobody
  Recipients = {m1}
  Phone = {p1}
  MaxCrashes = 1
INVARIANTS
  AlertedOnce
  MarkedMeansRung
PROPERTIES
  EventuallyPushed
