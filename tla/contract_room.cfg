SPECIFICATION Spec
CONSTANTS
  m1 = m1
  b1 = b1
  p1 = p1
  t1 = t1
  c1 = c1
  Manager = {m1}
  Device = {b1}
  Phone = {p1}
  Text = {t1}
  NoText = NoText
  Sections = 2
  Blank = Blank
  Content = {Blank, c1}
  Full = {c1}
  Unsigned = Unsigned
  MaxVersions = 2
  MaxForms = 2
  MaxRevision = 3
  MaxGrants = 1
INVARIANTS
  OpenRoomIsItsSnapshot
  SignedAnswersStand
  MatchingPageIsCurrent
PROPERTIES
  UndoneOnlyByOldRead
  KeepsRecord
CHECK_DEADLOCK FALSE
