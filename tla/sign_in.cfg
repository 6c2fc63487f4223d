SPECIFICATION Spec
CONSTANTS
  s1 = s1
  s2 = s2
  r1 = r1
  r2 = r2
  Session = {s1, s2}
  NoSession = NoSession
  Request = {r1, r2}
  MaxSignIns = 3
  MaxResets = 1
  MaxMails = 1
SYMMETRY Alike
INVARIANTS
  LastSignInHolds
PROPERTIES
  SuspendedUntilApproved
  KeepsOneSession
