SPECIFICATION PageSpec
CONSTANTS
  gift = gift
  a = a
  b = b
  k = k
  leave = leave
  Sitting = gift
  Entitlement = {gift}
  Gift = {gift}
  Choice = {a, b}
  NoChoice = NoChoice
  NotScored = NotScored
  PerDay = 1
  CopyLimit = 1
  FullScore = 2
  CopyPoints = 2
  PastePoints = 3
  AwayPoints <- SomeAway
  PacePoints <- SomePace
  CopyId = {k}
  PasteBurst = {}
  Absence = {leave}
  MaxPresses = 3
  MaxLoads = 2
INVARIANTS
  OnlyGivenUpOverwrites
  PairedUnlessFailed
PROPERTIES
  SavingEnds
CHECK_DEADLOCK FALSE
