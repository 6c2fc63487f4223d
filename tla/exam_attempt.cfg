SPECIFICATION FairSpec
CONSTANTS
  gift = gift
  paid = paid
  a = a
  k1 = k1
  k2 = k2
  burst = burst
  Entitlement = {gift, paid}
  Gift = {gift}
  Choice = {a}
  NoChoice = NoChoice
  NotScored = NotScored
  PerDay = 1
  CopyLimit = 2
  FullScore = 5
  CopyPoints = 2
  PastePoints = 3
  AwayPoints <- NoPoints
  PacePoints <- SomePace
  CopyId = {k1, k2}
  PasteBurst = {burst}
  Absence = {}
INVARIANTS
  ResultIsOfStoredAnswers
  StartsAreLimited
  CopyStopIsExact
  ScoreIsExplained
PROPERTIES
  ClosedForGood
  FinishCloses
CHECK_DEADLOCK FALSE
