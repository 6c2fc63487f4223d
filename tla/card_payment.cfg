SPECIFICATION FairSpec
CONSTANTS
  u1 = u1
  exam = exam
  exam2 = exam2
  o1 = o1
  o2 = o2
  User = {u1}
  Exam = {exam, exam2}
  Order = {o1, o2}
  SlotOf <- MCSlotOf
  Ref = {r1, r2}
  NoRef = NoRef
  NoOrder = NoOrder
  Price = {1, 2}
  MaxCrashes = 1
INVARIANTS
  BooksAgree
  NoReceiptStuck
PROPERTIES
  DecisionsStand
  ReceiptsDecided
  AnnouncedUnlessKilled
  KeepsPromise
CHECK_DEADLOCK FALSE
