CONSTANTS
  EventIds = {e1, e2}
  Publishers = {p1, p2}
  Limit = 2
  MaxAttempts = 2
  Overdue = 1
  NoRow = NoRow
SPECIFICATION FairSpec
INVARIANTS
  IInv
  DuplicatesHaveCause
  GivenUpAfterMaxAttempts
PROPERTIES
  ImplementsEventDelivery
  EveryEventIsDecided
