SPECIFICATION FairSpec
CONSTANTS
  t1 = t1
  t2 = t2
  Tasks = {t1, t2}
  Calls <- TwoCalls
  Answers <- TwoCallsGarbled
  MaxPending = 1
  MaxCalls = 2
  Faults = {"loss", "late", "io", "cancel"}
  RetryHalf = 1
  OverflowChecks = TRUE
  MaxRepeats = 0
INVARIANTS
  PerformedAtMostOnce
  GivesUpAfterFullRange
PROPERTIES
  ImplementsExchange
  PendingResolves
CHECK_DEADLOCK FALSE
