SPECIFICATION Spec
CONSTANTS
  t1 = t1
  t2 = t2
  Tasks = {t1}
  Calls <- TwoCalls
  Answers <- TwoCallsRefused
  MaxPending = 1
  MaxCalls = 2
  Faults = {"late"}
  RetryHalf = 2
  OverflowChecks = FALSE
  MaxRepeats = 0
INVARIANT ResponsesBoundToRequests
CHECK_DEADLOCK FALSE
