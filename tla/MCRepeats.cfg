SPECIFICATION Spec
CONSTANTS
  t1 = t1
  t2 = t2
  Tasks = {t1}
  Calls <- TwoCalls
  Answers <- TwoCallsRefused
  MaxPending = 1
  MaxCalls = 1
  Faults = {}
  RetryHalf = 8
  OverflowChecks = FALSE
  MaxRepeats = 3
INVARIANT RepeatsAreLimited
CHECK_DEADLOCK FALSE
