SPECIFICATION LiveSpec
CONSTANTS
  t1 = t1
  t2 = t2
  Tasks = {t1, t2}
  Calls <- TwoCalls
  Answers <- TwoCallsRefused
  MaxPending = 1
  MaxCalls = 2
  Faults = {"late", "io", "cancel"}
  RetryHalf = 1
  OverflowChecks = FALSE
  MaxRepeats = 0
PROPERTIES
  EveryCallReturns
CHECK_DEADLOCK FALSE
