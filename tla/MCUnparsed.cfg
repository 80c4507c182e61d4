SPECIFICATION Spec
CONSTANTS
  t1 = t1
  t2 = t2
  Tasks = {t1}
  Calls <- TwoCalls
  Answers <- TwoCallsMalformed
  MaxPending = 1
  MaxCalls = 1
  Faults = {}
  RetryHalf = 2
  OverflowChecks = FALSE
  MaxRepeats = 0
INVARIANT RawWhenNotParsed
CHECK_DEADLOCK FALSE
