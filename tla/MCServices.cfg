SPECIFICATION Spec
CONSTANTS
  t1 = t1
  Tasks = {t1}
  Calls <- AllCalls
  Answers <- AllAnswers
  MaxPending = 1
  MaxCalls = 1
  Faults = {}
  RetryHalf = 1
  OverflowChecks = FALSE
  MaxRepeats = 0
INVARIANTS
  ResultsKeepContent
  PanicOnlyOnEmptyDelayed
CHECK_DEADLOCK FALSE
