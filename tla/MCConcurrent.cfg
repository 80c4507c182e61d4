SPECIFICATION Spec
CONSTANTS
  t1 = t1
  t2 = t2
  Tasks = {t1, t2}
  Calls <- TwoCalls
  Answers <- TwoCallsRefused
  MaxPending = 1
  MaxCalls = 3
  Faults = {"late", "io", "cancel"}
  RetryHalf = 1
  OverflowChecks = FALSE
  MaxRepeats = 0
SYMMETRY TaskSymmetry
PROPERTY LeftoversStay
INVARIANTS
  NoMorePerformedThanCalled
  PerformedAgainOnlyIfRefused
  RetryCountsBusyAnswers
  OkCarriesRequestedService
  AnswersCoverWaiters
  NegativeReportedUnlessPending
CHECK_DEADLOCK FALSE
