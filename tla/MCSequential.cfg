SPECIFICATION Spec
CONSTANTS
  t1 = t1
  t2 = t2
  Tasks = {t1}
  Calls <- FiveCalls
  Answers <- FiveCallsMalformed
  MaxPending = 2
  MaxCalls = 2
  Faults = {"loss", "late", "io", "cancel"}
  RetryHalf = 2
  OverflowChecks = FALSE
  MaxRepeats = 0
INVARIANTS
  TypeOK
  OrderlyAnswersAreOwn
  OrderlyOutcomeTellsExecution
  OrderlyLineIdle
  RetryCountsBusyAnswers
  GivesUpAfterFullRange
  OkCarriesRequestedService
  NegativeReportedUnlessPending
CHECK_DEADLOCK FALSE
