SPECIFICATION ReadersSpec
CONSTANTS
  Words <- SomeWords
  Lengths <- SomeLengths
  U32_MAX <- SmallMax
  Asked <- SomeAsked
  Messages <- SomeMessages
  Reports <- SomeReports
INVARIANTS
  RequestNamesArguments
  LengthsAsAsked
  RefusedIfTooShort
  ReadMemoryInvariant
  OkDividesMessage
  ErrorMeansIndivisible
  SingleReadAgrees
  TupleInvariant
  LoopComputesReport
  ReportInvariant
  HelpersMatchAnswers
CHECK_DEADLOCK FALSE
