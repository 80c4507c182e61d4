SPECIFICATION ReadersSpec
CONSTANTS
  Words <- SomeWords
  Lengths <- SomeLengths
  U32_MAX <- SmallMax
  Asked <- SomeAsked
  Messages <- SomeMessages
  Reports <- SomeReports
INVARIANT LengthsUpTo0xfUsed
CHECK_DEADLOCK FALSE
