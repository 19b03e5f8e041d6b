SPECIFICATION Spec
CONSTANTS
  DateNames = {"May 1843"}
  Refused = {"nul"}
  Texts <- MCTexts
  BadItems = {3}
  Answers <- MCAnswers
  MaxConcurrency = 2
  Concurrency = 2
  Gleanings = 1
  CarryoverLimit = 2
  Options <- MCOptions
CHECK_DEADLOCK FALSE
INVARIANTS NothingLeftBehind RecordedFromAnswers PromptsIgnoreTiming
PROPERTIES BatchReturns
