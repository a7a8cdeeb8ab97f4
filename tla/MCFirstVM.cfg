SPECIFICATION TracedFairSpec
CONSTANTS
  Half = 64
  Limit = 0
  PageSize = 0
  DefaultPageSize = 16
  Presets <- DefinePresets
  Input <- DefineInput
  Names = {"f", "g"}
  Literals <- MCLiterals
  Runes = {1}
  Disciplined = TRUE
  MostCells = 64
  MaxTokens = 6
CHECK_DEADLOCK FALSE
INVARIANTS
  ReturnStackIntact DictionaryIsDefinitions LookupFindsLatest
  RunsOnlyCode NeverReturnsTooFar TraceTellsTheWord DumpShowsEveryWord
PROPERTIES FinishedWordsKept ProgramsEnd
