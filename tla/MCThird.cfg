SPECIFICATION SessionSpec
CONSTANTS
  Half = 380
  Limit = 0
  PageSize = 0
  DefaultPageSize = 256
  Presets <- SessionPresets
  Input <- Calculating
  Names <- SessionNames
  Literals <- SessionLiterals
  Runes = {41}
  Disciplined = FALSE
  Compiling <- InDefinition
CHECK_DEADLOCK FALSE
INVARIANTS SessionComputes PromptIsClean
