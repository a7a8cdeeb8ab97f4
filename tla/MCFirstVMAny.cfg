SPECIFICATION TracedSpec
CONSTANTS
  Half = 64
  Limit = 104
  PageSize = 0
  DefaultPageSize = 16
  Presets <- AnyPresets
  Input <- AnyInput
  Names = {"f", "g"}
  Literals <- MCLiterals
  Runes = {1}
  Disciplined = FALSE
  MostCells = 64
  MaxTokens = 3
CHECK_DEADLOCK FALSE
INVARIANT TypeOK
PROPERTY OnlySetStoresAnywhere
