SPECIFICATION SessionSpec
CONSTANTS
  Half = 380
  Limit = 0
  PageSize = 0
  DefaultPageSize = 256
  Presets <- SessionPresets
  Input <- Defining
  Names <- SessionNames
  Literals <- SessionLiterals
  Runes = {41}
  Disciplined = FALSE
  Compiling = {}
CHECK_DEADLOCK FALSE
INVARIANT ColonInvokesBracket
