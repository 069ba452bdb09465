CONSTANTS
  Ident <- MCIdent
  Sources <- MCSources
  MAX_PARSE_ERRORS = 100
SPECIFICATION Spec
INVARIANT ReadsAsWritten
INVARIANT DiagnosesBrokenParts
CHECK_DEADLOCK FALSE
