CONSTANTS
  Ident <- MCIdent
  Sources <- ScoreSources
  MAX_PARSE_ERRORS = 100
SPECIFICATION Spec
INVARIANT ModifiersStayApart
CHECK_DEADLOCK FALSE
