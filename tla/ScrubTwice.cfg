SPECIFICATION Spec
CONSTANTS
  Phrases <- HeaderAndUser
  MaxPhrases = 3
  ShieldKeys <- OneKey
  Target = "message"
  Prefilter = TRUE
  PiiRedact = TRUE
  ProjectRule = "none"
  MaxBytes = 20
  Truncate = TRUE
INVARIANT FixedPoint
CHECK_DEADLOCK FALSE
