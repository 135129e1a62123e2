SPECIFICATION ApartSpec
CONSTANTS
  Obs <- Apart
  Sigs <- TwoSigs
  Keys <- TwoKeys
  Global = "global"
  Cooldown = FALSE
  QuietClose = TRUE
  ReopenMax = 1
  MaxSeen = 4
  Moves = {"restart"}
  MaxInc = 3
  MaxArrivals = 4
  MaxMoves = 3
INVARIANT OneOpenPerSig
CHECK_DEADLOCK FALSE
