SPECIFICATION SceneSpec
CONSTANTS
  Obs <- Apart
  Sigs <- TwoSigs
  Keys <- TwoKeys
  Global = "global"
  Cooldown = FALSE
  QuietClose = TRUE
  ReopenMax = 1
  MaxSeen = 1
  Moves <- CoreMoves
  MaxInc = 3
  MaxArrivals = 4
  MaxMoves = 3
INVARIANT ApartIndexExact
PROPERTY ApartArrivalFindsWork
INVARIANT MixedEntriesHome
CHECK_DEADLOCK FALSE
