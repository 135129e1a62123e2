SPECIFICATION SceneSpec
CONSTANTS
  i1 = i1
  Inc = {i1}
  Ceilings = {"play", "research"}
  Drafts = {"check", "nocheck"}
  CallerEdges <- PlayPath
  ResearchWired = TRUE
  QuietClose = TRUE
  Cooldown = FALSE
  MaxRuns = 2
  VerifyReopens = 1
  ResearchPlayExtra = 1
  ReopenMax = 1
  WaitAfter = 1
  Limit <- NoLimit
  MaxFlight = 1
  MaxSpent <- PlaySpent
INVARIANT PlayCap
INVARIANT TwoStrikes
PROPERTY AckHasTwoExits
CHECK_DEADLOCK FALSE
