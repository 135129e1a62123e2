SPECIFICATION AgentSpec
CONSTANTS
  i1 = i1
  i2 = i2
  Inc = {i1, i2}
  Ceilings = {"agent"}
  Drafts = {"none"}
  CallerEdges <- AgentPath
  ResearchWired = TRUE
  QuietClose = TRUE
  Cooldown = FALSE
  MaxRuns = 1
  VerifyReopens = 1
  ResearchPlayExtra = 1
  ReopenMax = 1
  WaitAfter = 1
  Limit <- AgentTwo
  MaxFlight = 1
  MaxSpent <- AgentSpent
INVARIANT TypeOK
INVARIANT TwoStrikes
INVARIANT RunnerHoldsLease
INVARIANT AgentBudget
PROPERTY KillFreezesWork
CHECK_DEADLOCK FALSE
