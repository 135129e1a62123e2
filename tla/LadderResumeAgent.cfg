SPECIFICATION ResumeSpec
CONSTANTS
  i1 = i1
  Inc = {i1}
  Ceilings = {"agent"}
  Drafts = {"none"}
  CallerEdges <- AgentRows
  ResearchWired = TRUE
  QuietClose = TRUE
  Cooldown = FALSE
  MaxRuns = 1
  VerifyReopens = 1
  ResearchPlayExtra = 1
  ReopenMax = 1
  WaitAfter = 1
  Limit <- NoLimit
  MaxFlight = 1
  MaxSpent <- KillTwice
PROPERTY ResumeRunsAgent
CHECK_DEADLOCK FALSE
