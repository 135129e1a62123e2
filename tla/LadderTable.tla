---------------------------- MODULE LadderTable ----------------------------
(***************************************************************************)
(* The ladder's transition table (internal/ladder/statemachine.go) as      *)
(* data: the twenty states and the fifty legal edges T01..T50 with their   *)
(* sources, target and stage flag.                                         *)
(* The guards and effects of the edges are in LadderRun.                   *)
(***************************************************************************)
EXTENDS Naturals, FiniteSets, Sequences

(* ------------------------------- states ------------------------------- *)

PlayStates == {"play:drafted", "play:check_only", "play:applied", "play:failed"}

ResearchStates == {"research:requested", "research:returned",
                   "research:degraded", "research:skipped"}

AgentStates == {"agent:running", "agent:done", "agent:failed", "agent:suspended"}

States == {"detected", "recorded", "acknowledged", "verifying", "resolved",
           "escalated", "suppressed", "quarantined"}
            \cup PlayStates \cup ResearchStates \cup AgentStates

(* The states an incident can be in before quarantine: T47's From list.    *)
NotQuarantined == States \ {"quarantined"}

(* ---------------------------- legal edges ----------------------------- *)

Edge(from, to, stage) == [from |-> from, to |-> to, stage |-> stage]

EntryEdges ==
  [T01 |-> Edge({"detected"}, "recorded", FALSE),
   T02 |-> Edge({"detected"}, "suppressed", FALSE),
   T03 |-> Edge({"recorded"}, "play:drafted", TRUE),
   T04 |-> Edge({"recorded"}, "research:requested", TRUE),
   T05 |-> Edge({"recorded"}, "agent:running", TRUE),
   T06 |-> Edge({"recorded"}, "verifying", FALSE),
   T07 |-> Edge({"recorded"}, "escalated", FALSE)]

PlayEdges ==
  [T08 |-> Edge({"play:drafted"}, "play:check_only", TRUE),
   T09 |-> Edge({"play:drafted"}, "play:failed", FALSE),
   T10 |-> Edge({"play:check_only"}, "play:applied", TRUE),
   T11 |-> Edge({"play:check_only"}, "play:failed", FALSE),
   T12 |-> Edge({"play:applied"}, "verifying", FALSE),
   T13 |-> Edge({"play:failed"}, "play:drafted", TRUE),
   T14 |-> Edge({"play:failed"}, "research:requested", TRUE),
   T15 |-> Edge({"play:failed"}, "research:skipped", FALSE)]

PlayExitEdges ==
  [T16 |-> Edge({"play:failed"}, "agent:running", TRUE),
   T17 |-> Edge({"play:failed"}, "quarantined", FALSE),
   T18 |-> Edge({"play:failed"}, "escalated", FALSE)]

ResearchEdges ==
  [T19 |-> Edge({"research:requested"}, "research:returned", FALSE),
   T20 |-> Edge({"research:requested"}, "research:degraded", FALSE),
   T21 |-> Edge({"research:requested"}, "research:skipped", FALSE),
   T22 |-> Edge({"research:returned"}, "play:drafted", FALSE),
   T23 |-> Edge({"research:returned"}, "agent:running", TRUE),
   T24 |-> Edge({"research:degraded"}, "agent:running", TRUE),
   T25 |-> Edge({"research:skipped"}, "agent:running", TRUE),
   T26 |-> Edge(ResearchStates \ {"research:requested"}, "escalated", FALSE)]

AgentEdges ==
  [T27 |-> Edge({"agent:running"}, "agent:done", FALSE),
   T28 |-> Edge({"agent:running"}, "agent:failed", FALSE),
   T29 |-> Edge({"agent:running"}, "agent:suspended", FALSE),
   T30 |-> Edge({"agent:running"}, "escalated", FALSE),
   T31 |-> Edge({"agent:failed"}, "agent:running", TRUE),
   T32 |-> Edge({"agent:failed"}, "agent:suspended", FALSE),
   T33 |-> Edge({"agent:failed"}, "escalated", FALSE)]

AgentExitEdges ==
  [T34 |-> Edge({"agent:suspended"}, "agent:running", TRUE),
   T35 |-> Edge({"agent:suspended"}, "escalated", FALSE),
   T36 |-> Edge({"agent:done"}, "verifying", FALSE),
   T37 |-> Edge({"agent:done"}, "escalated", FALSE)]

VerifyEdges ==
  [T38 |-> Edge({"verifying"}, "resolved", FALSE),
   T39 |-> Edge({"verifying"}, "play:drafted", TRUE),
   T40 |-> Edge({"verifying"}, "escalated", FALSE),
   T41 |-> Edge({"verifying"}, "quarantined", FALSE),
   T42 |-> Edge({"resolved"}, "recorded", FALSE),
   T43 |-> Edge({"escalated"}, "recorded", FALSE)]

WindowEdges ==
  [T44 |-> Edge({"suppressed"}, "recorded", FALSE),
   T45 |-> Edge({"suppressed"}, "resolved", FALSE),
   T46 |-> Edge({"detected", "recorded", "agent:suspended"}
                   \cup PlayStates \cup ResearchStates, "suppressed", FALSE),
   T47 |-> Edge(NotQuarantined, "quarantined", FALSE),
   T48 |-> Edge({"detected", "recorded", "acknowledged", "verifying"}
                   \cup PlayStates \cup ResearchStates \cup AgentStates,
                "recorded", FALSE)]

HumanEdges ==
  [T49 |-> Edge({"detected", "recorded"}, "acknowledged", FALSE),
   T50 |-> Edge({"acknowledged"}, "resolved", FALSE)]

(* FindEdge's table: the rows in order, looked up by id.                   *)
Legal ==
  LET rows == <<EntryEdges, PlayEdges, PlayExitEdges, ResearchEdges, AgentEdges,
                AgentExitEdges, VerifyEdges, WindowEdges, HumanEdges>>
      ids  == UNION {DOMAIN rows[k] : k \in 1..Len(rows)}
  IN  [e \in ids |-> LET k == CHOOSE k \in 1..Len(rows) : e \in DOMAIN rows[k]
                     IN  rows[k][e]]

EdgeIds == DOMAIN Legal

(* What the dashboard's two buttons drive: AckEdge is the row into         *)
(* `acknowledged`, CloseEdge the first row into `resolved`, from a state;  *)
(* NoEdge when there is none.                                              *)
NoEdge == "none"

AckEdge(s) == IF s \in Legal["T49"].from THEN "T49" ELSE NoEdge

CloseEdge(s) ==
  CASE s = "verifying"    -> "T38"
    [] s = "suppressed"   -> "T45"
    [] s = "acknowledged" -> "T50"
    [] OTHER              -> NoEdge
=============================================================================
