---------------------------- MODULE MCLadderRun ----------------------------
(* Small instances of LadderRun for TLC: what the environment may do in    *)
(* each run, and the rows its callers attempt.  The run of the plays has   *)
(* three scenes; in the other runs nothing but the scene "one" moves.      *)
EXTENDS LadderRun

VARIABLE scene
In(s, A) == scene = s /\ A /\ UNCHANGED scene

Bounds(f) == [k \in EnvSteps |-> IF k \in DOMAIN f THEN f[k] ELSE 0]
NoLimit == [c \in Classes |-> 0]
AgentTwo == [NoLimit EXCEPT !["agent"] = 2]

PlayRows == {"T08", "T09", "T10", "T11", "T12", "T13", "T18", "T38", "T39", "T40"}
AgentRows == {"T05", "T27", "T28", "T31", "T32", "T33", "T34", "T37"}
ResearchRows == {"T04", "T14", "T15", "T16", "T19", "T20", "T21", "T22", "T23", "T24", "T25", "T26"}
RecordRows == {"T06", "T38", "T39", "T40", "T41"}
AgentPath == {"T05", "T27", "T28", "T31"}
PlayPath == PlayRows \cup ResearchRows \cup RecordRows \cup {"T42"}
WorldRows == {"T05", "T28", "T31", "T32", "T33", "T34", "T43", "T44", "T46", "T48"}

Nothing == [k \in EnvSteps |-> 0]
AgentSpent == Bounds([kill |-> 2, call |-> 2, day |-> 1])
PlaySpent == Bounds([verify |-> 1, desk |-> 1])
HumanSpent == Bounds([verify |-> 1, human |-> 1])
WorldSpent == Bounds([suppress |-> 1, arrive |-> 1, age |-> 1, call |-> 2, expire |-> 1])
KillTwice == Bounds([kill |-> 2])

(* The steps the agent run leaves room for.                                *)
AgentNext ==
  \/ \E i \in Inc, e \in CallerEdges : Caller(i, e)
  \/ Worker \/ SetKillSwitch \/ NewDay
  \/ \E i \in Inc : CallStart(i) \/ CallDone(i)
OneInit == scene = "one" /\ Init
AgentSpec == OneInit /\ [][In("one", AgentNext)]_<<vars, scene>>

(* Every step, with the daemon's loops running.                            *)
ResumeSpec == OneInit /\ [][In("one", Next)]_<<vars, scene>> /\ Fairness

(* Three instances in one run: "play" has the plays and briefs of one      *)
(* incident and a dashboard click, "human" the operator's own moves in the *)
(* click's place, "world" the agent runs of one incident among trips,      *)
(* suppressions, arrivals, cooldowns and ageing strikes.                   *)
Human == INSTANCE LadderRun WITH MaxSpent <- HumanSpent
World == INSTANCE LadderRun WITH
  Ceilings <- {"agent"}, Drafts <- {"none"}, CallerEdges <- WorldRows,
  Cooldown <- TRUE, MaxRuns <- 1, MaxSpent <- WorldSpent

SceneInit == \/ scene \in {"play", "human"} /\ Init
             \/ scene = "world" /\ World!Init

SceneNext ==
  \/ \E i \in Inc, e \in PlayPath : In("play", Caller(i, e)) \/ In("human", Human!Caller(i, e))
  \/ In("play", Worker) \/ In("human", Human!Worker) \/ In("world", World!Worker)
  \/ \E i \in Inc : \/ In("play", DeskRead(i)) \/ In("play", DeskStep(i)) \/ In("play", Verify(i))
                    \/ In("human", Human!Verify(i)) \/ In("human", Human!Quarantine(i))
                    \/ In("human", Human!Unquarantine(i))
  \/ \E i \in Inc, e \in WorldRows : In("world", World!Caller(i, e))
  \/ In("world", World!LeaseExpires)
  \/ \E i \in Inc : \/ In("world", World!CallStart(i)) \/ In("world", World!CallDone(i)) \/ In("world", World!Arrive(i))
                    \/ In("world", World!Trip(i)) \/ In("world", World!Lapse(i)) \/ In("world", World!Ages(i))

SceneSpec == SceneInit /\ [][SceneNext]_<<vars, scene>>
=============================================================================
