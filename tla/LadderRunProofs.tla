-------------------------- MODULE LadderRunProofs --------------------------
(***************************************************************************)
(* What the ladder keeps for every number of incidents, every table of     *)
(* limits and caps, every choice of callers' rows and every bound on the   *)
(* environment: its types, the agent budget, the kill-switch, the          *)
(* two-strike rule, one agent run per host, the cap on plays, and the two  *)
(* exits of an acknowledged incident.                                      *)
(*                                                                         *)
(* The argument has three layers.  The rows of the table have what their   *)
(* groups have (EveryRow).  An attempt either leaves its incident where it *)
(* is or carries its row with its guard true (Stays, Carries).  Every step *)
(* keeps the types and is calm, touches the lease alone, or carries one    *)
(* row of one incident (Moves); the theorems argue about Moves only.       *)
(***************************************************************************)
EXTENDS LadderRun, TLAPS

-----------------------------------------------------------------------------
(* ------------------------------ the table ----------------------------- *)

\* What the proofs need of row e: the rows into agent:running are the ones that
\* acquire the lease, a row into work is a stage entry, T46 leads to suppressed,
\* all that leads out of acknowledged is a close, a quarantine or T48, and the
\* rows that lead to or along the way to a play's end are known.
RowOK(e, r) ==
  /\ r.to \in States
  /\ r.stage \in BOOLEAN
  /\ r.to = "agent:running" <=> e \in LeaseEdges
  /\ r.to \in WorkStates => r.stage = TRUE
  /\ e = "T46" => r.to = "suppressed"
  /\ "acknowledged" \in r.from => e = "T48" \/ r.to \in {"resolved", "quarantined"}
  /\ r.to \in {"detected", "recorded", "play:drafted", "play:check_only", "play:applied"}
       => e \in {"T01", "T03", "T08", "T10", "T13", "T22", "T39", "T42", "T43", "T44", "T48"}
  /\ e \in {"T01", "T03", "T08", "T10", "T12"}
       => r.from \subseteq {"detected", "recorded", "play:drafted", "play:check_only", "play:applied"}

\* The rows out of detected and recorded.
LEMMA EntryRows == \A e \in DOMAIN EntryEdges : RowOK(e, EntryEdges[e])
<1>1. DOMAIN EntryEdges = {"T01", "T02", "T03", "T04", "T05", "T06", "T07"}
  BY DEF EntryEdges
<1>2. RowOK("T01", EntryEdges["T01"])
  BY DEF EntryEdges, Edge, RowOK, LeaseEdges,
         WorkStates, States, PlayStates, ResearchStates, AgentStates, NotQuarantined
<1>3. RowOK("T02", EntryEdges["T02"])
  BY DEF EntryEdges, Edge, RowOK, LeaseEdges,
         WorkStates, States, PlayStates, ResearchStates, AgentStates, NotQuarantined
<1>4. RowOK("T03", EntryEdges["T03"])
  BY DEF EntryEdges, Edge, RowOK, LeaseEdges,
         WorkStates, States, PlayStates, ResearchStates, AgentStates, NotQuarantined
<1>5. RowOK("T04", EntryEdges["T04"])
  BY DEF EntryEdges, Edge, RowOK, LeaseEdges,
         WorkStates, States, PlayStates, ResearchStates, AgentStates, NotQuarantined
<1>6. RowOK("T05", EntryEdges["T05"])
  BY DEF EntryEdges, Edge, RowOK, LeaseEdges,
         WorkStates, States, PlayStates, ResearchStates, AgentStates, NotQuarantined
<1>7. RowOK("T06", EntryEdges["T06"])
  BY DEF EntryEdges, Edge, RowOK, LeaseEdges,
         WorkStates, States, PlayStates, ResearchStates, AgentStates, NotQuarantined
<1>8. RowOK("T07", EntryEdges["T07"])
  BY DEF EntryEdges, Edge, RowOK, LeaseEdges,
         WorkStates, States, PlayStates, ResearchStates, AgentStates, NotQuarantined
<1> QED
  BY <1>1, <1>2, <1>3, <1>4, <1>5, <1>6, <1>7, <1>8

\* The rows of the play stage.
LEMMA PlayRows == \A e \in DOMAIN PlayEdges : RowOK(e, PlayEdges[e])
<1>1. DOMAIN PlayEdges = {"T08", "T09", "T10", "T11", "T12", "T13", "T14", "T15"}
  BY DEF PlayEdges
<1>2. RowOK("T08", PlayEdges["T08"])
  BY DEF PlayEdges, Edge, RowOK, LeaseEdges,
         WorkStates, States, PlayStates, ResearchStates, AgentStates, NotQuarantined
<1>3. RowOK("T09", PlayEdges["T09"])
  BY DEF PlayEdges, Edge, RowOK, LeaseEdges,
         WorkStates, States, PlayStates, ResearchStates, AgentStates, NotQuarantined
<1>4. RowOK("T10", PlayEdges["T10"])
  BY DEF PlayEdges, Edge, RowOK, LeaseEdges,
         WorkStates, States, PlayStates, ResearchStates, AgentStates, NotQuarantined
<1>5. RowOK("T11", PlayEdges["T11"])
  BY DEF PlayEdges, Edge, RowOK, LeaseEdges,
         WorkStates, States, PlayStates, ResearchStates, AgentStates, NotQuarantined
<1>6. RowOK("T12", PlayEdges["T12"])
  BY DEF PlayEdges, Edge, RowOK, LeaseEdges,
         WorkStates, States, PlayStates, ResearchStates, AgentStates, NotQuarantined
<1>7. RowOK("T13", PlayEdges["T13"])
  BY DEF PlayEdges, Edge, RowOK, LeaseEdges,
         WorkStates, States, PlayStates, ResearchStates, AgentStates, NotQuarantined
<1>8. RowOK("T14", PlayEdges["T14"])
  BY DEF PlayEdges, Edge, RowOK, LeaseEdges,
         WorkStates, States, PlayStates, ResearchStates, AgentStates, NotQuarantined
<1>9. RowOK("T15", PlayEdges["T15"])
  BY DEF PlayEdges, Edge, RowOK, LeaseEdges,
         WorkStates, States, PlayStates, ResearchStates, AgentStates, NotQuarantined
<1> QED
  BY <1>1, <1>2, <1>3, <1>4, <1>5, <1>6, <1>7, <1>8, <1>9

\* The rows out of a failed play.
LEMMA PlayExitRows == \A e \in DOMAIN PlayExitEdges : RowOK(e, PlayExitEdges[e])
<1>1. DOMAIN PlayExitEdges = {"T16", "T17", "T18"}
  BY DEF PlayExitEdges
<1>2. RowOK("T16", PlayExitEdges["T16"])
  BY DEF PlayExitEdges, Edge, RowOK, LeaseEdges,
         WorkStates, States, PlayStates, ResearchStates, AgentStates, NotQuarantined
<1>3. RowOK("T17", PlayExitEdges["T17"])
  BY DEF PlayExitEdges, Edge, RowOK, LeaseEdges,
         WorkStates, States, PlayStates, ResearchStates, AgentStates, NotQuarantined
<1>4. RowOK("T18", PlayExitEdges["T18"])
  BY DEF PlayExitEdges, Edge, RowOK, LeaseEdges,
         WorkStates, States, PlayStates, ResearchStates, AgentStates, NotQuarantined
<1> QED
  BY <1>1, <1>2, <1>3, <1>4

\* The rows of the research stage.
LEMMA ResearchRows == \A e \in DOMAIN ResearchEdges : RowOK(e, ResearchEdges[e])
<1>1. DOMAIN ResearchEdges = {"T19", "T20", "T21", "T22", "T23", "T24", "T25", "T26"}
  BY DEF ResearchEdges
<1>2. RowOK("T19", ResearchEdges["T19"])
  BY DEF ResearchEdges, Edge, RowOK, LeaseEdges,
         WorkStates, States, PlayStates, ResearchStates, AgentStates, NotQuarantined
<1>3. RowOK("T20", ResearchEdges["T20"])
  BY DEF ResearchEdges, Edge, RowOK, LeaseEdges,
         WorkStates, States, PlayStates, ResearchStates, AgentStates, NotQuarantined
<1>4. RowOK("T21", ResearchEdges["T21"])
  BY DEF ResearchEdges, Edge, RowOK, LeaseEdges,
         WorkStates, States, PlayStates, ResearchStates, AgentStates, NotQuarantined
<1>5. RowOK("T22", ResearchEdges["T22"])
  BY DEF ResearchEdges, Edge, RowOK, LeaseEdges,
         WorkStates, States, PlayStates, ResearchStates, AgentStates, NotQuarantined
<1>6. RowOK("T23", ResearchEdges["T23"])
  BY DEF ResearchEdges, Edge, RowOK, LeaseEdges,
         WorkStates, States, PlayStates, ResearchStates, AgentStates, NotQuarantined
<1>7. RowOK("T24", ResearchEdges["T24"])
  BY DEF ResearchEdges, Edge, RowOK, LeaseEdges,
         WorkStates, States, PlayStates, ResearchStates, AgentStates, NotQuarantined
<1>8. RowOK("T25", ResearchEdges["T25"])
  BY DEF ResearchEdges, Edge, RowOK, LeaseEdges,
         WorkStates, States, PlayStates, ResearchStates, AgentStates, NotQuarantined
<1>9. RowOK("T26", ResearchEdges["T26"])
  BY DEF ResearchEdges, Edge, RowOK, LeaseEdges,
         WorkStates, States, PlayStates, ResearchStates, AgentStates, NotQuarantined
<1> QED
  BY <1>1, <1>2, <1>3, <1>4, <1>5, <1>6, <1>7, <1>8, <1>9

\* The rows of the agent stage.
LEMMA AgentRows == \A e \in DOMAIN AgentEdges : RowOK(e, AgentEdges[e])
<1>1. DOMAIN AgentEdges = {"T27", "T28", "T29", "T30", "T31", "T32", "T33"}
  BY DEF AgentEdges
<1>2. RowOK("T27", AgentEdges["T27"])
  BY DEF AgentEdges, Edge, RowOK, LeaseEdges,
         WorkStates, States, PlayStates, ResearchStates, AgentStates, NotQuarantined
<1>3. RowOK("T28", AgentEdges["T28"])
  BY DEF AgentEdges, Edge, RowOK, LeaseEdges,
         WorkStates, States, PlayStates, ResearchStates, AgentStates, NotQuarantined
<1>4. RowOK("T29", AgentEdges["T29"])
  BY DEF AgentEdges, Edge, RowOK, LeaseEdges,
         WorkStates, States, PlayStates, ResearchStates, AgentStates, NotQuarantined
<1>5. RowOK("T30", AgentEdges["T30"])
  BY DEF AgentEdges, Edge, RowOK, LeaseEdges,
         WorkStates, States, PlayStates, ResearchStates, AgentStates, NotQuarantined
<1>6. RowOK("T31", AgentEdges["T31"])
  BY DEF AgentEdges, Edge, RowOK, LeaseEdges,
         WorkStates, States, PlayStates, ResearchStates, AgentStates, NotQuarantined
<1>7. RowOK("T32", AgentEdges["T32"])
  BY DEF AgentEdges, Edge, RowOK, LeaseEdges,
         WorkStates, States, PlayStates, ResearchStates, AgentStates, NotQuarantined
<1>8. RowOK("T33", AgentEdges["T33"])
  BY DEF AgentEdges, Edge, RowOK, LeaseEdges,
         WorkStates, States, PlayStates, ResearchStates, AgentStates, NotQuarantined
<1> QED
  BY <1>1, <1>2, <1>3, <1>4, <1>5, <1>6, <1>7, <1>8

\* The rows out of the agent stage.
LEMMA AgentExitRows == \A e \in DOMAIN AgentExitEdges : RowOK(e, AgentExitEdges[e])
<1>1. DOMAIN AgentExitEdges = {"T34", "T35", "T36", "T37"}
  BY DEF AgentExitEdges
<1>2. RowOK("T34", AgentExitEdges["T34"])
  BY DEF AgentExitEdges, Edge, RowOK, LeaseEdges,
         WorkStates, States, PlayStates, ResearchStates, AgentStates, NotQuarantined
<1>3. RowOK("T35", AgentExitEdges["T35"])
  BY DEF AgentExitEdges, Edge, RowOK, LeaseEdges,
         WorkStates, States, PlayStates, ResearchStates, AgentStates, NotQuarantined
<1>4. RowOK("T36", AgentExitEdges["T36"])
  BY DEF AgentExitEdges, Edge, RowOK, LeaseEdges,
         WorkStates, States, PlayStates, ResearchStates, AgentStates, NotQuarantined
<1>5. RowOK("T37", AgentExitEdges["T37"])
  BY DEF AgentExitEdges, Edge, RowOK, LeaseEdges,
         WorkStates, States, PlayStates, ResearchStates, AgentStates, NotQuarantined
<1> QED
  BY <1>1, <1>2, <1>3, <1>4, <1>5

\* The rows out of verification, resolution and escalation.
LEMMA VerifyRows == \A e \in DOMAIN VerifyEdges : RowOK(e, VerifyEdges[e])
<1>1. DOMAIN VerifyEdges = {"T38", "T39", "T40", "T41", "T42", "T43"}
  BY DEF VerifyEdges
<1>2. RowOK("T38", VerifyEdges["T38"])
  BY DEF VerifyEdges, Edge, RowOK, LeaseEdges,
         WorkStates, States, PlayStates, ResearchStates, AgentStates, NotQuarantined
<1>3. RowOK("T39", VerifyEdges["T39"])
  BY DEF VerifyEdges, Edge, RowOK, LeaseEdges,
         WorkStates, States, PlayStates, ResearchStates, AgentStates, NotQuarantined
<1>4. RowOK("T40", VerifyEdges["T40"])
  BY DEF VerifyEdges, Edge, RowOK, LeaseEdges,
         WorkStates, States, PlayStates, ResearchStates, AgentStates, NotQuarantined
<1>5. RowOK("T41", VerifyEdges["T41"])
  BY DEF VerifyEdges, Edge, RowOK, LeaseEdges,
         WorkStates, States, PlayStates, ResearchStates, AgentStates, NotQuarantined
<1>6. RowOK("T42", VerifyEdges["T42"])
  BY DEF VerifyEdges, Edge, RowOK, LeaseEdges,
         WorkStates, States, PlayStates, ResearchStates, AgentStates, NotQuarantined
<1>7. RowOK("T43", VerifyEdges["T43"])
  BY DEF VerifyEdges, Edge, RowOK, LeaseEdges,
         WorkStates, States, PlayStates, ResearchStates, AgentStates, NotQuarantined
<1> QED
  BY <1>1, <1>2, <1>3, <1>4, <1>5, <1>6, <1>7

\* The rows of suppression, quarantine and the fold.
LEMMA WindowRows == \A e \in DOMAIN WindowEdges : RowOK(e, WindowEdges[e])
<1>1. DOMAIN WindowEdges = {"T44", "T45", "T46", "T47", "T48"}
  BY DEF WindowEdges
<1>2. RowOK("T44", WindowEdges["T44"])
  BY DEF WindowEdges, Edge, RowOK, LeaseEdges,
         WorkStates, States, PlayStates, ResearchStates, AgentStates, NotQuarantined
<1>3. RowOK("T45", WindowEdges["T45"])
  BY DEF WindowEdges, Edge, RowOK, LeaseEdges,
         WorkStates, States, PlayStates, ResearchStates, AgentStates, NotQuarantined
<1>4. RowOK("T46", WindowEdges["T46"])
  BY DEF WindowEdges, Edge, RowOK, LeaseEdges,
         WorkStates, States, PlayStates, ResearchStates, AgentStates, NotQuarantined
<1>5. RowOK("T47", WindowEdges["T47"])
  BY DEF WindowEdges, Edge, RowOK, LeaseEdges,
         WorkStates, States, PlayStates, ResearchStates, AgentStates, NotQuarantined
<1>6. RowOK("T48", WindowEdges["T48"])
  BY DEF WindowEdges, Edge, RowOK, LeaseEdges,
         WorkStates, States, PlayStates, ResearchStates, AgentStates, NotQuarantined
<1> QED
  BY <1>1, <1>2, <1>3, <1>4, <1>5, <1>6

\* The rows of acknowledgement.
LEMMA HumanRows == \A e \in DOMAIN HumanEdges : RowOK(e, HumanEdges[e])
<1>1. DOMAIN HumanEdges = {"T49", "T50"}
  BY DEF HumanEdges
<1>2. RowOK("T49", HumanEdges["T49"])
  BY DEF HumanEdges, Edge, RowOK, LeaseEdges,
         WorkStates, States, PlayStates, ResearchStates, AgentStates, NotQuarantined
<1>3. RowOK("T50", HumanEdges["T50"])
  BY DEF HumanEdges, Edge, RowOK, LeaseEdges,
         WorkStates, States, PlayStates, ResearchStates, AgentStates, NotQuarantined
<1> QED
  BY <1>1, <1>2, <1>3

\* The table's groups, in the order Legal looks them up.
Groups == <<EntryEdges, PlayEdges, PlayExitEdges, ResearchEdges, AgentEdges,
            AgentExitEdges, VerifyEdges, WindowEdges, HumanEdges>>

\* Legal is the groups put together: a row's id is in some group, and the row
\* is the one of a group that has it.
LEMMA LegalIs ==
  /\ EdgeIds = UNION {DOMAIN Groups[k] : k \in 1..Len(Groups)}
  /\ \A e \in EdgeIds : \E k \in 1..Len(Groups) : e \in DOMAIN Groups[k] /\ Legal[e] = Groups[k][e]
<1> DEFINE ids == UNION {DOMAIN Groups[k] : k \in 1..Len(Groups)}
           at(e) == CHOOSE k \in 1..Len(Groups) : e \in DOMAIN Groups[k]
<1>1. Legal = [e \in ids |-> Groups[at(e)][e]]
  BY DEF Legal, Groups
<1>2. EdgeIds = ids
  BY <1>1 DEF EdgeIds
<1>3. ASSUME NEW e \in ids PROVE at(e) \in 1..Len(Groups) /\ e \in DOMAIN Groups[at(e)]
  <2>1. \E k \in 1..Len(Groups) : e \in DOMAIN Groups[k]
    OBVIOUS
  <2> QED BY <2>1
<1> QED BY <1>1, <1>2, <1>3

\* Every row of the table is as RowOK says.
LEMMA EveryRow == \A e \in EdgeIds : RowOK(e, Legal[e])
<1>1. \A k \in 1..Len(Groups) : \A e \in DOMAIN Groups[k] : RowOK(e, Groups[k][e])
  BY EntryRows, PlayRows, PlayExitRows, ResearchRows, AgentRows, AgentExitRows,
     VerifyRows, WindowRows, HumanRows DEF Groups
<1> QED BY <1>1, LegalIs

\* The driver's rows and the dashboard's are rows of the table.
LEMMA SomeEdges == {"T03", "T04", "T05"} \cup DeskRows \subseteq EdgeIds
<1>1. DOMAIN Groups[1] \cup DOMAIN Groups[7] \cup DOMAIN Groups[8] \cup DOMAIN Groups[9] \subseteq EdgeIds
  <2>1. {1, 7, 8, 9} \subseteq 1..Len(Groups)
    BY DEF Groups
  <2> QED BY <2>1, LegalIs
<1>2. {"T03", "T04", "T05"} \subseteq DOMAIN Groups[1]
  BY DEF Groups, EntryEdges
<1>3. "T38" \in DOMAIN Groups[7] /\ "T45" \in DOMAIN Groups[8]
  BY DEF Groups, VerifyEdges, WindowEdges
<1>4. "T49" \in DOMAIN Groups[9] /\ "T50" \in DOMAIN Groups[9]
  BY DEF Groups, HumanEdges
<1> QED BY <1>1, <1>2, <1>3, <1>4 DEF DeskRows

-----------------------------------------------------------------------------
(* ---------------------- an incident and its record -------------------- *)

\* A capped counter stays below its cap and rises by one at most.
LEMMA UpTo == ASSUME NEW top \in Nat, NEW n \in 0..top PROVE Up(n, top) \in 0..top /\ Up(n, top) <= n + 1
BY DEF Up

\* A refusal keeps the incident, its strikes, and its state unless it quarantines
\* (refuseLocked).
LEMMA RefusalIs ==
  ASSUME NEW x \in Incident, NEW b \in BOOLEAN
  PROVE  /\ Refusal(x, b) \in Incident
         /\ Refusal(x, b).state \in {x.state, "quarantined"}
         /\ Refusal(x, b).strikes = x.strikes
<1> DEFINE n == IF b THEN Up(x.illegal, 3) ELSE x.illegal
           s == IF b /\ n >= 3 THEN "quarantined" ELSE x.state
<1>1. n \in 0..3
  BY UpTo DEF Incident
<1>2. s \in States /\ s \in {x.state, "quarantined"}
  BY DEF Incident, States
<1>3. Refusal(x, b) = [x EXCEPT !.illegal = n, !.state = s]
  BY DEF Refusal
<1> HIDE DEF n, s
<1> QED BY <1>1, <1>2, <1>3 DEF Incident

\* Counting a lost lease attempt leaves state and strikes alone.
LEMMA ContendedIs ==
  ASSUME NEW x \in Incident
  PROVE  /\ Contended(x) \in Incident
         /\ Contended(x).state = x.state
         /\ Contended(x).strikes = x.strikes
<1> DEFINE n == Up(x.tries, WaitAfter + 1)
           w == x.waiting \/ x.tries + 1 > WaitAfter
<1>1. n \in 0..WaitAfter + 1
  BY UpTo, ConstAssumption DEF Incident
<1>2. w \in BOOLEAN
  OBVIOUS
<1>3. Contended(x) = [x EXCEPT !.tries = n, !.waiting = w]
  BY DEF Contended
<1> HIDE DEF n, w
<1> QED BY <1>1, <1>2, <1>3 DEF Incident

\* So does running a play (playCheckStage).
LEMMA PlayCheckIs ==
  ASSUME NEW x \in Incident, NEW r \in {"changed", "clean", "transient", "permanent"}, NEW b \in BOOLEAN
  PROVE  /\ PlayCheck(x, <<r, b>>) \in Incident
         /\ PlayCheck(x, <<r, b>>).state = x.state
         /\ PlayCheck(x, <<r, b>>).strikes = x.strikes
<1> DEFINE w == x.noRun \/ ~b
           y == [x EXCEPT !.run = r, !.noRun = w]
<1>1. w \in BOOLEAN
  OBVIOUS
<1>3. PlayCheck(x, <<r, b>>) = IF x.play = None THEN x ELSE Outdated(y)
  BY DEF PlayCheck
<1> HIDE DEF w
<1>4. y \in Incident /\ y.state = x.state /\ y.strikes = x.strikes
  BY <1>1 DEF Incident
<1> HIDE DEF y
<1>5. Outdated(y) \in Incident /\ Outdated(y).state = y.state /\ Outdated(y).strikes = y.strikes
  BY <1>4 DEF Outdated, Incident
<1> QED BY <1>3, <1>4, <1>5

\* So do opening a window and letting it age.
LEMMA WindowIs ==
  ASSUME NEW x \in Incident
  PROVE  /\ OpenWindow(x) \in Incident /\ Outdated(x) \in Incident
         /\ OpenWindow(x).state = x.state /\ Outdated(x).state = x.state
         /\ OpenWindow(x).strikes = x.strikes /\ Outdated(x).strikes = x.strikes
BY DEF OpenWindow, Outdated, Incident

\* The cap of the play counter is a number.
LEMMA TopIsNat == PlayRunsTop \in Nat
BY ConstAssumption DEF PlayRunsTop

\* y is incident record x with neither its state nor its strikes changed.
Kept(x, y) == y \in Incident /\ y.state = x.state /\ y.strikes = x.strikes

\* A row's Apply keeps the record an incident, moves the state by T46 alone, and
\* changes the strikes by T28 and T34 alone: T34 clears them.
LEMMA AppliedIs ==
  ASSUME TypeOK, NEW i \in Inc, NEW e, NEW a \in Answers(e),
         ~(e \in {"T04", "T14"} /\ a = "error")
  PROVE  /\ Applied(i, e, a) \in Incident
         /\ Applied(i, e, a).state = IF e = "T46" THEN "suppressed" ELSE inc[i].state
         /\ e \notin {"T28", "T34"} => Applied(i, e, a).strikes = inc[i].strikes
         /\ e = "T34" => Applied(i, e, a).strikes = 0
<1> DEFINE x == inc[i]
           Goal(y) == /\ y \in Incident
                      /\ y.state = IF e = "T46" THEN "suppressed" ELSE x.state
                      /\ e \notin {"T28", "T34"} => y.strikes = x.strikes
                      /\ e = "T34" => y.strikes = 0
<1>x. x \in Incident
  BY DEF TypeOK
<1> SUFFICES Goal(Applied(i, e, a))
  OBVIOUS
<1> HIDE DEF x
<1>k. ASSUME NEW y, Kept(x, y), e \notin {"T34", "T46"} PROVE Goal(y)
  BY <1>k DEF Kept
<1> HIDE DEF Goal
<1>1. CASE e = "T03"
  <2>1. Applied(i, e, a) = [x EXCEPT !.play = IF x.draft = None THEN @ ELSE x.draft]
    BY <1>1 DEF Applied, x
  <2>2. Kept(x, Applied(i, e, a))
    BY <1>x, <2>1 DEF Kept, Incident
  <2> QED BY <1>1, <1>k, <2>2
<1>2. CASE e \in {"T04", "T14"}
  <2>1. Applied(i, e, a) = [x EXCEPT !.brief = a]
    BY <1>2 DEF Applied, x
  <2>2. a \in {"empty", "text", "degraded", "play"}
    BY <1>2 DEF Answers
  <2>3. Kept(x, Applied(i, e, a))
    BY <1>x, <2>1, <2>2 DEF Kept, Incident
  <2> QED BY <1>2, <1>k, <2>3
<1>3. CASE e = "T06"
  <2>1. Applied(i, e, a) = OpenWindow(x)
    BY <1>3 DEF Applied, x
  <2> QED BY <1>3, <1>k, <1>x, <2>1, WindowIs DEF Kept
<1>4. CASE e = "T08"
  <2>1. Applied(i, e, a) = PlayCheck(x, a)
    BY <1>4 DEF Applied, x
  <2>2. PICK r \in {"changed", "clean", "transient", "permanent"}, b \in BOOLEAN : a = <<r, b>>
    BY <1>4 DEF Answers
  <2> QED BY <1>4, <1>k, <1>x, <2>1, <2>2, PlayCheckIs DEF Kept
<1>5. CASE e \in {"T12", "T13"}
  <2> DEFINE y == [x EXCEPT !.playRuns = Up(@, PlayRunsTop)]
  <2>1. Applied(i, e, a) \in {y, OpenWindow(y)}
    BY <1>5 DEF Applied, x
  <2>2. Up(x.playRuns, PlayRunsTop) \in 0..PlayRunsTop
    BY <1>x, UpTo, TopIsNat DEF Incident
  <2>3. Kept(x, y)
    BY <1>x, <2>2 DEF Kept, Incident
  <2>4. Kept(x, OpenWindow(y))
    BY <2>3, WindowIs DEF Kept
  <2> QED BY <1>5, <1>k, <2>1, <2>3, <2>4
<1>6. CASE e = "T27"
  <2>1. Applied(i, e, a) = [x EXCEPT !.result = None]
    BY <1>6 DEF Applied, x
  <2>2. Kept(x, Applied(i, e, a))
    BY <1>x, <2>1 DEF Kept, Incident
  <2> QED BY <1>6, <1>k, <2>2
<1>7. CASE e = "T28"
  <2>1. Applied(i, e, a) = [x EXCEPT !.result = None, !.strikes = Up(@, 3), !.week = Up(@, 4)]
    BY <1>7 DEF Applied, x
  <2>2. Up(x.strikes, 3) \in 0..3 /\ Up(x.week, 4) \in 0..4
    BY <1>x, UpTo DEF Incident
  <2>3. Applied(i, e, a) \in Incident /\ Applied(i, e, a).state = x.state
    BY <1>x, <2>1, <2>2 DEF Incident
  <2> QED BY <1>7, <2>3 DEF Goal
<1>8. CASE e \in {"T29", "T32"}
  <2>1. Applied(i, e, a) = [x EXCEPT !.susp = "open"]
    BY <1>8 DEF Applied, x
  <2>2. Kept(x, Applied(i, e, a))
    BY <1>x, <2>1 DEF Kept, Incident
  <2> QED BY <1>8, <1>k, <2>2
<1>9. CASE e = "T34"
  <2>1. Applied(i, e, a) = [x EXCEPT !.strikes = 0, !.week = 0, !.susp = None]
    BY <1>9 DEF Applied, x
  <2>2. ASSUME NEW s \in 0..3, NEW w \in 0..4, NEW u \in {None, "open", "elapsed"}
        PROVE  LET y == [x EXCEPT !.strikes = s, !.week = w, !.susp = u]
               IN  y \in Incident /\ y.state = x.state /\ y.strikes = s
    BY <1>x DEF Incident
  <2>3. 0 \in 0..3 /\ 0 \in 0..4
    OBVIOUS
  <2>4. Applied(i, e, a) \in Incident /\ Applied(i, e, a).state = x.state /\ Applied(i, e, a).strikes = 0
    BY <2>1, <2>2, <2>3
  <2> QED BY <1>9, <2>4 DEF Goal
<1>10. CASE e \in {"T42", "T43"}
  <2>1. Applied(i, e, a) = [Outdated(x) EXCEPT !.reopens = Up(@, ReopenMax)]
    BY <1>10 DEF Applied, x
  <2>2. Up(Outdated(x).reopens, ReopenMax) \in 0..ReopenMax
    <3>1. Outdated(x).reopens \in 0..ReopenMax
      BY <1>x, WindowIs DEF Incident
    <3>2. ReopenMax \in Nat
      BY ConstAssumption
    <3> QED BY <3>1, <3>2, UpTo
  <2>3. Kept(x, Applied(i, e, a))
    BY <1>x, <2>1, <2>2, WindowIs DEF Kept, Incident
  <2> QED BY <1>10, <1>k, <2>3
<1>11. CASE e = "T46"
  <2>1. Applied(i, e, a) = [x EXCEPT !.state = "suppressed"]
    BY <1>11 DEF Applied, x
  <2>2. "suppressed" \in States
    BY DEF States
  <2>3. Applied(i, e, a) \in Incident /\ Applied(i, e, a).state = "suppressed" /\ Applied(i, e, a).strikes = x.strikes
    BY <1>x, <2>1, <2>2 DEF Incident
  <2> QED BY <1>11, <2>3 DEF Goal
<1>12. CASE e = "T48"
  <2>1. Applied(i, e, a) = [x EXCEPT !.folded = TRUE]
    BY <1>12 DEF Applied, x
  <2>2. Kept(x, Applied(i, e, a))
    BY <1>x, <2>1 DEF Kept, Incident
  <2> QED BY <1>12, <1>k, <2>2
<1>13. CASE e \notin {"T03", "T04", "T14", "T06", "T08", "T12", "T13", "T27", "T28", "T29", "T32", "T34", "T42", "T43", "T46", "T48"}
  <2>1. Applied(i, e, a) = x
    BY <1>13 DEF Applied, x
  <2> QED BY <1>13, <1>k, <1>x, <2>1 DEF Kept
<1> QED
  BY <1>1, <1>2, <1>3, <1>4, <1>5, <1>6, <1>7, <1>8, <1>9, <1>10, <1>11, <1>12, <1>13

-----------------------------------------------------------------------------
(* ------------------------------- attempts ----------------------------- *)

\* What an attempt leaves of incident i: itself but for its counters, or
\* quarantined.
Still(i, y) ==
  /\ y \in Incident
  /\ y.state \in {inc[i].state, "quarantined"}
  /\ y.strikes = inc[i].strikes

\* What row e may make of incident i: of the strikes T28 alone adds one and T34
\* clears them.
Apply(i, e, y) ==
  /\ y \in Incident
  /\ e \notin {"T28", "T34"} => y.strikes = inc[i].strikes
  /\ e = "T34" => y.strikes = 0

\* An attempt that does not carry its row: incident i stays as it is but for
\* its counters, or is quarantined.
Stays(i) ==
  /\ \E y : Still(i, y) /\ inc' = [inc EXCEPT ![i] = y]
  /\ UNCHANGED <<lease, used, spent>>

\* An attempt that applies row e from state `from`; only one whose record the
\* ledger refused leaves the state where it was.
Carries(i, e, from) ==
  /\ \E y : Apply(i, e, y) /\ inc' = [inc EXCEPT ![i] = y]
  /\ e \in LeaseEdges => AgentEntry(i, e) /\ LeaseFree
  /\ from \in Legal[e].from /\ ~(Legal[e].stage /\ kill)
  /\ \E y : used' = Charge(e, y)
  /\ lease' = LeaseAfter(i, e)
  /\ \/ inc'[i].state \in {inc[i].state, Legal[e].to} /\ Spend("fault")
     \/ inc'[i].state = Legal[e].to /\ UNCHANGED spent

\* A refused row, its lease attempt counted or not, leaves the incident still.
LEMMA RefusedIs ==
  ASSUME TypeOK, NEW i \in Inc, NEW e, NEW a, NEW b \in BOOLEAN
  PROVE  Still(i, Refusal(IF LeaseBusy(i, e, a) THEN Contended(inc[i]) ELSE inc[i], b))
<1>1. inc[i] \in Incident
  BY DEF TypeOK
<1> DEFINE y == IF LeaseBusy(i, e, a) THEN Contended(inc[i]) ELSE inc[i]
<1>2. y \in Incident /\ y.state = inc[i].state /\ y.strikes = inc[i].strikes
  BY <1>1, ContendedIs
<1> HIDE DEF y
<1>3. Still(i, Refusal(y, b))
  BY <1>2, RefusalIs DEF Still
<1> QED BY <1>3 DEF y

\* Advance has these two outcomes.
LEMMA AttemptIs ==
  ASSUME TypeOK, NEW i \in Inc, NEW e \in EdgeIds, NEW from, NEW a \in Answers(e),
         NEW ok \in BOOLEAN, Attempt(i, e, from, a, ok)
  PROVE  Stays(i) \/ Carries(i, e, from)
<1> DEFINE o == Outcome(i, e, from, a, ok)
           x == [Applied(i, e, a) EXCEPT !.tries = IF e \in LeaseEdges THEN 0 ELSE @]
           L == LeaseBusy(i, e, a)
<1>inc. inc[i] \in Incident /\ inc \in [Inc -> Incident]
  BY DEF TypeOK
<1>o. o \in {"illegal", "frozen", "refused", "failed", "accepted", "unrecorded"}
  BY DEF Outcome
<1>s. Still(i, inc[i]) /\ inc = [inc EXCEPT ![i] = inc[i]]
  BY <1>inc DEF Still
<1>a. /\ Advance(i, e, from, a, ok)
      /\ IF o = "unrecorded" THEN Spend("fault") ELSE ok /\ UNCHANGED spent
  BY DEF Attempt
<1>1. CASE o = "illegal"
  <2>1. inc' = [inc EXCEPT ![i] = Refusal(inc[i], TRUE)] /\ UNCHANGED <<lease, used, spent>>
    BY <1>1, <1>a, <1>inc DEF Advance
  <2>2. Still(i, Refusal(inc[i], TRUE))
    BY <1>inc, RefusalIs DEF Still
  <2> QED BY <2>1, <2>2 DEF Stays
<1>2. CASE o = "frozen"
  BY <1>2, <1>a, <1>s DEF Advance, Stays
<1>3. CASE o = "refused"
  <2> DEFINE y == Refusal(IF LeaseBusy(i, e, a) THEN Contended(inc[i]) ELSE inc[i], e \in IllegalGuards)
  <2>1. inc' = [inc EXCEPT ![i] = y] /\ UNCHANGED <<lease, used, spent>>
    BY <1>3, <1>a, <1>inc DEF Advance
  <2>2. Still(i, y)
    <3>1. (e \in IllegalGuards) \in BOOLEAN
      OBVIOUS
    <3> QED BY <3>1, RefusedIs
  <2> QED BY <2>1, <2>2 DEF Stays
<1>4. CASE o = "failed"
  BY <1>4, <1>a, <1>s DEF Advance, ladder, Stays
<1>5. CASE o \in {"accepted", "unrecorded"}
  <2>1. /\ Guard(i, e, a) /\ from \in Legal[e].from /\ ~(Legal[e].stage /\ kill)
        /\ ~(e \in {"T04", "T14"} /\ a = "error")
    BY <1>5 DEF Outcome
  <2>2. 0 \in 0..WaitAfter + 1
    BY ConstAssumption
  <2>3. Apply(i, e, x)
    BY <2>1, <2>2, AppliedIs DEF Apply, Incident
  <2>x. x.state \in {inc[i].state, Legal[e].to}
    BY <2>1, AppliedIs, EveryRow DEF Incident, RowOK
  <2>4. used' = Charge(e, x) /\ lease' = LeaseAfter(i, e)
    BY <1>5, <1>a DEF Advance
  <2>5. CASE o = "unrecorded"
    <3>1. inc' = [inc EXCEPT ![i] = x] /\ Spend("fault")
      BY <2>5, <1>a DEF Advance
    <3>2. inc'[i].state \in {inc[i].state, Legal[e].to}
      BY <1>inc, <2>x, <3>1
    <3> QED BY <2>1, <2>3, <2>4, <3>1, <3>2 DEF Carries, Guard
  <2>6. CASE o = "accepted"
    <3> DEFINE y == [x EXCEPT !.state = Legal[e].to, !.waiting = FALSE]
    <3>1. inc' = [inc EXCEPT ![i] = y] /\ UNCHANGED spent
      BY <2>6, <1>a DEF Advance
    <3>2. Legal[e].to \in States
      BY EveryRow DEF RowOK
    <3> HIDE DEF x
    <3>3. Apply(i, e, y) /\ y.state = Legal[e].to
      BY <2>3, <3>2 DEF Apply, Incident
    <3>4. inc'[i].state = Legal[e].to
      BY <1>inc, <3>1, <3>3
    <3> QED BY <2>1, <3>3, <2>4, <3>1, <3>4 DEF Carries, Guard
  <2> QED BY <1>5, <2>5, <2>6
<1> QED
  BY <1>o, <1>1, <1>2, <1>3, <1>4, <1>5


\* A row is charged to the agent budget exactly when it acquires the lease
\* (chargeLocked).
LEMMA ChargeIs ==
  ASSUME TypeOK, NEW e, NEW y
  PROVE  /\ Charge(e, y) \in [Classes -> Nat]
         /\ e \notin LeaseEdges => Charge(e, y)["agent"] = used["agent"]
         /\ e \in LeaseEdges => Charge(e, y)["agent"] = Up(used["agent"], Limit["agent"] + 1)
<1>1. \A c \in Classes : used[c] \in Nat /\ Limit[c] \in Nat
  BY ConstAssumption DEF TypeOK
<1>2. \A c \in Classes : Up(used[c], Limit[c] + 1) \in Nat
  BY <1>1 DEF Up
<1>3. used \in [Classes -> Nat] /\ "agent" \in Classes /\ "play" \in Classes /\ "research" \in Classes
  BY DEF TypeOK, Classes
<1>4. \A c \in Classes : [used EXCEPT ![c] = Up(@, Limit[c] + 1)] \in [Classes -> Nat]
  BY <1>2, <1>3
<1>5. CASE e \in LeaseEdges
  <2>1. Charge(e, y) = [used EXCEPT !["agent"] = Up(@, Limit["agent"] + 1)]
    BY <1>5 DEF Charge, LeaseEdges
  <2> QED BY <1>3, <1>4, <1>5, <2>1
<1>6. CASE e \notin LeaseEdges
  <2>1. Charge(e, y) \in {used, [used EXCEPT !["play"] = Up(@, Limit["play"] + 1)],
                          [used EXCEPT !["research"] = Up(@, Limit["research"] + 1)]}
    BY <1>6 DEF Charge
  <2>2. CASE Charge(e, y) = used
    BY <1>3, <1>6, <2>2
  <2>3. CASE Charge(e, y) = [used EXCEPT !["play"] = Up(@, Limit["play"] + 1)]
    BY <1>3, <1>4, <1>6, <2>3
  <2>4. CASE Charge(e, y) = [used EXCEPT !["research"] = Up(@, Limit["research"] + 1)]
    BY <1>3, <1>4, <1>6, <2>4
  <2> QED BY <2>1, <2>2, <2>3, <2>4
<1> QED BY <1>5, <1>6

\* The lease after a row is a lease.
LEMMA LeaseAfterIs ==
  ASSUME TypeOK, NEW i \in Inc, NEW e
  PROVE  LeaseAfter(i, e) \in [holder : Inc \cup {None}, owned : BOOLEAN, live : BOOLEAN]
BY DEF TypeOK, LeaseAfter, Released, NoLease

\* The environment's counters stay counters.
LEMMA SpendIs ==
  ASSUME TypeOK, NEW k \in EnvSteps, Spend(k)
  PROVE  spent' \in [EnvSteps -> Nat]
BY DEF TypeOK, Spend

\* The types of all an attempt writes, after it.
Ladder ==
  /\ inc' \in [Inc -> Incident]
  /\ pending' \in [Inc -> Row]
  /\ lease' \in [holder : Inc \cup {None}, owned : BOOLEAN, live : BOOLEAN]
  /\ used' \in [Classes -> Nat]
  /\ breaker' \in [Inc -> {"closed", "open", "lapsed", "half"}]
  /\ suppress' \in [Inc -> BOOLEAN]
  /\ spent' \in [EnvSteps -> Nat]

\* An attempt keeps the types of all it writes.
LEMMA AttemptTypes ==
  ASSUME TypeOK, NEW i \in Inc, NEW e \in EdgeIds, NEW from, NEW a \in Answers(e),
         NEW ok \in BOOLEAN, Attempt(i, e, from, a, ok)
  PROVE  Ladder
<1> DEFINE o == Outcome(i, e, from, a, ok)
<1>0. Stays(i) \/ Carries(i, e, from)
  BY AttemptIs
<1>1. inc' \in [Inc -> Incident]
  BY <1>0 DEF TypeOK, Still, Apply, Stays, Carries
<1>2. lease' \in [holder : Inc \cup {None}, owned : BOOLEAN, live : BOOLEAN]
  BY <1>0, LeaseAfterIs DEF TypeOK, Stays, Carries
<1>3. used' \in [Classes -> Nat]
  BY <1>0, ChargeIs DEF TypeOK, Stays, Carries
<1>4. spent' \in [EnvSteps -> Nat]
  <2>1. "fault" \in EnvSteps
    BY DEF EnvSteps
  <2> QED BY <1>0, <2>1, SpendIs DEF TypeOK, Stays, Carries
<1>a. Advance(i, e, from, a, ok)
  BY DEF Attempt
<1>5. pending' \in [Inc -> Row]
  <2>1. inc[i].state \in States /\ Legal[e].to \in States
    BY EveryRow DEF TypeOK, Incident, RowOK
  <2>2. [from |-> inc[i].state, to |-> Legal[e].to] \in Row
    BY <2>1 DEF Row
  <2>3. \/ UNCHANGED pending
        \/ pending' = [pending EXCEPT ![i] = [from |-> inc[i].state, to |-> Legal[e].to]]
    BY <1>a DEF Advance, ladder
  <2> QED BY <2>2, <2>3 DEF TypeOK
<1>6. breaker' \in [Inc -> {"closed", "open", "lapsed", "half"}]
  <2>1. \/ UNCHANGED breaker
        \/ breaker' = [breaker EXCEPT ![i] = IF e = "T48" /\ @ = "lapsed" THEN "half" ELSE @]
        \/ breaker' = [breaker EXCEPT ![i] = BreakerAfter(i, e)]
    BY <1>a DEF Advance, ladder
  <2>2. breaker[i] \in {"closed", "open", "lapsed", "half"}
    BY DEF TypeOK
  <2>3. BreakerAfter(i, e) \in {"closed", "open", "lapsed", "half"}
    BY <2>2 DEF BreakerAfter
  <2> QED BY <2>1, <2>2, <2>3 DEF TypeOK
<1>7. suppress' \in [Inc -> BOOLEAN]
  <2> DEFINE b == (o = "accepted" /\ Opens(e)) \/ (suppress[i] /\ e \notin {"T44", "T45"})
  <2>1. \/ UNCHANGED suppress
        \/ suppress' = [suppress EXCEPT ![i] = b]
    BY <1>a DEF Advance, ladder
  <2>2. b \in BOOLEAN
    OBVIOUS
  <2> HIDE DEF b
  <2> QED BY <2>1, <2>2 DEF TypeOK
<1> QED
  BY <1>1, <1>2, <1>3, <1>4, <1>5, <1>6, <1>7 DEF Ladder

-----------------------------------------------------------------------------
(* -------------------------------- steps ------------------------------- *)

\* A step no incident climbs by: states stay, or become quarantined, or go back to
\* recorded where the incident was over or quarantined; strikes do not rise.
Calm ==
  \A j \in Inc :
    /\ inc'[j].strikes <= inc[j].strikes
    /\ \/ inc'[j].state \in {inc[j].state, "quarantined"}
       \/ inc'[j].state = "recorded" /\ inc[j].state \in {"resolved", "escalated", "quarantined"}

\* Where a row comes from: a caller, the driver or a click takes it from the
\* incident's own state, the resume pass from the state it had read.
Driven(i, e, from) ==
  \/ e \in CallerEdges \cup DeskRows \cup {"T03", "T04", "T05"} /\ from = inc[i].state
  \/ resume[i].at = "advance"

\* The steps there are, as far as the theorems tell them apart.
Moves ==
  \/ Calm /\ UNCHANGED lease /\ used' \in {used, [c \in Classes |-> 0]}
  \/ Calm /\ UNCHANGED used /\ (LeaseFree \/ Spend("expire"))
  \/ \E i \in Inc, e \in EdgeIds : \E from : Carries(i, e, from) /\ Driven(i, e, from)

\* Writing one of these fields keeps the incident, its state and its strikes.
LEMMA SetField ==
  ASSUME NEW x \in Incident
  PROVE  /\ \A r \in {None, "passed", "failed", "invalid"}, w \in {None, "current", "old"} :
              Kept(x, [x EXCEPT !.evid = r, !.window = w])
         /\ \A r \in {None, "done", "failed"} : Kept(x, [x EXCEPT !.result = r])
         /\ \A n \in 0..4 : Kept(x, [x EXCEPT !.week = n])
         /\ \A u \in {None, "open", "elapsed"} : Kept(x, [x EXCEPT !.susp = u])
         /\ \A b \in BOOLEAN : Kept(x, [x EXCEPT !.folded = b])
         /\ \A n \in 0..WaitAfter + 1 : Kept(x, [x EXCEPT !.tries = n])
<1>1. \A r \in {None, "passed", "failed", "invalid"}, w \in {None, "current", "old"} :
        Kept(x, [x EXCEPT !.evid = r, !.window = w])
  BY DEF Kept, Incident
<1>2. \A r \in {None, "done", "failed"} : Kept(x, [x EXCEPT !.result = r])
  BY DEF Kept, Incident
<1>3. \A n \in 0..4 : Kept(x, [x EXCEPT !.week = n])
  BY DEF Kept, Incident
<1>4. \A u \in {None, "open", "elapsed"} : Kept(x, [x EXCEPT !.susp = u])
  BY DEF Kept, Incident
<1>5. \A b \in BOOLEAN : Kept(x, [x EXCEPT !.folded = b])
  BY DEF Kept, Incident
<1>6. \A n \in 0..WaitAfter + 1 : Kept(x, [x EXCEPT !.tries = n])
  BY DEF Kept, Incident
<1> QED BY <1>1, <1>2, <1>3, <1>4, <1>5, <1>6

\* Writing the state keeps the strikes.
LEMMA SetState ==
  ASSUME NEW x \in Incident, NEW s \in States
  PROVE  LET y == [x EXCEPT !.state = s] IN y \in Incident /\ y.state = s /\ y.strikes = x.strikes
BY DEF Incident

\* Writing the strikes keeps the state.
LEMMA SetStrikes ==
  ASSUME NEW x \in Incident, NEW n \in 0..3
  PROVE  LET y == [x EXCEPT !.strikes = n] IN y \in Incident /\ y.state = x.state /\ y.strikes = n
BY DEF Incident

\* Steps that leave the incidents alone are calm.
LEMMA CalmStays == TypeOK /\ UNCHANGED inc => Calm
BY DEF TypeOK, Calm, Incident

\* So is one that writes one incident within Calm's limits.
LEMMA CalmStep ==
  ASSUME TypeOK, NEW i \in Inc, NEW y \in Incident, inc' = [inc EXCEPT ![i] = y],
         y.strikes <= inc[i].strikes,
         \/ y.state \in {inc[i].state, "quarantined"}
         \/ y.state = "recorded" /\ inc[i].state \in {"resolved", "escalated", "quarantined"}
  PROVE  Calm /\ inc' \in [Inc -> Incident]
BY DEF TypeOK, Calm, Incident

\* So is an attempt that stays.
LEMMA StillIsCalm ==
  ASSUME TypeOK, NEW i \in Inc, NEW y, Still(i, y), inc' = [inc EXCEPT ![i] = y]
  PROVE  Calm /\ inc' \in [Inc -> Incident]
<1>1. y \in Incident /\ y.strikes <= inc[i].strikes /\ y.state \in {inc[i].state, "quarantined"}
  BY DEF Still, TypeOK, Incident
<1> QED BY <1>1, CalmStep

\* An attempt is one of Moves.
LEMMA AttemptMoves ==
  ASSUME TypeOK, NEW i \in Inc, NEW e \in EdgeIds, NEW from, NEW a \in Answers(e),
         NEW ok \in BOOLEAN, Attempt(i, e, from, a, ok),
         Driven(i, e, from)
  PROVE  Moves
<1>1. Stays(i) \/ Carries(i, e, from)
  BY AttemptIs
<1>2. CASE Stays(i)
  <2>1. PICK y : Still(i, y) /\ inc' = [inc EXCEPT ![i] = y]
    BY <1>2 DEF Stays
  <2>2. Calm
    BY <2>1, StillIsCalm
  <2> QED BY <1>2, <2>2 DEF Stays, Moves
<1>3. CASE Carries(i, e, from)
  BY <1>3 DEF Moves
<1> QED BY <1>1, <1>2, <1>3


\* A step that leaves incidents, lease and budgets alone is one of Moves.
LEMMA StillMoves == TypeOK /\ UNCHANGED <<inc, lease, used>> => Moves
BY CalmStays DEF Moves

\* The names the environment's counters go by.
LEMMA EnvStepsAre == /\ "kill" \in EnvSteps /\ "fault" \in EnvSteps /\ "trip" \in EnvSteps
  /\ "suppress" \in EnvSteps /\ "day" \in EnvSteps /\ "arrive" \in EnvSteps /\ "human" \in EnvSteps
  /\ "expire" \in EnvSteps /\ "age" \in EnvSteps /\ "call" \in EnvSteps /\ "verify" \in EnvSteps /\ "desk" \in EnvSteps
BY DEF EnvSteps

\* DriveStart keeps the types and is one of Moves.
LEMMA DriveStartStep == ASSUME TypeOK, DriveStart PROVE TypeOK' /\ Moves
<1>1. TypeOK'
  BY DEF TypeOK, DriveStart, ladder, NoDrive
<1> QED BY <1>1, StillMoves DEF DriveStart, ladder

\* DriveEnd keeps the types and is one of Moves.
LEMMA DriveEndStep == ASSUME TypeOK, DriveEnd PROVE TypeOK' /\ Moves
<1>1. TypeOK'
  BY DEF TypeOK, DriveEnd, ladder
<1> QED BY <1>1, StillMoves DEF DriveEnd, ladder

\* DriveRead keeps the types and is one of Moves.
LEMMA DriveReadStep == ASSUME TypeOK, NEW i \in Inc, DriveRead(i) PROVE TypeOK' /\ Moves
<1>1. TypeOK'
  BY DEF TypeOK, DriveRead, ladder
<1> QED BY <1>1, StillMoves DEF DriveRead, ladder

\* ResumeStart keeps the types and is one of Moves.
LEMMA ResumeStartStep == ASSUME TypeOK, ResumeStart PROVE TypeOK' /\ Moves
<1>1. resume' \in [Inc -> Item]
  <2>1. \A i \in Inc : inc[i].state \in States /\ pending[i].to \in States \cup {None}
    BY DEF TypeOK, Incident, Row
  <2>2. NoItem \in Item
    BY DEF NoItem, Item
  <2>3. \A i \in Inc : [from |-> inc[i].state, to |-> pending[i].to, at |-> "wait"] \in Item
    BY <2>1 DEF Item
  <2> QED BY <2>2, <2>3 DEF ResumeStart
<1>2. TypeOK'
  BY <1>1 DEF TypeOK, ResumeStart, ladder
<1> QED BY <1>2, StillMoves DEF ResumeStart, ladder

\* ResumeCheck keeps the types and is one of Moves.
LEMMA ResumeCheckStep == ASSUME TypeOK, NEW i \in Inc, ResumeCheck(i) PROVE TypeOK' /\ Moves
<1>1. resume' \in [Inc -> Item]
  <2>1. NoItem \in Item
    BY DEF NoItem, Item
  <2>2. resume[i] \in Item
    BY DEF TypeOK
  <2>3. [resume[i] EXCEPT !.at = "advance"] \in Item
    BY <2>2 DEF Item
  <2> QED BY <2>1, <2>3 DEF ResumeCheck, TypeOK
<1>2. TypeOK'
  BY <1>1 DEF TypeOK, ResumeCheck, ladder
<1> QED BY <1>2, StillMoves DEF ResumeCheck, ladder

\* ResumeClear keeps the types and is one of Moves.
LEMMA ResumeClearStep == ASSUME TypeOK, NEW i \in Inc, ResumeClear(i) PROVE TypeOK' /\ Moves
<1>1. NoItem \in Item /\ NoRow \in Row
  BY DEF NoItem, Item, NoRow, Row
<1>2. TypeOK'
  BY <1>1 DEF TypeOK, ResumeClear
<1> QED BY <1>2, StillMoves DEF ResumeClear

\* SetKillSwitch keeps the types and is one of Moves.
LEMMA SetKillSwitchStep == ASSUME TypeOK, SetKillSwitch PROVE TypeOK' /\ Moves
<1>1. spent' \in [EnvSteps -> Nat]
  BY SpendIs, EnvStepsAre DEF SetKillSwitch
<1>2. TypeOK'
  BY <1>1 DEF TypeOK, SetKillSwitch, ladder, worker
<1> QED BY <1>2, StillMoves DEF SetKillSwitch, ladder

\* DeskRead keeps the types and is one of Moves.
LEMMA DeskReadStep == ASSUME TypeOK, NEW i \in Inc, DeskRead(i) PROVE TypeOK' /\ Moves
<1>1. spent' \in [EnvSteps -> Nat]
  BY SpendIs, EnvStepsAre DEF DeskRead
<1>2. \A s : AckEdge(s) \in DeskRows \cup {NoEdge} /\ CloseEdge(s) \in DeskRows \cup {NoEdge}
  BY DEF AckEdge, CloseEdge, DeskRows
<1>3. TypeOK'
  BY <1>1, <1>2 DEF TypeOK, DeskRead, ladder, worker
<1> QED BY <1>3, StillMoves DEF DeskRead, ladder

\* CallStart keeps the types and is one of Moves.
LEMMA CallStartStep == ASSUME TypeOK, NEW i \in Inc, CallStart(i) PROVE TypeOK' /\ Moves
<1>1. spent' \in [EnvSteps -> Nat]
  BY SpendIs, EnvStepsAre DEF CallStart
<1>2. flight' \in [Inc -> 0..MaxFlight]
  BY ConstAssumption DEF TypeOK, CallStart
<1>3. TypeOK'
  BY <1>1, <1>2 DEF TypeOK, CallStart, ladder, worker
<1> QED BY <1>3, StillMoves DEF CallStart, ladder

\* Trip keeps the types and is one of Moves.
LEMMA TripStep == ASSUME TypeOK, NEW i \in Inc, Trip(i) PROVE TypeOK' /\ Moves
<1>1. spent' \in [EnvSteps -> Nat]
  BY SpendIs, EnvStepsAre DEF Trip
<1>2. TypeOK'
  BY <1>1 DEF TypeOK, Trip, worker
<1> QED BY <1>2, StillMoves DEF Trip

\* Lapse keeps the types and is one of Moves.
LEMMA LapseStep == ASSUME TypeOK, NEW i \in Inc, Lapse(i) PROVE TypeOK' /\ Moves
<1>1. TypeOK'
  BY DEF TypeOK, Lapse, worker
<1> QED BY <1>1, StillMoves DEF Lapse

\* A calm step that leaves lease and budgets alone is one of Moves.
LEMMA CalmMoves == ASSUME Calm, UNCHANGED <<lease, used>> PROVE Moves
BY DEF Moves

\* Verify keeps the types and is one of Moves.
LEMMA VerifyStep == ASSUME TypeOK, NEW i \in Inc, Verify(i) PROVE TypeOK' /\ Moves
<1>1. spent' \in [EnvSteps -> Nat]
  BY SpendIs, EnvStepsAre DEF Verify
<1>2. PICK w \in {inc[i].window, "current"} \ {None}, r \in {"passed", "failed", "invalid"} :
        inc' = [inc EXCEPT ![i].evid = r, ![i].window = w]
  BY DEF Verify
<1> DEFINE y == [inc[i] EXCEPT !.evid = r, !.window = w]
<1>3. inc' = [inc EXCEPT ![i] = y]
  BY <1>2 DEF TypeOK
<1>i. inc[i] \in Incident /\ inc[i].window \in {None, "current", "old"}
  BY DEF TypeOK, Incident
<1>4. y \in Incident /\ y.state = inc[i].state /\ y.strikes = inc[i].strikes
  <2>1. r \in {None, "passed", "failed", "invalid"} /\ w \in {None, "current", "old"}
    BY <1>2, <1>i
  <2>2. Kept(inc[i], y)
    BY <1>i, <2>1, SetField
  <2> QED BY <2>2 DEF Kept
<1> HIDE DEF y
<1>5. Calm /\ inc' \in [Inc -> Incident]
  BY <1>3, <1>4, StillIsCalm DEF Still
<1>6. TypeOK'
  BY <1>1, <1>5 DEF TypeOK, Verify, worker
<1> QED BY <1>5, <1>6, CalmMoves DEF Verify

\* CallDone keeps the types and is one of Moves.
LEMMA CallDoneStep == ASSUME TypeOK, NEW i \in Inc, CallDone(i) PROVE TypeOK' /\ Moves
<1>1. PICK r \in {"done", "failed", None} :
        /\ IF r = None THEN Spend("fault") ELSE UNCHANGED spent
        /\ inc' = [inc EXCEPT ![i] = Outdated([inc[i] EXCEPT !.result = r])]
  BY DEF CallDone, TypeOK
<1>2. spent' \in [EnvSteps -> Nat]
  BY <1>1, SpendIs, EnvStepsAre DEF TypeOK
<1> DEFINE y == [inc[i] EXCEPT !.result = r]
<1>i. inc[i] \in Incident
  BY DEF TypeOK
<1>3. y \in Incident /\ y.state = inc[i].state /\ y.strikes = inc[i].strikes
  <2>1. Kept(inc[i], y)
    BY <1>1, <1>i, SetField
  <2> QED BY <2>1 DEF Kept
<1> HIDE DEF y
<1>4. Still(i, Outdated(y))
  BY <1>3, WindowIs DEF Still
<1>5. Calm /\ inc' \in [Inc -> Incident]
  BY <1>1, <1>4, StillIsCalm DEF y
<1>6. flight' \in [Inc -> 0..MaxFlight]
  BY ConstAssumption DEF TypeOK, CallDone
<1>7. TypeOK'
  BY <1>2, <1>5, <1>6 DEF TypeOK, CallDone, worker
<1> QED BY <1>5, <1>7, CalmMoves DEF CallDone

\* Arrive keeps the types and is one of Moves.
LEMMA ArriveStep == ASSUME TypeOK, NEW i \in Inc, Arrive(i) PROVE TypeOK' /\ Moves
<1> DEFINE x == inc[i]
           over == x.state \in {"resolved", "escalated"}
           y == [Outdated(x) EXCEPT !.state = "recorded", !.reopens = @ + 1]
           z == [x EXCEPT !.folded = TRUE]
<1>1. spent' \in [EnvSteps -> Nat]
  BY SpendIs, EnvStepsAre DEF Arrive
<1>2. breaker' \in [Inc -> {"closed", "open", "lapsed", "half"}]
  BY DEF Arrive, TypeOK
<1>3. x \in Incident
  BY DEF TypeOK
<1>4. /\ z \in Incident /\ z.state = x.state /\ z.strikes = x.strikes
  BY <1>3 DEF Incident
<1>5. ASSUME over, x.reopens < ReopenMax
      PROVE  y \in Incident /\ y.state = "recorded" /\ y.strikes = x.strikes
  <2>1. Outdated(x) \in Incident /\ Outdated(x).strikes = x.strikes /\ Outdated(x).reopens = x.reopens
    BY <1>3, WindowIs DEF Outdated, Incident
  <2>2. x.reopens + 1 \in 0..ReopenMax /\ "recorded" \in States
    BY <1>3, <1>5, ConstAssumption DEF Incident, States
  <2> QED BY <2>1, <2>2 DEF Incident
<1>6. inc' \in {[inc EXCEPT ![i] = z], [inc EXCEPT ![i] = x]}
        \/ (over /\ x.reopens < ReopenMax /\ inc' = [inc EXCEPT ![i] = y])
  BY DEF Arrive, TypeOK
<1>7. Calm /\ inc' \in [Inc -> Incident]
  <2>1. Still(i, z) /\ Still(i, x)
    BY <1>3, <1>4 DEF Still
  <2>2. CASE inc' \in {[inc EXCEPT ![i] = z], [inc EXCEPT ![i] = x]}
    <3> HIDE DEF x, z
    <3> QED BY <2>1, <2>2, StillIsCalm
  <2>3. CASE over /\ x.reopens < ReopenMax /\ inc' = [inc EXCEPT ![i] = y]
    <3>1. y \in Incident /\ y.state = "recorded" /\ y.strikes <= x.strikes
      BY <1>3, <1>5, <2>3 DEF Incident
    <3>2. inc[i].state \in {"resolved", "escalated"}
      BY <2>3
    <3> HIDE DEF y
    <3> QED BY <2>3, <3>1, <3>2, CalmStep
  <2> QED BY <1>6, <2>2, <2>3
<1>8. TypeOK'
  BY <1>1, <1>2, <1>7 DEF TypeOK, Arrive, worker
<1> QED BY <1>7, <1>8, CalmMoves DEF Arrive

\* Quarantine and Unquarantine keep the types and each is one of Moves.
LEMMA QuarantineStep == ASSUME TypeOK, NEW i \in Inc, Quarantine(i) \/ Unquarantine(i) PROVE TypeOK' /\ Moves
<1>1. spent' \in [EnvSteps -> Nat]
  BY SpendIs, EnvStepsAre DEF Quarantine, Unquarantine
<1>2. PICK s \in {"recorded", "quarantined"} :
        inc' = [inc EXCEPT ![i] = [inc[i] EXCEPT !.state = s]] /\ (s = "recorded" => inc[i].state = "quarantined")
  BY DEF TypeOK, Quarantine, Unquarantine
<1> DEFINE y == [inc[i] EXCEPT !.state = s]
<1>i. inc[i] \in Incident /\ inc[i].strikes \in 0..3 /\ s \in States
  BY DEF TypeOK, Incident, States
<1>3. y \in Incident /\ y.state = s /\ y.strikes <= inc[i].strikes
  BY <1>i, SetState
<1> HIDE DEF y
<1>4. Calm /\ inc' \in [Inc -> Incident]
  BY <1>2, <1>3, CalmStep DEF y
<1>5. TypeOK'
  BY <1>1, <1>4 DEF TypeOK, Quarantine, Unquarantine, worker
<1> QED BY <1>4, <1>5, CalmMoves DEF Quarantine, Unquarantine

\* Ages keeps the types and is one of Moves.
LEMMA AgesStep == ASSUME TypeOK, NEW i \in Inc, Ages(i) PROVE TypeOK' /\ Moves
<1>1. spent' \in [EnvSteps -> Nat]
  BY SpendIs, EnvStepsAre DEF Ages
<1>2. inc[i] \in Incident /\ inc[i].strikes \in 0..3 /\ inc[i].week \in 0..4
  BY DEF TypeOK, Incident
<1>u. ASSUME NEW y, inc' = [inc EXCEPT ![i] = y], Kept(inc[i], y) \/
                 (y \in Incident /\ y.state = inc[i].state /\ y.strikes = inc[i].strikes - 1)
      PROVE  Calm /\ inc' \in [Inc -> Incident]
  <2>1. y \in Incident /\ y.state = inc[i].state /\ y.strikes <= inc[i].strikes
    BY <1>2, <1>u DEF Kept
  <2> QED BY <1>u, <2>1, CalmStep
<1>4. Calm /\ inc' \in [Inc -> Incident]
  <2>1. CASE inc[i].strikes > 0 /\ inc' = [inc EXCEPT ![i].strikes = @ - 1]
    <3>1. inc[i].strikes - 1 \in 0..3
      BY <1>2, <2>1
    <3>2. inc' = [inc EXCEPT ![i] = [inc[i] EXCEPT !.strikes = inc[i].strikes - 1]]
      BY <2>1 DEF TypeOK
    <3> QED BY <1>2, <1>u, <3>1, <3>2, SetStrikes
  <2>2. CASE inc[i].week > inc[i].strikes /\ inc' = [inc EXCEPT ![i].week = @ - 1]
    <3>1. inc[i].week - 1 \in 0..4
      BY <1>2, <2>2
    <3>2. inc' = [inc EXCEPT ![i] = [inc[i] EXCEPT !.week = inc[i].week - 1]]
      BY <2>2 DEF TypeOK
    <3> QED BY <1>2, <1>u, <3>1, <3>2, SetField
  <2>3. CASE inc' = [inc EXCEPT ![i].susp = "elapsed"]
    <3>1. inc' = [inc EXCEPT ![i] = [inc[i] EXCEPT !.susp = "elapsed"]]
      BY <2>3 DEF TypeOK
    <3> QED BY <1>2, <1>u, <3>1, SetField
  <2> QED BY <2>1, <2>2, <2>3 DEF Ages
<1>5. TypeOK'
  BY <1>1, <1>4 DEF TypeOK, Ages, worker
<1> QED BY <1>4, <1>5, CalmMoves DEF Ages

\* LeaseExpires keeps the types and is one of Moves.
LEMMA LeaseExpiresStep == ASSUME TypeOK, LeaseExpires PROVE TypeOK' /\ Moves
<1>1. spent' \in [EnvSteps -> Nat]
  BY SpendIs, EnvStepsAre DEF LeaseExpires
<1>2. lease' \in [holder : Inc \cup {None}, owned : BOOLEAN, live : BOOLEAN]
  BY DEF TypeOK, LeaseExpires
<1>3. TypeOK'
  BY <1>1, <1>2 DEF TypeOK, LeaseExpires, worker
<1> QED BY <1>3, CalmStays DEF LeaseExpires, Moves

\* NewDay keeps the types and is one of Moves.
LEMMA NewDayStep == ASSUME TypeOK, NewDay PROVE TypeOK' /\ Moves
<1>1. spent' \in [EnvSteps -> Nat]
  BY SpendIs, EnvStepsAre DEF NewDay
<1>2. TypeOK'
  BY <1>1 DEF TypeOK, NewDay, worker
<1> QED BY <1>2, CalmStays DEF NewDay, Moves

\* Caller keeps the types and is one of Moves.
LEMMA CallerStep == ASSUME TypeOK, NEW i \in Inc, NEW e \in CallerEdges, Caller(i, e) PROVE TypeOK' /\ Moves
<1>1. e \in EdgeIds
  BY ConstAssumption
<1>2. PICK a \in Answers(e), ok \in BOOLEAN : Attempt(i, e, inc[i].state, a, ok)
  BY DEF Caller
<1>3. Ladder /\ Moves
  BY <1>1, <1>2, AttemptTypes, AttemptMoves DEF Driven
<1>4. TypeOK'
  BY <1>3 DEF TypeOK, Ladder, Caller, worker
<1> QED BY <1>3, <1>4

\* DeskStep keeps the types and is one of Moves.
LEMMA DeskStepStep == ASSUME TypeOK, NEW i \in Inc, DeskStep(i) PROVE TypeOK' /\ Moves
<1> DEFINE e == desk[i]
<1>1. e \in DeskRows
  BY DEF TypeOK, DeskStep
<1>2. e \in EdgeIds
  BY <1>1, SomeEdges
<1>3. None \in Answers(e)
  BY <1>1 DEF DeskRows, Answers
<1>4. PICK ok \in BOOLEAN : Attempt(i, e, inc[i].state, None, ok)
  BY DEF DeskStep
<1> HIDE DEF e
<1>5. Ladder /\ Moves
  BY <1>1, <1>2, <1>3, <1>4, AttemptTypes, AttemptMoves DEF Driven
<1>6. TypeOK'
  BY <1>5 DEF TypeOK, Ladder, DeskStep, worker
<1> QED BY <1>5, <1>6

\* DriveStep keeps the types and is one of Moves.
LEMMA DriveStepStep == ASSUME TypeOK, NEW i \in Inc, DriveStep(i) PROVE TypeOK' /\ Moves
<1> DEFINE e == RungSteps[drv.rung]
<1>r. drv \in [todo : SUBSET Inc, at : Inc \cup {None}, rung : 1..3] /\ drv.rung \in 1..3
  BY DEF TypeOK
<1>e. e \in EdgeIds /\ e \in {"T03", "T04", "T05"}
  <2>1. e \in {"T03", "T04", "T05"}
    BY <1>r DEF RungSteps
  <2> QED BY <2>1, SomeEdges
<1>d. drv' \in [todo : SUBSET Inc, at : Inc \cup {None}, rung : 1..3]
  <2>1. drv' \in {NextRung, [drv EXCEPT !.at = None]}
    BY DEF DriveStep
  <2>2. NextRung \in [todo : SUBSET Inc, at : Inc \cup {None}, rung : 1..3]
    <3>1. CASE drv.rung = 3
      BY <1>r, <3>1 DEF NextRung
    <3>2. CASE drv.rung # 3
      <4>1. drv.rung + 1 \in 1..3
        BY <1>r, <3>2
      <4> QED BY <1>r, <3>2, <4>1 DEF NextRung
    <3> QED BY <3>1, <3>2
  <2>3. [drv EXCEPT !.at = None] \in [todo : SUBSET Inc, at : Inc \cup {None}, rung : 1..3]
    BY <1>r
  <2> QED BY <2>1, <2>2, <2>3
<1>1. CASE UNCHANGED <<ladder, spent>>
  <2>1. TypeOK'
    BY <1>1, <1>d DEF TypeOK, ladder, DriveStep
  <2> QED BY <1>1, <2>1, StillMoves DEF ladder
<1>2. CASE \E a \in Answers(e), ok \in BOOLEAN : Attempt(i, e, inc[i].state, a, ok)
  <2> HIDE DEF e
  <2>1. PICK a \in Answers(e), ok \in BOOLEAN : Attempt(i, e, inc[i].state, a, ok)
    BY <1>2
  <2>2. Ladder /\ Moves
    BY <1>e, <2>1, AttemptTypes, AttemptMoves DEF Driven
  <2>3. TypeOK'
    BY <1>d, <2>2 DEF TypeOK, Ladder, DriveStep
  <2> QED BY <2>2, <2>3
<1> QED BY <1>1, <1>2 DEF DriveStep

\* ResumeStep keeps the types and is one of Moves.
LEMMA ResumeStepStep == ASSUME TypeOK, NEW i \in Inc, ResumeStep(i) PROVE TypeOK' /\ Moves
<1> DEFINE p == resume[i]
           Done == UNCHANGED <<kill, tick, drv, flight, desk>> /\ resume' \in [Inc -> Item]
<1>p. p \in Item /\ p.at = "advance"
  BY DEF TypeOK, ResumeStep
<1>r. Done
  <2>1. [p EXCEPT !.at = "clear"] \in Item /\ NoItem \in Item
    BY <1>p DEF Item, NoItem
  <2>2. \/ resume' = [resume EXCEPT ![i] = NoItem]
        \/ resume' = [resume EXCEPT ![i] = [p EXCEPT !.at = "clear"]]
    BY DEF ResumeStep, TypeOK
  <2> QED BY <2>1, <2>2 DEF TypeOK, ResumeStep
<1>i. inc[i] \in Incident
  BY DEF TypeOK
<1>c. \/ Unresolved(i, inc[i])
      \/ \E e \in Matches(p) : \E a : Unresolved(i, IF LeaseBusy(i, e, a) THEN Contended(inc[i]) ELSE inc[i])
      \/ LeaseFree /\ LeaseTaken(i, p)
      \/ \E e \in Matches(p), ok \in BOOLEAN : \E a \in Answers(e) : Attempt(i, e, p.from, a, ok)
  BY DEF ResumeStep, Guard
<1> HIDE DEF p
<1>1. ASSUME NEW x, Unresolved(i, x), Still(i, Refusal(x, TRUE)) PROVE TypeOK' /\ Moves
  <2>1. Calm /\ inc' \in [Inc -> Incident]
    BY <1>1, StillIsCalm DEF Unresolved
  <2>2. TypeOK'
    BY <1>1, <1>r, <2>1 DEF TypeOK, Unresolved
  <2> QED BY <1>1, <2>1, <2>2, CalmMoves DEF Unresolved
<1>2. CASE Unresolved(i, inc[i])
  BY <1>1, <1>2, <1>i, RefusalIs DEF Still
<1>3. CASE \E e \in Matches(p) : \E a : Unresolved(i, IF LeaseBusy(i, e, a) THEN Contended(inc[i]) ELSE inc[i])
  <2>0. PICK e \in Matches(p) : \E a : Unresolved(i, IF LeaseBusy(i, e, a) THEN Contended(inc[i]) ELSE inc[i])
    BY <1>3
  <2>1. PICK a : Unresolved(i, IF LeaseBusy(i, e, a) THEN Contended(inc[i]) ELSE inc[i])
    BY <2>0
  <2>2. Still(i, Refusal(IF LeaseBusy(i, e, a) THEN Contended(inc[i]) ELSE inc[i], TRUE))
    BY RefusedIs
  <2> QED BY <1>1, <2>1, <2>2
<1>4. CASE LeaseFree /\ LeaseTaken(i, p)
  <2> DEFINE y == [inc[i] EXCEPT !.tries = 0]
  <2>1. 0 \in 0..WaitAfter + 1
    BY ConstAssumption
  <2>2. Kept(inc[i], y)
    BY <1>i, <2>1, SetField
  <2>0. inc' = [inc EXCEPT ![i] = y] \/ inc' = [inc EXCEPT ![i] = Contended(y)]
    BY <1>4 DEF LeaseTaken, TypeOK
  <2> HIDE DEF y
  <2>3. Still(i, y) /\ Still(i, Contended(y))
    BY <2>2, ContendedIs DEF Kept, Still
  <2>4. Calm /\ inc' \in [Inc -> Incident]
    BY <2>0, <2>3, StillIsCalm
  <2>5. pending' \in [Inc -> Row]
    <3>1. inc[i].state \in States /\ p.to \in States \cup {None}
      BY <1>i, <1>p DEF Incident, Item
    <3>2. [from |-> inc[i].state, to |-> p.to] \in Row
      BY <3>1 DEF Row
    <3> QED BY <1>4, <3>2 DEF TypeOK, LeaseTaken
  <2>6. TypeOK'
    BY <1>4, <1>r, <2>4, <2>5 DEF TypeOK, LeaseTaken
  <2> QED BY <1>4, <2>4, <2>6 DEF Moves, LeaseTaken
<1>5. CASE \E e \in Matches(p), ok \in BOOLEAN : \E a \in Answers(e) : Attempt(i, e, p.from, a, ok)
  <2>1. PICK e \in Matches(p), ok \in BOOLEAN : \E a \in Answers(e) : Attempt(i, e, p.from, a, ok)
    BY <1>5
  <2>2. PICK a \in Answers(e) : Attempt(i, e, p.from, a, ok)
    BY <2>1
  <2>3. e \in EdgeIds /\ resume[i].at = "advance"
    BY <1>p DEF Matches, p
  <2>4. Ladder /\ Moves
    BY <2>1, <2>2, <2>3, AttemptTypes, AttemptMoves DEF Driven
  <2>5. TypeOK'
    BY <1>r, <2>4 DEF TypeOK, Ladder
  <2> QED BY <2>4, <2>5
<1> QED
  BY <1>c, <1>2, <1>3, <1>4, <1>5

\* Every step keeps the types and is one of Moves.
LEMMA NextMoves == ASSUME TypeOK, Next PROVE TypeOK' /\ Moves
<1>1. CASE \E i \in Inc, e \in CallerEdges : Caller(i, e)
  BY <1>1, CallerStep
<1>2. CASE Worker
  BY <1>2, DriveStartStep, DriveEndStep, ResumeStartStep, DriveReadStep, DriveStepStep,
     ResumeCheckStep, ResumeStepStep, ResumeClearStep DEF Worker
<1>3. CASE SetKillSwitch \/ LeaseExpires \/ NewDay
  BY <1>3, SetKillSwitchStep, LeaseExpiresStep, NewDayStep
<1>4. CASE \E i \in Inc : \/ DeskRead(i) \/ DeskStep(i) \/ Verify(i) \/ CallStart(i) \/ CallDone(i) \/ Arrive(i)
                          \/ Quarantine(i) \/ Unquarantine(i) \/ Trip(i) \/ Lapse(i) \/ Ages(i)
  BY <1>4, DeskReadStep, DeskStepStep, VerifyStep, CallStartStep, CallDoneStep, ArriveStep,
     QuarantineStep, TripStep, LapseStep, AgesStep
<1> QED BY <1>1, <1>2, <1>3, <1>4 DEF Next

-----------------------------------------------------------------------------
(* ------------------------------ the theorems -------------------------- *)

\* The types hold at start.
LEMMA InitTypes == Init => TypeOK
<1> SUFFICES ASSUME Init PROVE TypeOK
  OBVIOUS
<1>1. inc \in [Inc -> Incident]
  <2>1. \A c \in Ceilings, d \in Drafts : NewIncident(c, d) \in Incident
    <3>1. 0 \in 0..PlayRunsTop /\ 0 \in 0..3 /\ 0 \in 0..4 /\ 0 \in 0..ReopenMax /\ 0 \in 0..WaitAfter + 1
      BY ConstAssumption DEF PlayRunsTop
    <3>2. "recorded" \in States
      BY DEF States
    <3> QED BY <3>1, <3>2 DEF NewIncident, Incident
  <2> QED BY <2>1 DEF Init
<1>2. NoRow \in Row /\ NoItem \in Item
  BY DEF NoRow, Row, NoItem, Item
<1>3. flight \in [Inc -> 0..MaxFlight]
  BY ConstAssumption DEF Init
<1>4. /\ drv \in [todo : SUBSET Inc, at : Inc \cup {None}, rung : 1..3]
      /\ lease \in [holder : Inc \cup {None}, owned : BOOLEAN, live : BOOLEAN]
  BY DEF Init, NoDrive, NoLease
<1>5. /\ kill \in BOOLEAN
      /\ pending \in [Inc -> Row]
      /\ tick \in {"resume", "drive", "driving"}
      /\ resume \in [Inc -> Item]
  BY <1>2 DEF Init
<1>6. /\ used \in [Classes -> Nat]
      /\ desk \in [Inc -> DeskRows \cup {NoEdge}]
      /\ breaker \in [Inc -> {"closed", "open", "lapsed", "half"}]
      /\ suppress \in [Inc -> BOOLEAN]
      /\ spent \in [EnvSteps -> Nat]
  BY DEF Init
<1> QED BY <1>1, <1>3, <1>4, <1>5, <1>6 DEF TypeOK

\* Every step keeps the types.
LEMMA StepTypes == TypeOK /\ [Next]_vars => TypeOK'
<1>1. TypeOK /\ UNCHANGED vars => TypeOK'
  BY DEF TypeOK, vars
<1> QED BY <1>1, NextMoves

\* The ladder's maps keep their types in every behaviour, for any number of
\* incidents and any limits: counters stay below their caps, a click drives one of
\* its four rows, and the driver never steps past its last rung.
THEOREM TypeCorrect == Spec => []TypeOK
BY InitTypes, StepTypes, PTL DEF Spec

\* Stuttering is calm.
LEMMA VarsMoves == TypeOK /\ UNCHANGED vars => Moves
BY CalmStays DEF Moves, vars

\* Every step, stuttering ones too, is one of Moves.
LEMMA StepMoves == TypeOK /\ [Next]_vars => Moves
BY NextMoves, VarsMoves

\* agent_runs_per_day is never exceeded: the row charged to the agent budget is
\* the row whose guard found some of it left, under one hold of the lock, whoever
\* drives it (guardAgentEntry, chargeLocked).
THEOREM BudgetHolds == Spec => []AgentBudget
<1>1. Init => AgentBudget
  BY ConstAssumption DEF Init, AgentBudget, Classes
<1>2. TypeOK /\ AgentBudget /\ [Next]_vars => AgentBudget'
  <2> SUFFICES ASSUME TypeOK, AgentBudget, [Next]_vars PROVE AgentBudget'
    OBVIOUS
  <2>t. used["agent"] \in Nat /\ Limit["agent"] \in Nat /\ "agent" \in Classes
    BY ConstAssumption DEF TypeOK, Classes
  <2>m. Moves
    BY StepMoves
  <2>1. CASE used' \in {used, [c \in Classes |-> 0]}
    BY <2>t, <2>1 DEF AgentBudget
  <2>2. CASE \E i \in Inc, e \in EdgeIds : \E from : Carries(i, e, from)
    <3>0. PICK i \in Inc, e \in EdgeIds : \E from : Carries(i, e, from)
      BY <2>2
    <3>1. PICK from : Carries(i, e, from)
      BY <3>0
    <3>2. PICK y : used' = Charge(e, y)
      BY <3>0, <3>1 DEF Carries
    <3>3. CASE e \notin LeaseEdges
      BY <3>2, <3>3, ChargeIs DEF AgentBudget
    <3>4. CASE e \in LeaseEdges
      <4>1. used'["agent"] = Up(used["agent"], Limit["agent"] + 1)
        BY <3>2, <3>4, ChargeIs
      <4>2. Limit["agent"] = 0 \/ used["agent"] < Limit["agent"]
        BY <3>0, <3>1, <3>4 DEF Carries, AgentEntry, Left
      <4> QED BY <2>t, <4>1, <4>2 DEF AgentBudget, Up
    <3> QED BY <3>3, <3>4
  <2> QED BY <2>m, <2>1, <2>2 DEF Moves
<1> QED BY <1>1, <1>2, TypeCorrect, PTL DEF Spec

\* Under the kill-switch no incident enters a working state, whatever advance was
\* under way when the switch was set: every row into work is a stage entry, which
\* Advance freezes (Advance, INV-3).
THEOREM KillFreezes == Spec => KillFreezesWork
<1>1. TypeOK /\ [Next]_vars =>
        [kill => \A i \in Inc : inc'[i].state \in WorkStates => inc'[i].state = inc[i].state]_vars
  <2> SUFFICES ASSUME TypeOK, [Next]_vars, kill, NEW j \in Inc, inc'[j].state \in WorkStates
               PROVE  inc'[j].state = inc[j].state
    OBVIOUS
  <2>1. CASE Calm
    BY <2>1 DEF Calm, WorkStates
  <2>2. CASE \E i \in Inc, e \in EdgeIds : \E from : Carries(i, e, from)
    <3>0. PICK i \in Inc, e \in EdgeIds : \E from : Carries(i, e, from)
      BY <2>2
    <3>1. PICK from : Carries(i, e, from)
      BY <3>0
    <3>2. CASE i # j
      BY <3>0, <3>1, <3>2 DEF Carries, TypeOK
    <3>3. CASE i = j
      <4>1. ~Legal[e].stage
        BY <3>0, <3>1 DEF Carries
      <4>2. Legal[e].to \notin WorkStates
        BY <4>1, EveryRow DEF RowOK
      <4>3. inc'[j].state \in {inc[j].state, Legal[e].to}
        BY <3>0, <3>1, <3>3 DEF Carries
      <4> QED BY <4>2, <4>3 DEF WorkStates
    <3> QED BY <3>2, <3>3
  <2> QED BY <2>1, <2>2, StepMoves DEF Moves
<1> QED BY <1>1, TypeCorrect, PTL DEF Spec, KillFreezesWork

\* What the environment may do no time it never does.
LEMMA NoFaults ==
  ASSUME TypeOK, NEW k \in EnvSteps, MaxSpent[k] = 0
  PROVE  ~Spend(k)
BY DEF TypeOK, Spend, Can

\* While the ledger accepts every record, no incident with two strikes is in
\* agent:running: the rows into it test the strikes or clear them, and the row
\* that adds one leaves the state (guardAgentEntry, T28, T34).  With a refused
\* record T28 adds its strike and the incident stays where it is.
THEOREM TwoStrikesHold == (MaxSpent["fault"] = 0) => (Spec => []TwoStrikes)
<1> SUFFICES ASSUME MaxSpent["fault"] = 0 PROVE Spec => []TwoStrikes
  OBVIOUS
<1>1. Init => TwoStrikes
  BY DEF Init, TwoStrikes, Running, NewIncident
<1>2. TypeOK /\ TwoStrikes /\ [Next]_vars => TwoStrikes'
  <2> SUFFICES ASSUME TypeOK, TwoStrikes, [Next]_vars, NEW j \in Inc, inc'[j].state = "agent:running"
               PROVE  inc'[j].strikes < 2
    BY DEF TwoStrikes, Running
  <2>t. inc[j].strikes \in Nat /\ (inc[j].state = "agent:running" => inc[j].strikes < 2)
    BY DEF TypeOK, Incident, TwoStrikes, Running
  <2>1. CASE Calm
    <3>1. inc[j].state = "agent:running" /\ inc'[j].strikes <= inc[j].strikes
      BY <2>1 DEF Calm
    <3>2. inc'[j].strikes \in Nat
      <4>1. inc' \in [Inc -> Incident]
        BY StepTypes DEF TypeOK
      <4> QED BY <4>1 DEF Incident
    <3> QED BY <2>t, <3>1, <3>2
  <2>2. CASE \E i \in Inc, e \in EdgeIds : \E from : Carries(i, e, from)
    <3>0. PICK i \in Inc, e \in EdgeIds : \E from : Carries(i, e, from)
      BY <2>2
    <3>1. PICK from : Carries(i, e, from)
      BY <3>0
    <3>2. CASE i # j
      BY <2>t, <3>0, <3>1, <3>2 DEF Carries, TypeOK
    <3>3. CASE i = j
      <4>1. Legal[e].to = "agent:running"
        BY <3>0, <3>1, <3>3, NoFaults, EnvStepsAre DEF Carries
      <4>2. e \in LeaseEdges
        BY <4>1, EveryRow DEF RowOK
      <4>3. e = "T34" \/ inc[j].strikes < 2
        BY <3>0, <3>1, <3>3, <4>2 DEF Carries, AgentEntry
      <4>4. PICK y : Apply(j, e, y) /\ inc' = [inc EXCEPT ![j] = y]
        BY <3>0, <3>1, <3>3 DEF Carries
      <4>5. inc'[j] = y
        BY <4>4 DEF TypeOK
      <4> QED BY <4>2, <4>3, <4>4, <4>5 DEF Apply, LeaseEdges
    <3> QED BY <3>2, <3>3
  <2> QED BY <2>1, <2>2, StepMoves DEF Moves
<1> QED BY <1>1, <1>2, TypeCorrect, PTL DEF Spec

\* The strengthening that is inductive: the runner's lease is live too, so a lease
\* found free shows that nobody runs.
RunnerLease == \A i \in Inc : Running(i) => lease = [holder |-> i, owned |-> TRUE, live |-> TRUE]

\* While the ledger accepts every record and no lease runs out, an incident in
\* agent:running holds the host lease under an id it knows: whoever acquires the
\* lease finds it free, so nobody runs (leaseTable.acquire, agentStage, release).
THEOREM OneRunPerHost == (MaxSpent["fault"] = 0 /\ MaxSpent["expire"] = 0) => (Spec => []RunnerHoldsLease)
<1> SUFFICES ASSUME MaxSpent["fault"] = 0, MaxSpent["expire"] = 0 PROVE Spec => []RunnerHoldsLease
  OBVIOUS
<1>1. Init => RunnerLease
  BY DEF Init, RunnerLease, Running, NewIncident
<1>2. TypeOK /\ RunnerLease /\ [Next]_vars => RunnerLease'
  <2> SUFFICES ASSUME TypeOK, RunnerLease, [Next]_vars, NEW j \in Inc, inc'[j].state = "agent:running"
               PROVE  lease' = [holder |-> j, owned |-> TRUE, live |-> TRUE]
    BY DEF RunnerLease, Running
  <2>t. inc[j].state = "agent:running" => lease = [holder |-> j, owned |-> TRUE, live |-> TRUE] /\ ~LeaseFree
    BY DEF RunnerLease, Running, LeaseFree
  <2>1. CASE Calm /\ (UNCHANGED lease \/ LeaseFree \/ Spend("expire"))
    <3>1. inc[j].state = "agent:running"
      BY <2>1 DEF Calm
    <3>2. ~LeaseFree /\ ~Spend("expire")
      BY <2>t, <3>1, NoFaults, EnvStepsAre
    <3> QED BY <2>t, <2>1, <3>1, <3>2
  <2>2. CASE \E i \in Inc, e \in EdgeIds : \E from : Carries(i, e, from)
    <3>p. PICK i \in Inc, e \in EdgeIds : \E from : Carries(i, e, from)
      BY <2>2
    <3>1. PICK from : Carries(i, e, from)
      BY <3>p
    <3>0. lease' = LeaseAfter(i, e) /\ (e \in LeaseEdges => LeaseFree)
      BY <3>p, <3>1 DEF Carries
    <3>2. CASE i # j
      <4>1. inc[j].state = "agent:running"
        BY <3>0, <3>p, <3>1, <3>2 DEF Carries, TypeOK
      <4>2. e \notin LeaseEdges /\ lease.holder = j
        BY <2>t, <3>0, <4>1
      <4>3. LeaseAfter(i, e) = lease
        BY <3>2, <4>2 DEF LeaseAfter, Released
      <4> QED BY <2>t, <3>0, <4>1, <4>3
    <3>3. CASE i = j
      <4>1. Legal[e].to = "agent:running"
        BY <3>0, <3>p, <3>1, <3>3, NoFaults, EnvStepsAre DEF Carries
      <4>2. e \in LeaseEdges
        BY <4>1, EveryRow DEF RowOK
      <4> QED BY <3>0, <3>3, <4>2 DEF LeaseAfter, LeaseEdges
    <3> QED BY <3>2, <3>3
  <2> QED BY <2>1, <2>2, StepMoves DEF Moves
<1>3. RunnerLease => RunnerHoldsLease
  BY DEF RunnerLease, RunnerHoldsLease
<1> QED BY <1>1, <1>2, <1>3, TypeCorrect, PTL DEF Spec

\* The kill-switch is off and no stage entry waits for it.
NothingPending == kill = FALSE /\ \A i \in Inc : pending[i] = NoRow /\ resume[i] = NoItem

\* With the kill-switch off nothing is frozen, so nothing becomes pending.
LEMMA AttemptPending ==
  ASSUME NothingPending, NEW i, NEW e, NEW from, NEW a, NEW ok, Attempt(i, e, from, a, ok)
  PROVE  UNCHANGED pending
<1>1. Outcome(i, e, from, a, ok) # "frozen"
  BY DEF NothingPending, Outcome
<1> QED BY <1>1 DEF Attempt, Advance, ladder

\* Where the kill-switch is never set nothing ever becomes pending.
LEMMA PendingStays ==
  ASSUME TypeOK, NothingPending, [Next]_vars, MaxSpent["kill"] = 0
  PROVE  NothingPending'
<1>k. ~SetKillSwitch
  BY NoFaults, EnvStepsAre DEF SetKillSwitch
<1>i. NoItem.at = None /\ None # "advance" /\ None # "clear"
  BY DEF NoItem, None
<1>u. ASSUME UNCHANGED <<kill, pending, resume>> PROVE NothingPending'
  BY <1>u DEF NothingPending
<1>0. CASE UNCHANGED vars
  BY <1>0, <1>u DEF vars
<1>1. CASE \E i \in Inc, e \in CallerEdges : Caller(i, e)
  BY <1>1, <1>u, AttemptPending DEF Caller, worker
<1>2. CASE Worker
  <2>1. CASE DriveStart \/ DriveEnd \/ \E i \in Inc : DriveRead(i)
    BY <2>1, <1>u DEF DriveStart, DriveEnd, DriveRead, ladder
  <2>2. CASE ResumeStart
    BY <2>2 DEF ResumeStart, IsPending, NothingPending, ladder
  <2>3. ASSUME NEW i \in Inc, DriveStep(i) PROVE NothingPending'
    BY <2>3, <1>u, AttemptPending DEF DriveStep, ladder
  <2>4. ASSUME NEW i \in Inc PROVE ~ResumeCheck(i) /\ ~ResumeStep(i) /\ ~ResumeClear(i)
    BY <1>i DEF ResumeCheck, ResumeStep, ResumeClear, NothingPending
  <2> QED BY <1>2, <2>1, <2>2, <2>3, <2>4 DEF Worker
<1>3. CASE LeaseExpires \/ NewDay
  BY <1>3, <1>u DEF LeaseExpires, NewDay, worker
<1>4. ASSUME NEW i \in Inc, DeskStep(i) PROVE NothingPending'
  BY <1>4, <1>u, AttemptPending DEF DeskStep, worker
<1>5. ASSUME NEW i \in Inc,
             \/ DeskRead(i) \/ Verify(i) \/ CallStart(i) \/ CallDone(i) \/ Arrive(i)
             \/ Quarantine(i) \/ Unquarantine(i) \/ Trip(i) \/ Lapse(i) \/ Ages(i)
      PROVE  NothingPending'
  <2>1. UNCHANGED <<kill, pending, resume>>
    BY <1>5 DEF DeskRead, Verify, CallStart, CallDone, Arrive, Quarantine, Unquarantine, Trip, Lapse, Ages, ladder, worker
  <2> QED BY <2>1, <1>u
<1> QED BY <1>k, <1>0, <1>1, <1>2, <1>3, <1>4, <1>5 DEF Next

\* Where the kill-switch is never set and no caller folds by T48, an acknowledged
\* incident leaves that state by a close or a quarantine alone, whatever the driver
\* or a second click had read before (SPEC-05 3.2a, Advance's From test).
THEOREM AckExits == ("T48" \notin CallerEdges /\ MaxSpent["kill"] = 0) => (Spec => AckHasTwoExits)
<1> SUFFICES ASSUME "T48" \notin CallerEdges, MaxSpent["kill"] = 0 PROVE Spec => AckHasTwoExits
  OBVIOUS
<1>1. Init => NothingPending
  BY DEF Init, NothingPending
<1>2. TypeOK /\ NothingPending /\ [Next]_vars => NothingPending'
  BY PendingStays
<1>3. TypeOK /\ NothingPending /\ [Next]_vars =>
        [\A i \in Inc : inc[i].state = "acknowledged"
            => inc'[i].state \in {"acknowledged", "resolved", "quarantined"}]_vars
  <2> SUFFICES ASSUME TypeOK, NothingPending, [Next]_vars, NEW j \in Inc, inc[j].state = "acknowledged"
               PROVE  inc'[j].state \in {"acknowledged", "resolved", "quarantined"}
    OBVIOUS
  <2>1. CASE Calm
    BY <2>1 DEF Calm
  <2>2. CASE \E i \in Inc, e \in EdgeIds : \E from : Carries(i, e, from) /\ Driven(i, e, from)
    <3>0. PICK i \in Inc, e \in EdgeIds : \E from : Carries(i, e, from) /\ Driven(i, e, from)
      BY <2>2
    <3>1. PICK from : Carries(i, e, from) /\ Driven(i, e, from)
      BY <3>0
    <3>2. CASE i # j
      BY <3>0, <3>1, <3>2 DEF Carries, TypeOK
    <3>3. CASE i = j
      <4>1. resume[i].at # "advance"
        BY DEF NothingPending, NoItem, None
      <4>2. from = "acknowledged" /\ e # "T48"
        BY <3>0, <3>1, <3>3, <4>1 DEF Driven, DeskRows
      <4>3. "acknowledged" \in Legal[e].from
        BY <3>0, <3>1, <4>2 DEF Carries
      <4>4. Legal[e].to \in {"resolved", "quarantined"}
        BY <4>2, <4>3, EveryRow DEF RowOK
      <4>5. inc'[j].state \in {inc[j].state, Legal[e].to}
        BY <3>0, <3>1, <3>3 DEF Carries
      <4> QED BY <4>4, <4>5
    <3> QED BY <3>2, <3>3
  <2> QED BY <2>1, <2>2, StepMoves DEF Moves
<1> QED BY <1>1, <1>2, <1>3, TypeCorrect, PTL DEF Spec, AckHasTwoExits

-----------------------------------------------------------------------------
(* ------------------------------- the plays ---------------------------- *)

\* The states from which a play can come to its end with no cap in between.
Climbing == {"detected", "recorded", "play:drafted", "play:check_only", "play:applied"}

\* The largest of the caps.
PlayBound == MaxRuns + (IF VerifyReopens > ResearchPlayExtra THEN VerifyReopens ELSE ResearchPlayExtra)

\* The strengthening that is inductive: on the way to a play's end there is room
\* for it.
Within(x, h) ==
  /\ x.playRuns <= x.reopens + h + PlayBound
  /\ x.state \in Climbing => x.playRuns < x.reopens + h + PlayBound
PlayInv == \A i \in Inc : Within(inc[i], spent["human"])

\* The limits inside which plays are counted: the caps leave room for a second
\* run (WithDefaults turns an unset verify_reopens into 1), every record is
\* accepted, the kill-switch rests, and no caller takes an incident back to
\* recorded without counting a reopening.
PlaysCounted ==
  /\ VerifyReopens > 0 \/ ResearchPlayExtra > 0
  /\ MaxSpent["fault"] = 0 /\ MaxSpent["kill"] = 0
  /\ CallerEdges \cap {"T43", "T44", "T48"} = {}

\* y is x with the counters of plays and reopenings unchanged.
SameCounts(x, y) == y.playRuns = x.playRuns /\ y.reopens = x.reopens

\* The caps are numbers, and the largest is above each and above one run.
LEMMA BoundIs ==
  /\ {MaxRuns, VerifyReopens, ResearchPlayExtra, ReopenMax} \subseteq Nat /\ PlayBound \in Nat
  /\ MaxRuns + ResearchPlayExtra <= PlayBound /\ MaxRuns + VerifyReopens <= PlayBound
  /\ PlaysCounted => MaxRuns < PlayBound
BY ConstAssumption DEF PlayBound, PlaysCounted

\* Refusals, lost lease attempts, windows and checks leave the counts alone.
LEMMA CountsKept ==
  ASSUME NEW x \in Incident
  PROVE  /\ \A b \in BOOLEAN : SameCounts(x, Refusal(x, b))
         /\ SameCounts(x, Contended(x)) /\ SameCounts(x, OpenWindow(x)) /\ SameCounts(x, Outdated(x))
<1>1. ASSUME NEW b \in BOOLEAN PROVE SameCounts(x, Refusal(x, b))
  <2> DEFINE n == IF b THEN Up(x.illegal, 3) ELSE x.illegal
             s == IF b /\ n >= 3 THEN "quarantined" ELSE x.state
  <2>1. Refusal(x, b) = [x EXCEPT !.illegal = n, !.state = s]
    BY DEF Refusal
  <2> HIDE DEF n, s
  <2> QED BY <2>1 DEF SameCounts, Incident
<1>2. SameCounts(x, Contended(x))
  <2> DEFINE n == Up(x.tries, WaitAfter + 1)
             w == x.waiting \/ x.tries + 1 > WaitAfter
  <2>1. Contended(x) = [x EXCEPT !.tries = n, !.waiting = w]
    BY DEF Contended
  <2> HIDE DEF n, w
  <2> QED BY <2>1 DEF SameCounts, Incident
<1>3. SameCounts(x, OpenWindow(x)) /\ SameCounts(x, Outdated(x))
  BY DEF OpenWindow, Outdated, SameCounts, Incident
<1> QED BY <1>1, <1>2, <1>3

\* A row's Apply changes the play counter by T12 and T13 alone, by one at most,
\* and the reopenings by T42 and T43 alone: below the cap T42 adds one.
LEMMA AppliedCounts ==
  ASSUME TypeOK, NEW i \in Inc, NEW e, NEW a \in Answers(e),
         ~(e \in {"T04", "T14"} /\ a = "error")
  PROVE  LET x == inc[i]
             y == Applied(i, e, a)
         IN  /\ y.playRuns <= x.playRuns + 1
             /\ e \notin {"T12", "T13"} => y.playRuns = x.playRuns
             /\ e \notin {"T42", "T43"} => y.reopens = x.reopens
             /\ e = "T42" /\ x.reopens < ReopenMax => y.reopens = x.reopens + 1
<1> DEFINE x == inc[i]
           y == Applied(i, e, a)
           Goal(z) == /\ z.playRuns <= x.playRuns + 1
                      /\ e \notin {"T12", "T13"} => z.playRuns = x.playRuns
                      /\ e \notin {"T42", "T43"} => z.reopens = x.reopens
                      /\ e = "T42" /\ x.reopens < ReopenMax => z.reopens = x.reopens + 1
<1>x. x \in Incident
  BY DEF TypeOK
<1>n. x.playRuns \in 0..PlayRunsTop /\ PlayRunsTop \in Nat /\ x.reopens \in 0..ReopenMax /\ ReopenMax \in Nat
  BY <1>x, TopIsNat, ConstAssumption DEF Incident
<1> SUFFICES Goal(y)
  OBVIOUS
<1> HIDE DEF x, y
<1>k. ASSUME NEW z, SameCounts(x, z), e # "T42" PROVE Goal(z)
  BY <1>k, <1>n DEF SameCounts
<1> HIDE DEF Goal
<1>1. CASE e = "T03"
  <2>1. y = [x EXCEPT !.play = IF x.draft = None THEN @ ELSE x.draft]
    BY <1>1 DEF Applied, x, y
  <2> QED BY <1>1, <1>k, <1>x, <2>1 DEF SameCounts, Incident
<1>2. CASE e \in {"T04", "T14"}
  <2>1. y = [x EXCEPT !.brief = a]
    BY <1>2 DEF Applied, x, y
  <2> QED BY <1>2, <1>k, <1>x, <2>1 DEF SameCounts, Incident
<1>3. CASE e = "T06"
  <2>1. y = OpenWindow(x)
    BY <1>3 DEF Applied, x, y
  <2> QED BY <1>3, <1>k, <1>x, <2>1, CountsKept
<1>4. CASE e = "T08"
  <2>1. y = PlayCheck(x, a)
    BY <1>4 DEF Applied, x, y
  <2>2. PICK r \in {"changed", "clean", "transient", "permanent"}, b \in BOOLEAN : a = <<r, b>>
    BY <1>4 DEF Answers
  <2> DEFINE w == x.noRun \/ ~b
             z == [x EXCEPT !.run = r, !.noRun = w]
  <2>3. y = IF x.play = None THEN x ELSE Outdated(z)
    BY <2>1, <2>2 DEF PlayCheck
  <2>4. w \in BOOLEAN
    OBVIOUS
  <2> HIDE DEF w
  <2>5. z \in Incident /\ SameCounts(x, z)
    BY <1>x, <2>4 DEF Incident, SameCounts
  <2> HIDE DEF z
  <2>6. SameCounts(x, Outdated(z)) /\ SameCounts(x, x)
    BY <2>5, CountsKept DEF SameCounts
  <2> QED BY <1>4, <1>k, <2>3, <2>6
<1>5. CASE e \in {"T12", "T13"}
  <2> DEFINE n == Up(x.playRuns, PlayRunsTop)
             z == [x EXCEPT !.playRuns = n]
  <2>1. y \in {z, OpenWindow(z)}
    BY <1>5 DEF Applied, x, y
  <2>2. n \in 0..PlayRunsTop /\ n <= x.playRuns + 1
    BY <1>n, UpTo
  <2> HIDE DEF n
  <2>3. z \in Incident /\ z.playRuns = n /\ z.reopens = x.reopens
    BY <1>x, <2>2 DEF Incident
  <2> HIDE DEF z
  <2>4. y.playRuns = n /\ y.reopens = x.reopens
    BY <2>1, <2>3, CountsKept DEF SameCounts
  <2> QED BY <1>5, <2>2, <2>4 DEF Goal
<1>6. CASE e = "T27"
  <2>1. y = [x EXCEPT !.result = None]
    BY <1>6 DEF Applied, x, y
  <2> QED BY <1>6, <1>k, <1>x, <2>1 DEF SameCounts, Incident
<1>7. CASE e = "T28"
  <2>1. y = [x EXCEPT !.result = None, !.strikes = Up(@, 3), !.week = Up(@, 4)]
    BY <1>7 DEF Applied, x, y
  <2> QED BY <1>7, <1>k, <1>x, <2>1 DEF SameCounts, Incident
<1>8. CASE e \in {"T29", "T32"}
  <2>1. y = [x EXCEPT !.susp = "open"]
    BY <1>8 DEF Applied, x, y
  <2> QED BY <1>8, <1>k, <1>x, <2>1 DEF SameCounts, Incident
<1>9. CASE e = "T34"
  <2>1. y = [x EXCEPT !.strikes = 0, !.week = 0, !.susp = None]
    BY <1>9 DEF Applied, x, y
  <2> QED BY <1>9, <1>k, <1>x, <2>1 DEF SameCounts, Incident
<1>10. CASE e \in {"T42", "T43"}
  <2> DEFINE z == Outdated(x)
             n == Up(z.reopens, ReopenMax)
  <2>1. y = [z EXCEPT !.reopens = n]
    BY <1>10 DEF Applied, x, y
  <2>2. z \in Incident /\ z.playRuns = x.playRuns /\ z.reopens = x.reopens
    BY <1>x, WindowIs, CountsKept DEF SameCounts
  <2>3. x.reopens < ReopenMax => n = x.reopens + 1
    BY <2>2 DEF Up
  <2> HIDE DEF z, n
  <2>4. y.playRuns = x.playRuns /\ y.reopens = n
    BY <2>1, <2>2 DEF Incident
  <2> QED BY <1>10, <1>n, <2>3, <2>4 DEF Goal
<1>11. CASE e = "T46"
  <2>1. y = [x EXCEPT !.state = "suppressed"]
    BY <1>11 DEF Applied, x, y
  <2> QED BY <1>11, <1>k, <1>x, <2>1 DEF SameCounts, Incident
<1>12. CASE e = "T48"
  <2>1. y = [x EXCEPT !.folded = TRUE]
    BY <1>12 DEF Applied, x, y
  <2> QED BY <1>12, <1>k, <1>x, <2>1 DEF SameCounts, Incident
<1>13. CASE e \notin {"T03", "T04", "T14", "T06", "T08", "T12", "T13", "T27", "T28", "T29", "T32", "T34", "T42", "T43", "T46", "T48"}
  <2>1. y = x
    BY <1>13 DEF Applied, x, y
  <2> QED BY <1>13, <1>k, <2>1 DEF SameCounts
<1> QED
  BY <1>1, <1>2, <1>3, <1>4, <1>5, <1>6, <1>7, <1>8, <1>9, <1>10, <1>11, <1>12, <1>13

\* An incident whose counts are unchanged and which is no further up stays within.
LEMMA WithinKept ==
  ASSUME NEW x, NEW y, NEW h, Within(x, h), SameCounts(x, y), y.state \in Climbing => x.state \in Climbing
  PROVE  Within(y, h)
BY DEF Within, SameCounts

\* The record an accepted row leaves is within, by the row's cap where it has one.
LEMMA RowWithin ==
  ASSUME TypeOK, PlaysCounted, NEW i \in Inc, NEW e \in EdgeIds \ {"T43", "T44", "T48"}, NEW a \in Answers(e),
         ~(e \in {"T04", "T14"} /\ a = "error"), RowGuard(i, e, a), inc[i].state \in Legal[e].from,
         NEW h \in Nat, Within(inc[i], h), NEW y, SameCounts(Applied(i, e, a), y), y.state = Legal[e].to
  PROVE  Within(y, h)
<1> DEFINE x == inc[i]
<1>x. x \in Incident
  BY DEF TypeOK
<1>n. x.playRuns \in Nat /\ x.reopens \in Nat /\ PlayBound \in Nat /\ MaxRuns \in Nat
      /\ VerifyReopens \in Nat /\ ResearchPlayExtra \in Nat
  BY <1>x, TopIsNat, BoundIs DEF Incident
<1>b. MaxRuns < PlayBound /\ MaxRuns + ResearchPlayExtra <= PlayBound /\ MaxRuns + VerifyReopens <= PlayBound
  BY BoundIs
<1>a. /\ y.playRuns <= x.playRuns + 1
      /\ e \notin {"T12", "T13"} => y.playRuns = x.playRuns
      /\ e \notin {"T42", "T43"} => y.reopens = x.reopens
      /\ e = "T42" /\ x.reopens < ReopenMax => y.reopens = x.reopens + 1
  BY AppliedCounts DEF SameCounts
<1>y. y.playRuns \in Nat
  <2>1. Applied(i, e, a) \in Incident
    BY AppliedIs
  <2> QED BY <2>1, TopIsNat DEF SameCounts, Incident
<1>r. /\ y.state \in Climbing => e \in {"T01", "T03", "T08", "T10", "T13", "T22", "T39", "T42"}
      /\ e \in {"T01", "T03", "T08", "T10", "T12"} => x.state \in Climbing
  <2>1. RowOK(e, Legal[e])
    BY EveryRow
  <2> QED BY <2>1 DEF RowOK, Climbing
<1>w. /\ x.playRuns <= x.reopens + h + PlayBound
      /\ x.state \in Climbing => x.playRuns < x.reopens + h + PlayBound
  BY DEF Within
<1> SUFFICES /\ y.playRuns <= y.reopens + h + PlayBound
             /\ y.state \in Climbing => y.playRuns < y.reopens + h + PlayBound
  BY DEF Within
<1> HIDE DEF x
<1>1. CASE e = "T12"
  BY <1>1, <1>a, <1>n, <1>r, <1>w, <1>y
<1>2. CASE e = "T13"
  <2>1. x.playRuns < MaxRuns
    BY <1>2 DEF RowGuard, RunsLeft, x
  <2> QED BY <1>2, <2>1, <1>a, <1>b, <1>n, <1>y
<1>3. CASE e = "T22"
  <2>1. x.playRuns < MaxRuns + ResearchPlayExtra
    BY <1>3 DEF RowGuard, BriefRunsLeft, x
  <2> QED BY <1>3, <2>1, <1>a, <1>b, <1>n
<1>4. CASE e = "T39"
  <2>1. x.playRuns < MaxRuns + VerifyReopens
    BY <1>4 DEF RowGuard, ReopenRunsLeft, x
  <2> QED BY <1>4, <2>1, <1>a, <1>b, <1>n
<1>5. CASE e = "T42"
  <2>1. x.reopens < ReopenMax
    BY <1>5 DEF RowGuard, x
  <2> QED BY <1>5, <2>1, <1>a, <1>n, <1>w
<1>6. CASE e \notin {"T12", "T13", "T22", "T39", "T42"}
  BY <1>6, <1>a, <1>n, <1>r, <1>w
<1> QED BY <1>1, <1>2, <1>3, <1>4, <1>5, <1>6

\* Steps that change one incident's record: the others are as they were.
LEMMA OneWithin ==
  ASSUME TypeOK, PlayInv, NEW i \in Inc, NEW y, inc' = [inc EXCEPT ![i] = y], UNCHANGED spent,
         Within(y, spent["human"])
  PROVE  PlayInv'
BY DEF PlayInv, TypeOK

\* An attempt from the incident's own state keeps the plays within their cap.
LEMMA AttemptWithin ==
  ASSUME TypeOK, PlaysCounted, PlayInv, NEW i \in Inc, NEW e \in EdgeIds \ {"T43", "T44", "T48"},
         NEW a \in Answers(e), NEW ok \in BOOLEAN, Attempt(i, e, inc[i].state, a, ok)
  PROVE  PlayInv'
<1> DEFINE o == Outcome(i, e, inc[i].state, a, ok)
           h == spent["human"]
           x == [Applied(i, e, a) EXCEPT !.tries = IF e \in LeaseEdges THEN 0 ELSE @]
<1>inc. inc[i] \in Incident /\ inc \in [Inc -> Incident] /\ Within(inc[i], h)
  BY DEF TypeOK, PlayInv
<1>h. h \in Nat
  BY DEF TypeOK, EnvSteps
<1>o. o \in {"illegal", "frozen", "refused", "failed", "accepted", "unrecorded"}
  BY DEF Outcome
<1>f. ~Spend("fault")
  BY NoFaults, EnvStepsAre DEF PlaysCounted
<1>a. Advance(i, e, inc[i].state, a, ok) /\ o # "unrecorded" /\ UNCHANGED spent
  BY <1>f DEF Attempt
<1>q. "quarantined" \notin Climbing
  BY DEF Climbing
<1>1. CASE o = "illegal"
  <2>1. inc' = [inc EXCEPT ![i] = Refusal(inc[i], TRUE)]
    BY <1>1, <1>a, <1>inc DEF Advance
  <2>2. PICK b \in BOOLEAN : b = TRUE
    OBVIOUS
  <2>3. SameCounts(inc[i], Refusal(inc[i], b)) /\ Refusal(inc[i], b).state \in {inc[i].state, "quarantined"}
    BY <1>inc, RefusalIs, CountsKept
  <2>4. Within(Refusal(inc[i], b), h)
    BY <1>inc, <1>q, <2>3, WithinKept
  <2> QED BY <1>a, <2>1, <2>2, <2>4, OneWithin
<1>2. CASE o \in {"frozen", "failed"}
  <2>1. UNCHANGED <<inc, spent>>
    BY <1>2, <1>a DEF Advance, ladder
  <2> QED BY <2>1 DEF PlayInv
<1>3. CASE o = "refused"
  <2> DEFINE z == IF LeaseBusy(i, e, a) THEN Contended(inc[i]) ELSE inc[i]
             b == e \in IllegalGuards
  <2>1. inc' = [inc EXCEPT ![i] = Refusal(z, b)]
    BY <1>3, <1>a, <1>inc DEF Advance
  <2>2. z \in Incident /\ z.state = inc[i].state /\ SameCounts(inc[i], z)
    BY <1>inc, ContendedIs, CountsKept DEF SameCounts
  <2>b. b \in BOOLEAN
    OBVIOUS
  <2> HIDE DEF z, b
  <2>3. Within(z, h)
    BY <1>inc, <2>2, WithinKept
  <2>4. Within(Refusal(z, b), h)
    BY <1>q, <2>2, <2>3, <2>b, RefusalIs, CountsKept, WithinKept
  <2> QED BY <1>a, <2>1, <2>4, OneWithin
<1>4. CASE o = "accepted"
  <2>1. RowGuard(i, e, a) /\ inc[i].state \in Legal[e].from /\ ~(e \in {"T04", "T14"} /\ a = "error")
    BY <1>4 DEF Outcome, Guard
  <2> DEFINE y == [x EXCEPT !.state = Legal[e].to, !.waiting = FALSE]
  <2>2. inc' = [inc EXCEPT ![i] = y]
    BY <1>4, <1>a DEF Advance
  <2>3. Applied(i, e, a) \in Incident
    BY <2>1, AppliedIs
  <2>4. SameCounts(Applied(i, e, a), y) /\ y.state = Legal[e].to
    BY <2>3 DEF SameCounts, Incident
  <2> HIDE DEF y
  <2>5. Within(y, h)
    BY <1>inc, <1>h, <2>1, <2>4, RowWithin
  <2> QED BY <1>a, <2>2, <2>5, OneWithin
<1> QED
  BY <1>o, <1>a, <1>1, <1>2, <1>3, <1>4

\* The world's and the operator's steps keep the plays within their cap: an
\* arrival that reopens is counted, and so is each of an operator's moves.
LEMMA WorldWithin ==
  ASSUME TypeOK, PlayInv, NEW i \in Inc,
         \/ Verify(i) \/ CallDone(i) \/ Arrive(i) \/ Quarantine(i) \/ Unquarantine(i) \/ Ages(i)
  PROVE  PlayInv'
<1> DEFINE x == inc[i]
           h == spent["human"]
<1>x. x \in Incident /\ inc \in [Inc -> Incident] /\ Within(x, h)
  BY DEF TypeOK, PlayInv
<1>n. x.playRuns \in Nat /\ x.reopens \in Nat /\ h \in Nat /\ PlayBound \in Nat
  BY <1>x, TopIsNat, BoundIs DEF Incident, TypeOK, EnvSteps
<1>s. ASSUME NEW k \in EnvSteps, Spend(k)
      PROVE  spent'["human"] = IF k = "human" THEN h + 1 ELSE h
  BY <1>s DEF Spend, TypeOK, EnvSteps
<1>u. ASSUME NEW y, inc' = [inc EXCEPT ![i] = y], spent'["human"] = h, Within(y, h) PROVE PlayInv'
  BY <1>u, <1>x DEF PlayInv
<1> HIDE DEF x, h
<1>1. CASE Verify(i)
  <2>1. PICK w, r : inc' = [inc EXCEPT ![i].evid = r, ![i].window = w]
    BY <1>1 DEF Verify
  <2> DEFINE y == [x EXCEPT !.evid = r, !.window = w]
  <2>2. inc' = [inc EXCEPT ![i] = y]
    BY <2>1, <1>x DEF x
  <2>3. SameCounts(x, y) /\ y.state = x.state
    BY <1>x DEF SameCounts, Incident
  <2>4. spent'["human"] = h
    BY <1>1, <1>s, EnvStepsAre DEF Verify
  <2> HIDE DEF y
  <2> QED BY <1>u, <1>x, <2>2, <2>3, <2>4, WithinKept
<1>2. CASE CallDone(i)
  <2>1. PICK r \in {"done", "failed", None} :
          /\ IF r = None THEN Spend("fault") ELSE UNCHANGED spent
          /\ inc' = [inc EXCEPT ![i] = Outdated([inc[i] EXCEPT !.result = r])]
    BY <1>2, <1>x DEF CallDone
  <2> DEFINE z == [x EXCEPT !.result = r]
  <2>2. inc' = [inc EXCEPT ![i] = Outdated(z)]
    BY <2>1 DEF x
  <2>3. z \in Incident /\ SameCounts(x, z) /\ z.state = x.state
    BY <1>x, <2>1 DEF SameCounts, Incident
  <2> HIDE DEF z
  <2>4. SameCounts(x, Outdated(z)) /\ Outdated(z).state = x.state
    BY <2>3, CountsKept, WindowIs DEF SameCounts
  <2>5. spent'["human"] = h
    BY <2>1, <1>s, EnvStepsAre DEF h
  <2> QED BY <1>u, <1>x, <2>2, <2>4, <2>5, WithinKept
<1>3. CASE Arrive(i)
  <2>h. spent'["human"] = h
    BY <1>3, <1>s, EnvStepsAre DEF Arrive
  <2>1. CASE inc' = [inc EXCEPT ![i].folded = TRUE]
    <3> DEFINE y == [x EXCEPT !.folded = TRUE]
    <3>1. inc' = [inc EXCEPT ![i] = y]
      BY <2>1, <1>x DEF x
    <3>2. SameCounts(x, y) /\ y.state = x.state
      BY <1>x DEF SameCounts, Incident
    <3> HIDE DEF y
    <3> QED BY <1>u, <1>x, <2>h, <3>1, <3>2, WithinKept
  <2>2. CASE inc' = [inc EXCEPT ![i] = inc[i]]
    BY <1>u, <1>x, <2>h, <2>2 DEF x
  <2>3. CASE inc' = [inc EXCEPT ![i] = [Outdated(inc[i]) EXCEPT !.state = "recorded", !.reopens = @ + 1]]
    <3> DEFINE z == Outdated(x)
               n == z.reopens + 1
               y == [z EXCEPT !.state = "recorded", !.reopens = n]
    <3>1. inc' = [inc EXCEPT ![i] = y]
      BY <2>3 DEF x
    <3>2. z \in Incident /\ SameCounts(x, z)
      BY <1>x, WindowIs, CountsKept
    <3> HIDE DEF z, n
    <3>3. y.playRuns = z.playRuns /\ y.reopens = n
      BY <3>2 DEF Incident
    <3>4. y.playRuns = x.playRuns /\ y.reopens = x.reopens + 1
      BY <3>2, <3>3 DEF SameCounts, n
    <3> HIDE DEF y
    <3>5. Within(y, h)
      BY <1>x, <1>n, <3>4 DEF Within
    <3> QED BY <1>u, <2>h, <3>1, <3>5
  <2> QED BY <1>3, <2>1, <2>2, <2>3 DEF Arrive
<1>4. CASE Quarantine(i) \/ Unquarantine(i)
  <2>1. PICK s : inc' = [inc EXCEPT ![i].state = s]
    BY <1>4 DEF Quarantine, Unquarantine
  <2> DEFINE y == [x EXCEPT !.state = s]
  <2>2. inc' = [inc EXCEPT ![i] = y]
    BY <2>1, <1>x DEF x
  <2>3. SameCounts(x, y)
    BY <1>x DEF SameCounts, Incident
  <2> HIDE DEF y
  <2>4. spent'["human"] = h + 1
    BY <1>4, <1>s, EnvStepsAre DEF Quarantine, Unquarantine
  <2>5. Within(y, h + 1)
    BY <1>x, <1>n, <2>3 DEF Within, SameCounts
  <2>6. ASSUME NEW j \in Inc PROVE Within(inc'[j], h + 1)
    <3>1. CASE j = i
      BY <1>x, <2>2, <2>5, <3>1
    <3>2. CASE j # i
      <4>1. inc'[j] = inc[j] /\ inc[j] \in Incident /\ Within(inc[j], h)
        BY <1>x, <2>2, <3>2 DEF PlayInv, h
      <4>2. inc[j].playRuns \in Nat /\ inc[j].reopens \in Nat
        BY <4>1, TopIsNat, BoundIs DEF Incident
      <4> QED BY <1>n, <4>1, <4>2 DEF Within
    <3> QED BY <3>1, <3>2
  <2> QED BY <2>4, <2>6 DEF PlayInv
<1>5. CASE Ages(i)
  <2>h. spent'["human"] = h
    BY <1>5, <1>s, EnvStepsAre DEF Ages
  <2>1. PICK s, w, u : inc' = [inc EXCEPT ![i] = [x EXCEPT !.strikes = s, !.week = w, !.susp = u]]
    <3>1. CASE inc' = [inc EXCEPT ![i].strikes = @ - 1]
      <4>1. inc' = [inc EXCEPT ![i] = [x EXCEPT !.strikes = x.strikes - 1, !.week = x.week, !.susp = x.susp]]
        BY <1>x, <3>1 DEF Incident, x
      <4> QED BY <4>1
    <3>2. CASE inc' = [inc EXCEPT ![i].week = @ - 1]
      <4>1. inc' = [inc EXCEPT ![i] = [x EXCEPT !.strikes = x.strikes, !.week = x.week - 1, !.susp = x.susp]]
        BY <1>x, <3>2 DEF Incident, x
      <4> QED BY <4>1
    <3>3. CASE inc' = [inc EXCEPT ![i].susp = "elapsed"]
      <4>1. inc' = [inc EXCEPT ![i] = [x EXCEPT !.strikes = x.strikes, !.week = x.week, !.susp = "elapsed"]]
        BY <1>x, <3>3 DEF Incident, x
      <4> QED BY <4>1
    <3> QED BY <1>5, <3>1, <3>2, <3>3 DEF Ages
  <2> DEFINE y == [x EXCEPT !.strikes = s, !.week = w, !.susp = u]
  <2>2. SameCounts(x, y) /\ y.state = x.state
    BY <1>x DEF SameCounts, Incident
  <2> HIDE DEF y
  <2> QED BY <1>u, <1>x, <2>h, <2>1, <2>2, WithinKept DEF y
<1> QED BY <1>1, <1>2, <1>3, <1>4, <1>5

\* Every step keeps the plays within their cap.
LEMMA StepWithin ==
  ASSUME TypeOK, NothingPending, PlaysCounted, PlayInv, [Next]_vars
  PROVE  PlayInv'
<1>u. ASSUME UNCHANGED inc, spent'["human"] = spent["human"] PROVE PlayInv'
  BY <1>u DEF PlayInv
<1>s. ASSUME NEW k \in EnvSteps \ {"human"}, Spend(k) PROVE spent'["human"] = spent["human"]
  BY <1>s DEF Spend, TypeOK, EnvSteps
<1>0. CASE UNCHANGED vars
  BY <1>0, <1>u DEF vars
<1>1. ASSUME NEW i \in Inc, NEW e \in CallerEdges, Caller(i, e) PROVE PlayInv'
  <2>1. e \in EdgeIds \ {"T43", "T44", "T48"}
    BY ConstAssumption DEF PlaysCounted
  <2>2. PICK a \in Answers(e), ok \in BOOLEAN : Attempt(i, e, inc[i].state, a, ok)
    BY <1>1 DEF Caller
  <2> QED BY <2>1, <2>2, AttemptWithin
<1>2. ASSUME NEW i \in Inc, DeskStep(i) PROVE PlayInv'
  <2>1. desk[i] \in EdgeIds \ {"T43", "T44", "T48"} /\ None \in Answers(desk[i])
    <3>1. desk[i] \in DeskRows
      BY <1>2 DEF DeskStep, TypeOK
    <3> QED BY <3>1, SomeEdges DEF DeskRows, Answers
  <2>2. PICK ok \in BOOLEAN : Attempt(i, desk[i], inc[i].state, None, ok)
    BY <1>2 DEF DeskStep
  <2> QED BY <2>1, <2>2, AttemptWithin
<1>3. ASSUME NEW i \in Inc, DriveStep(i) PROVE PlayInv'
  <2> DEFINE e == RungSteps[drv.rung]
  <2>1. e \in EdgeIds \ {"T43", "T44", "T48"}
    <3>1. drv.rung \in 1..3
      BY DEF TypeOK
    <3>2. RungSteps[1] = "T03" /\ RungSteps[2] = "T04" /\ RungSteps[3] = "T05"
      BY DEF RungSteps
    <3>3. e \in {"T03", "T04", "T05"}
      BY <3>1, <3>2
    <3> QED BY <3>3, SomeEdges
  <2> HIDE DEF e
  <2>2. CASE UNCHANGED <<ladder, spent>>
    BY <2>2, <1>u DEF ladder
  <2>3. CASE \E a \in Answers(e), ok \in BOOLEAN : Attempt(i, e, inc[i].state, a, ok)
    BY <2>1, <2>3, AttemptWithin
  <2> QED BY <1>3, <2>2, <2>3 DEF DriveStep, e
<1>4. CASE DriveStart \/ DriveEnd \/ ResumeStart \/ \E i \in Inc : DriveRead(i)
  BY <1>4, <1>u DEF DriveStart, DriveEnd, ResumeStart, DriveRead, ladder
<1>5. ASSUME NEW i \in Inc PROVE ~ResumeCheck(i) /\ ~ResumeStep(i) /\ ~ResumeClear(i)
  <2>1. resume[i] = NoItem /\ NoItem.at = None /\ None # "advance" /\ None # "clear"
    BY DEF NothingPending, NoItem, None
  <2> QED BY <2>1 DEF ResumeCheck, ResumeStep, ResumeClear
<1>6. CASE SetKillSwitch \/ LeaseExpires \/ NewDay
  BY <1>6, <1>u, <1>s, EnvStepsAre DEF SetKillSwitch, LeaseExpires, NewDay, ladder
<1>7. ASSUME NEW i \in Inc, DeskRead(i) \/ CallStart(i) \/ Trip(i) PROVE PlayInv'
  BY <1>7, <1>u, <1>s, EnvStepsAre DEF DeskRead, CallStart, Trip, ladder
<1>8. ASSUME NEW i \in Inc, Lapse(i) PROVE PlayInv'
  BY <1>8, <1>u DEF Lapse
<1>9. ASSUME NEW i \in Inc, Verify(i) \/ CallDone(i) \/ Arrive(i) \/ Quarantine(i) \/ Unquarantine(i) \/ Ages(i)
      PROVE  PlayInv'
  BY <1>9, WorldWithin
<1> QED
  BY <1>0, <1>1, <1>2, <1>3, <1>4, <1>5, <1>6, <1>7, <1>8, <1>9 DEF Next, Worker

\* Inside the limits of PlaysCounted the caps of T13, T22 and T39 add up to no
\* more than the largest of them, and each recurrence and operator's move allows
\* one run more, in whatever order retries, briefs and reopened windows come.
THEOREM PlayCapHolds == PlaysCounted => (Spec => []PlayCap)
<1> SUFFICES ASSUME PlaysCounted PROVE Spec => []PlayCap
  OBVIOUS
<1>1. Init => NothingPending /\ PlayInv
  <2> SUFFICES ASSUME Init PROVE NothingPending /\ PlayInv
    OBVIOUS
  <2>1. NothingPending
    BY DEF Init, NothingPending
  <2>2. \A i \in Inc : inc[i].playRuns = 0 /\ inc[i].reopens = 0
    BY DEF Init, NewIncident
  <2>3. spent["human"] = 0
    BY DEF Init, EnvSteps
  <2>4. MaxRuns \in Nat /\ PlayBound \in Nat /\ MaxRuns < PlayBound
    BY BoundIs
  <2> QED BY <2>1, <2>2, <2>3, <2>4 DEF PlayInv, Within
<1>2. TypeOK /\ NothingPending /\ [Next]_vars => NothingPending'
  BY PendingStays DEF PlaysCounted
<1>3. TypeOK /\ NothingPending /\ PlayInv /\ [Next]_vars => PlayInv'
  BY StepWithin
<1>4. TypeOK /\ PlayInv => PlayCap
  <2> SUFFICES ASSUME TypeOK, PlayInv, NEW i \in Inc
               PROVE  inc[i].playRuns <= Climbs(i) + MaxRuns +
                        (IF VerifyReopens > ResearchPlayExtra THEN VerifyReopens ELSE ResearchPlayExtra)
    BY DEF PlayCap
  <2>1. inc[i].playRuns <= inc[i].reopens + spent["human"] + PlayBound
    BY DEF PlayInv, Within
  <2>2. inc[i].playRuns \in Nat /\ inc[i].reopens \in Nat /\ spent["human"] \in Nat
    BY TopIsNat, BoundIs DEF TypeOK, Incident, EnvSteps
  <2>3. {MaxRuns, VerifyReopens, ResearchPlayExtra} \subseteq Nat
    BY BoundIs
  <2> QED BY <2>1, <2>2, <2>3 DEF PlayBound, Climbs
<1> QED BY <1>1, <1>2, <1>3, <1>4, TypeCorrect, PTL DEF Spec
=============================================================================
