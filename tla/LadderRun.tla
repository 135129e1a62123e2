----------------------------- MODULE LadderRun -----------------------------
(***************************************************************************)
(* The ladder's state machine at work on incidents that have been admitted *)
(* (internal/ladder: statemachine.go, gates.go, drive.go, lease.go,        *)
(* agent.go, verify.go, budget.go).  Callers drive rows of the table with  *)
(* Advance, one row under one hold of the ladder's lock.  One daemon       *)
(* goroutine alternates a resume pass and a drive pass; both read an       *)
(* incident, release the lock and advance it later.  An agent run calls    *)
(* the model with no lock held.  Time shows only as the steps by which a   *)
(* lease, a strike, a suspension, a breaker, a suppression window or a day *)
(* ends.                                                                   *)
(*                                                                         *)
(* How an arrival finds or opens an incident is in LadderAdmission; here   *)
(* an arrival for an incident's own sig folds into it or reopens it.       *)
(***************************************************************************)
EXTENDS LadderTable

CONSTANTS
  Inc,              \* the incidents
  Ceilings,         \* the ceilings their rules may give them
  Drafts,           \* what PlayFor may resolve: "none", "check", "nocheck"
  CallerEdges,      \* the rows callers attempt
  ResearchWired,    \* Deps.Research # nil
  QuietClose,       \* ladder.quiet_close
  Cooldown,         \* the rules have a Cooldown
  MaxRuns,          \* effective_max_runs
  VerifyReopens, ResearchPlayExtra, ReopenMax,
  WaitAfter,        \* lease attempts after which an incident waits (3 in the code)
  Limit,            \* per-day limits, 0 for none
  MaxFlight,        \* bound: model calls in flight per incident
  MaxSpent          \* bounds: how often the environment may do each thing

Rungs == <<"record", "play", "research", "agent">>
Rank(r) == CHOOSE k \in 1..4 : Rungs[k] = r
Classes == {"play", "research", "agent"}
EnvSteps == {"kill", "fault", "trip", "suppress", "day", "arrive", "human",
             "expire", "age", "call", "verify", "desk"}

ASSUME ConstAssumption ==
  /\ Ceilings \subseteq {Rungs[k] : k \in 1..4}
  /\ Drafts \subseteq {"none", "check", "nocheck"}
  /\ CallerEdges \subseteq EdgeIds
  /\ {ResearchWired, QuietClose, Cooldown} \subseteq BOOLEAN
  /\ {MaxRuns, VerifyReopens, ResearchPlayExtra, ReopenMax, WaitAfter, MaxFlight} \subseteq Nat
  /\ Limit \in [Classes -> Nat]
  /\ MaxSpent \in [EnvSteps -> Nat]

VARIABLES
  inc,       \* the incident states, one record per incident
  kill,      \* gate.KillSwitch
  pending,   \* pending[i]: the stage entry refused under the kill-switch
  tick,      \* which pass the daemon's ladder goroutine is in
  resume,    \* resume[i]: the resume pass's item for i, NoItem if none is left
  drv,       \* the drive pass: ids left, the incident it is at, its next rung
  lease,     \* lease.current: holder, whether the holder knows its id, not run out
  used,      \* the budget counters of the current day
  desk,      \* desk[i]: the row a click on the dashboard is about to drive
  flight,    \* flight[i]: model calls whose answer has not come back
  breaker,   \* breaker[i]: the sig breaker of i; "lapsed" is open past OpenUntil
  suppress,  \* suppress[i]: a suppression window for i's sig is open
  spent      \* how often the environment did each of its steps

vars == <<inc, kill, pending, tick, resume, drv, desk, lease, used, flight, breaker, suppress, spent>>

(* What Advance writes, and the daemon goroutine's own place.              *)
ladder == <<inc, pending, lease, used, breaker, suppress>>
worker == <<tick, resume, drv>>

None == "none"
NoLease == [holder |-> None, owned |-> FALSE, live |-> FALSE]
NoRow == [from |-> None, to |-> None]
NoItem == [from |-> None, to |-> None, at |-> None]
NoDrive == [todo |-> {}, at |-> None, rung |-> 1]

(* newIncidentLocked: the zero values, at `recorded`.                      *)
NewIncident(ceiling, draft) ==
  [state |-> "recorded", ceiling |-> ceiling, draft |-> draft, play |-> None,
   playRuns |-> 0, run |-> None, noRun |-> FALSE, brief |-> None,
   evid |-> None, window |-> None,
   strikes |-> 0, week |-> 0, susp |-> None, result |-> None, folded |-> FALSE,
   reopens |-> 0, illegal |-> 0, tries |-> 0, waiting |-> FALSE]

Init ==
  /\ inc \in [Inc -> {NewIncident(c, d) : c \in Ceilings, d \in Drafts}]
  /\ kill = FALSE
  /\ pending = [i \in Inc |-> NoRow]
  /\ tick = "resume"
  /\ resume = [i \in Inc |-> NoItem]
  /\ drv = NoDrive
  /\ lease = NoLease
  /\ used = [c \in Classes |-> 0]
  /\ desk = [i \in Inc |-> NoEdge]
  /\ flight = [i \in Inc |-> 0]
  /\ breaker = [i \in Inc |-> "closed"]
  /\ suppress = [i \in Inc |-> FALSE]
  /\ spent = [k \in EnvSteps |-> 0]

Can(k) == spent[k] < MaxSpent[k]
Spend(k) == Can(k) /\ spent' = [spent EXCEPT ![k] = @ + 1]

(* Counters stop one past the largest value any guard compares them with.  *)
Up(n, top) == IF n < top THEN n + 1 ELSE top
PlayRunsTop == MaxRuns + VerifyReopens + ResearchPlayExtra + ReopenMax + 3

(* ------------------------------- guards ------------------------------- *)

(* budgetLeftLocked: a limit of zero is no limit.                          *)
Left(c) == Limit[c] = 0 \/ used[c] < Limit[c]

(* guardRungAtLeast: the ceiling reaches the rung and the sig breaker's    *)
(* State is not open, whether or not its OpenUntil has passed.             *)
BreakerHolds(i) == breaker[i] \in {"open", "lapsed"}
RungAtLeast(i, r) == Rank(inc[i].ceiling) >= Rank(r) /\ ~BreakerHolds(i)

(* Mutant: acquire does not look at the current lease.                     *)
LeaseFree_Unread == TRUE

(* leaseTable.acquire's test: no lease, or one that has run out.           *)
LeaseFree == ~lease.live

(* The rows whose guard acquires the host lease (guardAgentEntry).         *)
LeaseEdges == {"T05", "T16", "T23", "T24", "T25", "T31", "T34"}

(* Mutants of guardAgentEntry: a third strike allowed; the budget not read.*)
AgentEntry_ThirdStrike(i, e) == Left("agent") /\ (e = "T34" \/ inc[i].strikes <= 2)
AgentEntry_NoBudget(i, e) == e = "T34" \/ inc[i].strikes < 2

(* guardAgentEntry, up to the lease: budget left, fewer than two strikes.  *)
(* T34 evaluates it with the strikes set aside.                            *)
AgentEntry(i, e) == Left("agent") /\ (e = "T34" \/ inc[i].strikes < 2)

(* Mutant: the cap of T39 off by one.                                      *)
ReopenRunsLeft_OffByOne(x) == x.playRuns <= MaxRuns + VerifyReopens

(* The play caps of T11, T13, T14; of T22; of T39 and T40.                 *)
RunsLeft(x) == x.playRuns < MaxRuns
BriefRunsLeft(x) == x.playRuns < MaxRuns + ResearchPlayExtra
ReopenRunsLeft(x) == x.playRuns < MaxRuns + VerifyReopens
Retries(x) == x.run = "transient" /\ RunsLeft(x)

(* What is left of each row's guard.  T17, T30, T36, T41 and the second    *)
(* half of T40 test facts nothing in the package ever sets (rollback       *)
(* failures, out-of-scope tools, agent mutations, an unevaluable window,   *)
(* the invalid count), so they never hold.                                 *)
RowGuard(i, e, a) ==
  LET x == inc[i] IN
  CASE e = "T03" -> RungAtLeast(i, "play")
    [] e = "T04" -> RungAtLeast(i, "research") /\ ResearchWired /\ Left("research")
    [] e = "T05" -> RungAtLeast(i, "agent")
    [] e = "T06" -> x.ceiling = "record"
    [] e = "T07" -> ~(Left("play") /\ Left("agent"))
    [] e = "T08" -> x.play = "nocheck" => x.ceiling = "play"
    [] e = "T09" -> x.noRun
    [] e = "T10" -> x.run # None
    [] e = "T11" -> ~Retries(x)
    [] e = "T13" -> RunsLeft(x) /\ x.run # "permanent"
    [] e = "T14" -> ~Retries(x) /\ x.ceiling # "play" /\ ResearchWired
    [] e \in {"T15", "T21"} -> ~ResearchWired
    [] e = "T16" -> x.ceiling # "play"
    [] e = "T18" -> x.ceiling = "play"
    [] e = "T19" -> x.brief \in {"text", "play", "degraded"}
    [] e = "T20" -> x.brief \in {None, "empty", "degraded"}
    [] e = "T22" -> x.brief = "play" /\ BriefRunsLeft(x) /\ x.ceiling # "record"
    [] e = "T23" -> x.brief # "play"
    [] e = "T26" -> x.ceiling = "research" \/ ~Left("agent")
    [] e = "T27" -> x.result # None
    [] e = "T28" -> x.result = "failed"
    [] e \in {"T29", "T32"} -> x.strikes >= 2
    [] e = "T33" -> ~Left("agent") \/ x.week >= 4
    [] e = "T34" -> x.susp = "elapsed" /\ a = "quiet"
    [] e = "T35" -> x.strikes >= 3
    [] e = "T38" -> x.evid = "passed"
    [] e = "T39" -> x.evid = "failed" /\ ReopenRunsLeft(x)
    [] e = "T40" -> x.evid = "failed" /\ ~ReopenRunsLeft(x)
    [] e = "T42" -> x.reopens < ReopenMax
    [] e = "T43" -> Left("play")
    [] e = "T44" -> x.folded \/ ~QuietClose
    [] e = "T45" -> QuietClose /\ ~x.folded /\ x.evid = "passed"
    [] e = "T46" -> suppress[i]
    [] e \in {"T01", "T47"} -> (x.illegal >= 3) = (e = "T47")
    [] e = "T48" -> breaker[i] \in {"open", "half"}
    [] e \in {"T17", "T30", "T36", "T41"} -> FALSE
    [] OTHER -> TRUE

Guard(i, e, a) ==
  RowGuard(i, e, a) /\ (e \in LeaseEdges => AgentEntry(i, e) /\ LeaseFree)

(* The guard got as far as the lease and found it held.                    *)
LeaseBusy(i, e, a) ==
  e \in LeaseEdges /\ RowGuard(i, e, a) /\ AgentEntry(i, e) /\ ~LeaseFree

(* ------------------------------- effects ------------------------------ *)

(* What the world answers while a row applies: the research port, the play *)
(* runner (the run's class, and whether a task ran), the index over the    *)
(* suspension window.                                                      *)
Answers(e) ==
  CASE e \in {"T04", "T14"} -> {"error", "empty", "text", "degraded", "play"}
    [] e = "T08"            -> {"changed", "clean", "transient", "permanent"} \X BOOLEAN
    [] e = "T34"            -> {"quiet", "noisy"}
    [] OTHER                -> {None}

(* Work was done or the trouble recurred: a window already opened, and the *)
(* evidence taken over it, now lie in the past.                            *)
Outdated(x) == [x EXCEPT !.window = IF @ = None THEN None ELSE "old"]

(* playCheckStage: with a play, run it.                                    *)
PlayCheck(x, a) ==
  IF x.play = None THEN x
  ELSE Outdated([x EXCEPT !.run = a[1], !.noRun = @ \/ ~a[2]])

(* outletsThenWindow: windowFor keeps the start of a window already set.   *)
OpenWindow(x) == [x EXCEPT !.window = IF @ = None THEN "current" ELSE @]

(* The row's Apply on the incident's own record.                           *)
Applied(i, e, a) ==
  LET x == inc[i] IN
  CASE e = "T03"            -> [x EXCEPT !.play = IF x.draft = None THEN @ ELSE x.draft]
    [] e \in {"T04", "T14"} -> [x EXCEPT !.brief = a]
    [] e = "T06"            -> OpenWindow(x)
    [] e = "T08"            -> PlayCheck(x, a)
    [] e = "T12"            -> OpenWindow([x EXCEPT !.playRuns = Up(@, PlayRunsTop)])
    [] e = "T13"            -> [x EXCEPT !.playRuns = Up(@, PlayRunsTop)]
    [] e = "T27"            -> [x EXCEPT !.result = None]
    [] e = "T28"            -> [x EXCEPT !.result = None, !.strikes = Up(@, 3), !.week = Up(@, 4)]
    [] e \in {"T29", "T32"} -> [x EXCEPT !.susp = "open"]
    [] e = "T34"            -> [x EXCEPT !.strikes = 0, !.week = 0, !.susp = None]
    [] e \in {"T42", "T43"} -> [Outdated(x) EXCEPT !.reopens = Up(@, ReopenMax)]
    [] e = "T46"            -> [x EXCEPT !.state = "suppressed"]
    [] e = "T48"            -> [x EXCEPT !.folded = TRUE]
    [] OTHER                -> x

(* chargeLocked: the class a row is charged to.                            *)
Charge(e, x) ==
  LET add(c) == [used EXCEPT ![c] = Up(@, Limit[c] + 1)] IN
  CASE e = "T03" \/ (e = "T10" /\ x.run = "changed") -> add("play")
    [] e = "T04"        -> add("research")
    [] e \in LeaseEdges -> add("agent")
    [] OTHER            -> used

(* agentStage takes the lease its guard acquired; T27, T28 and T29 release *)
(* the lease whose id the incident knows, if it is still the current one.  *)
Released(i) == IF lease.holder = i /\ lease.owned THEN NoLease ELSE lease

LeaseAfter(i, e) ==
  CASE e \in LeaseEdges            -> [holder |-> i, owned |-> TRUE, live |-> TRUE]
    [] e \in {"T27", "T28", "T29"} -> Released(i)
    [] OTHER                       -> lease

(* openSuppressionAfterTerminal: a Cooldown opens the sig's window, which  *)
(* is its breaker.  Resolving closes a half-open breaker first.            *)
Opens(e) == Cooldown /\ Legal[e].to \in {"resolved", "escalated"}

BreakerAfter(i, e) ==
  CASE Opens(e)                                              -> "open"
    [] ~Opens(e) /\ Legal[e].to = "resolved" /\ breaker[i] = "half" -> "closed"
    [] OTHER                                                 -> breaker[i]

(* ------------------------------- Advance ------------------------------ *)

(* refuseLocked: codes 001 and 017 count as illegal, the third quarantines.*)
Refusal(x, illegal) ==
  LET n == IF illegal THEN Up(x.illegal, 3) ELSE x.illegal
  IN  [x EXCEPT !.illegal = n, !.state = IF illegal /\ n >= 3 THEN "quarantined" ELSE @]

(* leaseTable.acquire found the lease held: the attempt is counted.        *)
Contended(x) ==
  [x EXCEPT !.tries = Up(@, WaitAfter + 1), !.waiting = @ \/ x.tries + 1 > WaitAfter]

(* Mutant: the kill-switch is read when the caller reads the incident only.*)
Outcome_KillUnread(i, e, from, a, ok) ==
  IF from \notin Legal[e].from THEN "illegal"
  ELSE IF ~Guard(i, e, a) THEN "refused"
  ELSE IF e \in {"T04", "T14"} /\ a = "error" THEN "failed"
  ELSE IF ok THEN "accepted" ELSE "unrecorded"

(* Mutant: the row is taken from whatever state the incident is in.        *)
Outcome_FromUnread(i, e, from, a, ok) ==
  IF Legal[e].stage /\ kill THEN "frozen"
  ELSE IF ~Guard(i, e, a) THEN "refused"
  ELSE IF e \in {"T04", "T14"} /\ a = "error" THEN "failed"
  ELSE IF ok THEN "accepted" ELSE "unrecorded"

(* How Advance ends for row e taken from state `from`, with the world's    *)
(* answer a and the ledger accepting the record or not.                    *)
Outcome(i, e, from, a, ok) ==
  IF from \notin Legal[e].from THEN "illegal"
  ELSE IF Legal[e].stage /\ kill THEN "frozen"
  ELSE IF ~Guard(i, e, a) THEN "refused"
  ELSE IF e \in {"T04", "T14"} /\ a = "error" THEN "failed"
  ELSE IF ok THEN "accepted" ELSE "unrecorded"

(* The rows whose guard refuses with code 001 or 017.                      *)
IllegalGuards == {"T01", "T06", "T47"}

Advance(i, e, from, a, ok) ==
  LET o == Outcome(i, e, from, a, ok)
      x == [Applied(i, e, a) EXCEPT !.tries = IF e \in LeaseEdges THEN 0 ELSE @]
  IN
  \/ /\ o = "illegal"
     /\ inc' = [inc EXCEPT ![i] = Refusal(@, TRUE)]
     /\ UNCHANGED <<pending, lease, used, breaker, suppress>>
  \/ /\ o = "frozen"
     /\ pending' = [pending EXCEPT ![i] = [from |-> inc[i].state, to |-> Legal[e].to]]
     /\ UNCHANGED <<inc, lease, used, breaker, suppress>>
  \/ /\ o = "refused"             \* T48's guard turns a lapsed breaker half-open
     /\ inc' = [inc EXCEPT ![i] =
                  Refusal(IF LeaseBusy(i, e, a) THEN Contended(@) ELSE @, e \in IllegalGuards)]
     /\ breaker' = [breaker EXCEPT ![i] = IF e = "T48" /\ @ = "lapsed" THEN "half" ELSE @]
     /\ UNCHANGED <<pending, lease, used, suppress>>
  \/ /\ o = "failed"
     /\ UNCHANGED ladder
  \/ /\ o \in {"accepted", "unrecorded"}
     /\ used' = Charge(e, x)
     /\ lease' = LeaseAfter(i, e)
     /\ suppress' = [suppress EXCEPT ![i] = (o = "accepted" /\ Opens(e))
                                              \/ (@ /\ e \notin {"T44", "T45"})]
     /\ \/ /\ o = "unrecorded"    \* the effects stay, the state does not move
           /\ inc' = [inc EXCEPT ![i] = x]
           /\ UNCHANGED breaker
        \/ /\ o = "accepted"
           /\ inc' = [inc EXCEPT ![i] = [x EXCEPT !.state = Legal[e].to, !.waiting = FALSE]]
           /\ breaker' = [breaker EXCEPT ![i] = BreakerAfter(i, e)]
     /\ UNCHANGED pending

(* Advance with any answer of the world; the ledger may refuse the record  *)
(* as long as faults are left.                                             *)
Attempt(i, e, from, a, ok) ==
  /\ Advance(i, e, from, a, ok)
  /\ IF Outcome(i, e, from, a, ok) = "unrecorded" THEN Spend("fault") ELSE ok /\ UNCHANGED spent

(* A caller drives one row, by its id, from a state it is legal in.        *)
Caller(i, e) ==
  /\ inc[i].state \in Legal[e].from
  /\ \E a \in Answers(e), ok \in BOOLEAN : Attempt(i, e, inc[i].state, a, ok)
  /\ UNCHANGED <<kill, flight, desk, worker>>

(* ------------------------------ the desk ------------------------------ *)

(* Ack and Close read the incident's state, choose their row for it, and   *)
(* drive that row in a second hold of the lock.                            *)
DeskRead(i) ==
  /\ Spend("desk")
  /\ desk[i] = NoEdge
  /\ \E e \in {AckEdge(inc[i].state), CloseEdge(inc[i].state)} \ {NoEdge} :
       desk' = [desk EXCEPT ![i] = e]
  /\ UNCHANGED <<ladder, kill, worker, flight>>

DeskStep(i) ==
  /\ desk[i] # NoEdge
  /\ \E ok \in BOOLEAN : Attempt(i, desk[i], inc[i].state, None, ok)
  /\ desk' = [desk EXCEPT ![i] = NoEdge]
  /\ UNCHANGED <<kill, flight, worker>>

(* ---------------------------- the drive pass -------------------------- *)

RungSteps == <<"T03", "T04", "T05">>

(* Drive: nothing under the kill-switch, else every incident at `recorded`.*)
DriveStart ==
  /\ tick = "drive"
  /\ \A i \in Inc : resume[i] = NoItem
  /\ tick' = "driving"
  /\ drv' = [NoDrive EXCEPT !.todo = IF kill THEN {} ELSE {i \in Inc : inc[i].state = "recorded"}]
  /\ UNCHANGED <<ladder, kill, resume, flight, desk, spent>>

(* DriveOne reads the incident and unlocks.                                *)
DriveRead(i) ==
  /\ tick = "driving" /\ drv.at = None /\ i \in drv.todo
  /\ drv' = [todo |-> drv.todo \ {i}, rung |-> 1,
             at |-> IF kill \/ inc[i].state # "recorded" THEN None ELSE i]
  /\ UNCHANGED <<ladder, kill, tick, resume, flight, desk, spent>>

(* Mutant: the driver walks one rung past the last.                        *)
NextRung_PastEnd == IF drv.rung = 4 THEN [drv EXCEPT !.at = None] ELSE [drv EXCEPT !.rung = @ + 1]

(* DriveOne's next rung: one beyond the ceiling is skipped; an accepted    *)
(* one, or one held by the kill-switch or the sig breaker, ends the pass   *)
(* over the incident; any other refusal goes on to the next rung.          *)
NextRung == IF drv.rung = 3 THEN [drv EXCEPT !.at = None] ELSE [drv EXCEPT !.rung = @ + 1]

Holds(i, o) == o \in {"accepted", "frozen"} \/ (o = "refused" /\ BreakerHolds(i))

DriveStep(i) ==
  LET e == RungSteps[drv.rung] IN
  /\ drv.at = i
  /\ \/ /\ Rank(inc[i].ceiling) < drv.rung + 1
        /\ drv' = NextRung
        /\ UNCHANGED <<ladder, spent>>
     \/ /\ Rank(inc[i].ceiling) >= drv.rung + 1
        /\ \E a \in Answers(e), ok \in BOOLEAN :
             /\ Attempt(i, e, inc[i].state, a, ok)
             /\ drv' = IF Holds(i, Outcome(i, e, inc[i].state, a, ok))
                       THEN [drv EXCEPT !.at = None] ELSE NextRung
  /\ UNCHANGED <<kill, tick, resume, flight, desk>>

DriveEnd ==
  /\ tick = "driving" /\ drv.todo = {} /\ drv.at = None
  /\ tick' = "resume"
  /\ UNCHANGED <<ladder, kill, resume, drv, flight, desk, spent>>

(* --------------------------- the resume pass -------------------------- *)

(* Pending: the rows that are not stale, each from the current state.      *)
IsPending(i) == pending[i] # NoRow /\ (inc[i].state = pending[i].from \/ inc[i].waiting)

(* ResumePending takes its snapshot of the pending set and unlocks.        *)
ResumeStart ==
  /\ tick = "resume"
  /\ tick' = "drive"
  /\ resume' = [i \in Inc |-> IF IsPending(i)
                              THEN [from |-> inc[i].state, to |-> pending[i].to, at |-> "wait"]
                              ELSE NoItem]
  /\ UNCHANGED <<ladder, kill, drv, flight, desk, spent>>

(* The kill-switch is read, without the lock, before each item.            *)
ResumeCheck(i) ==
  /\ \A j \in Inc : resume[j].at \in {None, "wait"}
  /\ resume[i] # NoItem
  /\ resume' = IF kill THEN [j \in Inc |-> NoItem] ELSE [resume EXCEPT ![i].at = "advance"]
  /\ UNCHANGED <<ladder, kill, tick, drv, flight, desk, spent>>

(* resolveEdge by From and To.  Between two states of the table there is   *)
(* at most one row into a stage.                                           *)
Matches(p) == {e \in EdgeIds : p.from \in Legal[e].from /\ Legal[e].to = p.to}

(* Advance without a row id: no row whose guard holds is code 001.         *)
Unresolved(i, x) ==
  /\ inc' = [inc EXCEPT ![i] = Refusal(x, TRUE)]
  /\ UNCHANGED <<pending, lease, used, breaker, suppress, spent>>

(* A row whose guard acquired the lease: Advance evaluates the guard again *)
(* and finds the lease held, by nobody who knows its id.                   *)
LeaseTaken(i, p) ==
  /\ lease' = [holder |-> i, owned |-> FALSE, live |-> TRUE]
  /\ IF kill
     THEN /\ pending' = [pending EXCEPT ![i] = [from |-> inc[i].state, to |-> p.to]]
          /\ inc' = [inc EXCEPT ![i].tries = 0]
     ELSE /\ inc' = [inc EXCEPT ![i] = Contended([@ EXCEPT !.tries = 0])]
          /\ UNCHANGED pending
  /\ UNCHANGED <<used, breaker, suppress, spent>>

ResumeStep(i) ==
  LET p == resume[i]
      done(ok) == resume' = [resume EXCEPT ![i] = IF ok THEN [@ EXCEPT !.at = "clear"] ELSE NoItem]
  IN
  /\ p.at = "advance"
  /\ \/ Matches(p) = {} /\ Unresolved(i, inc[i]) /\ done(FALSE)
     \/ \E e \in Matches(p), ok \in BOOLEAN : \E a \in Answers(e) :
          \/ /\ ~Guard(i, e, a) /\ ok
             /\ Unresolved(i, IF LeaseBusy(i, e, a) THEN Contended(inc[i]) ELSE inc[i])
             /\ done(FALSE)
          \/ /\ Guard(i, e, a) /\ e \in LeaseEdges /\ ok
             /\ LeaseTaken(i, p)
             /\ done(FALSE)
          \/ /\ Guard(i, e, a) /\ e \notin LeaseEdges
             /\ Attempt(i, e, p.from, a, ok)
             /\ done(Outcome(i, e, p.from, a, ok) = "accepted")
  /\ UNCHANGED <<kill, tick, drv, flight, desk>>

(* ResumePending takes the lock again and drops the row it ran.            *)
ResumeClear(i) ==
  /\ resume[i].at = "clear"
  /\ pending' = [pending EXCEPT ![i] = NoRow]
  /\ resume' = [resume EXCEPT ![i] = NoItem]
  /\ UNCHANGED <<inc, lease, used, breaker, suppress, kill, tick, drv, flight, desk, spent>>

Worker ==
  \/ DriveStart \/ DriveEnd \/ ResumeStart
  \/ \E i \in Inc : DriveRead(i) \/ DriveStep(i) \/ ResumeCheck(i) \/ ResumeStep(i) \/ ResumeClear(i)

(* --------------------- operator, world and the clock ------------------ *)

(* SetGates with the kill-switch flipped.                                  *)
SetKillSwitch ==
  /\ Spend("kill")
  /\ kill' = ~kill
  /\ UNCHANGED <<ladder, worker, flight, desk>>

(* Verify at a window's start or close, over the incident's window or one  *)
(* the caller chose after the last work.  What an old window shows no      *)
(* longer changes, save that a gap record may still invalidate it.         *)
Verify(i) ==
  /\ Spend("verify")
  /\ inc[i].state \in {"verifying", "suppressed"}
  /\ \E w \in {inc[i].window, "current"} \ {None}, r \in {"passed", "failed", "invalid"} :
       /\ w = "old" => r \in {inc[i].evid, "invalid"}
       /\ inc' = [inc EXCEPT ![i].evid = r, ![i].window = w]
  /\ UNCHANGED <<kill, pending, lease, used, breaker, suppress, worker, flight, desk>>

(* RunAgentStage: its gates, then the call with no lock held.              *)
CallStart(i) ==
  /\ Spend("call")
  /\ inc[i].state = "agent:running" /\ ~kill /\ Left("agent")
  /\ flight[i] < MaxFlight
  /\ flight' = [flight EXCEPT ![i] = @ + 1]
  /\ UNCHANGED <<ladder, kill, worker, desk>>

(* The answer is recorded, whatever became of the incident meanwhile; an   *)
(* answer whose record fails leaves no result.                             *)
CallDone(i) ==
  /\ flight[i] > 0
  /\ flight' = [flight EXCEPT ![i] = @ - 1]
  /\ \E r \in {"done", "failed", None} :
       /\ IF r = None THEN Spend("fault") ELSE UNCHANGED spent
       /\ inc' = [inc EXCEPT ![i] = Outdated([@ EXCEPT !.result = r])]
  /\ UNCHANGED <<kill, pending, lease, used, breaker, suppress, worker, desk>>

(* An arrival for the incident's sig outside a suppression window: held by *)
(* the breaker it folds; else it reopens a resolved or escalated incident. *)
Arrive(i) ==
  LET x == inc[i]
      over == x.state \in {"resolved", "escalated"}
  IN
  /\ Spend("arrive")
  /\ ~suppress[i]
  /\ \/ /\ breaker[i] \in {"open", "half"}
        /\ ~over
        /\ inc' = [inc EXCEPT ![i].folded = TRUE]
        /\ UNCHANGED breaker
     \/ /\ breaker[i] \in {"closed", "lapsed"}
        /\ breaker' = [breaker EXCEPT ![i] = IF @ = "lapsed" THEN "half" ELSE @]
        /\ inc' = [inc EXCEPT ![i] =
                     IF over /\ x.reopens < ReopenMax
                     THEN [Outdated(x) EXCEPT !.state = "recorded", !.reopens = @ + 1] ELSE x]
  /\ UNCHANGED <<kill, pending, lease, used, suppress, worker, flight, desk>>

(* Quarantine and Unquarantine: an operator's moves around the table.      *)
Quarantine(i) ==
  /\ Spend("human")
  /\ inc[i].state # "quarantined"
  /\ inc' = [inc EXCEPT ![i].state = "quarantined"]
  /\ UNCHANGED <<kill, pending, lease, used, breaker, suppress, worker, flight, desk>>

Unquarantine(i) ==
  /\ Spend("human")
  /\ inc[i].state = "quarantined"
  /\ inc' = [inc EXCEPT ![i].state = "recorded"]
  /\ UNCHANGED <<kill, pending, lease, used, breaker, suppress, worker, flight, desk>>

(* TripBreaker for the incident's sig, and Suppress.                       *)
Trip(i) ==
  /\ \/ Spend("trip") /\ UNCHANGED suppress
     \/ Spend("suppress") /\ suppress' = [suppress EXCEPT ![i] = TRUE]
  /\ breaker' = [breaker EXCEPT ![i] = "open"]
  /\ UNCHANGED <<inc, kill, pending, lease, used, worker, flight, desk>>

(* Time: a suppression window ends no later than the breaker it opened.    *)
Lapse(i) ==
  /\ \/ suppress[i] /\ suppress' = [suppress EXCEPT ![i] = FALSE] /\ UNCHANGED breaker
     \/ /\ ~suppress[i] /\ breaker[i] = "open"
        /\ breaker' = [breaker EXCEPT ![i] = "lapsed"] /\ UNCHANGED suppress
  /\ UNCHANGED <<inc, kill, pending, lease, used, worker, flight, desk, spent>>

LeaseExpires ==
  /\ Spend("expire")
  /\ lease.live
  /\ lease' = [lease EXCEPT !.live = FALSE]
  /\ UNCHANGED <<inc, kill, pending, used, breaker, suppress, worker, flight, desk>>

(* A strike leaves the window, or the week; a suspension, which outlasts   *)
(* the strikes that caused it, elapses.                                    *)
Ages(i) ==
  LET x == inc[i] IN
  /\ Spend("age")
  /\ \/ x.strikes > 0 /\ inc' = [inc EXCEPT ![i].strikes = @ - 1]
     \/ x.week > x.strikes /\ inc' = [inc EXCEPT ![i].week = @ - 1]
     \/ x.susp = "open" /\ x.strikes < 2 /\ inc' = [inc EXCEPT ![i].susp = "elapsed"]
  /\ UNCHANGED <<kill, pending, lease, used, breaker, suppress, worker, flight, desk>>

NewDay ==
  /\ Spend("day")
  /\ used' = [c \in Classes |-> 0]
  /\ UNCHANGED <<inc, kill, pending, lease, breaker, suppress, worker, flight, desk>>

Next ==
  \/ \E i \in Inc, e \in CallerEdges : Caller(i, e)
  \/ Worker
  \/ SetKillSwitch \/ LeaseExpires \/ NewDay
  \/ \E i \in Inc : \/ DeskRead(i) \/ DeskStep(i) \/ Verify(i) \/ CallStart(i) \/ CallDone(i) \/ Arrive(i)
                    \/ Quarantine(i) \/ Unquarantine(i) \/ Trip(i) \/ Lapse(i) \/ Ages(i)

(* The daemon's goroutine keeps ticking, and open windows end.             *)
Fairness == WF_vars(Worker) /\ \A i \in Inc : WF_vars(Lapse(i))

Spec == Init /\ [][Next]_vars /\ Fairness
-----------------------------------------------------------------------------
(* -------------------------------- types ------------------------------- *)

Incident ==
  [state : States, ceiling : Ceilings, draft : Drafts, play : Drafts \cup {None},
   playRuns : 0..PlayRunsTop, run : {None, "changed", "clean", "transient", "permanent"},
   noRun : BOOLEAN, brief : {None, "empty", "text", "degraded", "play"},
   evid : {None, "passed", "failed", "invalid"}, window : {None, "current", "old"},
   strikes : 0..3, week : 0..4,
   susp : {None, "open", "elapsed"}, result : {None, "done", "failed"}, folded : BOOLEAN,
   reopens : 0..ReopenMax, illegal : 0..3, tries : 0..WaitAfter + 1, waiting : BOOLEAN]

Row == [from : States \cup {None}, to : States \cup {None}]
Item == [from : States \cup {None}, to : States \cup {None}, at : {None, "wait", "advance", "clear"}]

(* The rows a click may drive (AckEdge, CloseEdge).                        *)
DeskRows == {"T38", "T45", "T49", "T50"}

(* The type invariant of the ladder's maps (ladder.go's Ladder, incState). *)
TypeOK ==
  /\ inc \in [Inc -> Incident]
  /\ kill \in BOOLEAN
  /\ pending \in [Inc -> Row]
  /\ tick \in {"resume", "drive", "driving"}
  /\ resume \in [Inc -> Item]
  /\ drv \in [todo : SUBSET Inc, at : Inc \cup {None}, rung : 1..3]
  /\ lease \in [holder : Inc \cup {None}, owned : BOOLEAN, live : BOOLEAN]
  /\ used \in [Classes -> Nat]
  /\ desk \in [Inc -> DeskRows \cup {NoEdge}]
  /\ flight \in [Inc -> 0..MaxFlight]
  /\ breaker \in [Inc -> {"closed", "open", "lapsed", "half"}]
  /\ suppress \in [Inc -> BOOLEAN]
  /\ spent \in [EnvSteps -> Nat]

(* ------------------------- what the ladder keeps ---------------------- *)

Running(i) == inc[i].state = "agent:running"

(* An agent run is under way only below two strikes: through retries,      *)
(* suspensions, reopenings, folds and resumed entries alike no path leads  *)
(* an incident with two strikes in the window back to the agent            *)
(* (guardAgentEntry, T31, T32, T34).                                       *)
TwoStrikes == \A i \in Inc : Running(i) => inc[i].strikes < 2

(* While no lease runs out and the ledger accepts every record, an         *)
(* incident in agent:running holds the host lease under an id it can       *)
(* release, so there is one agent run per host (leaseTable.acquire,        *)
(* agentStage, release), whoever else asked for the lease meanwhile.       *)
RunnerHoldsLease == \A i \in Inc : Running(i) => lease.holder = i /\ lease.owned

(* The agent runs entered in a day never exceed agent_runs_per_day: every  *)
(* path into agent:running, the resumed ones too, tests the budget it      *)
(* charges (guardAgentEntry, agentStage, chargeLocked).                    *)
AgentBudget == Limit["agent"] > 0 => used["agent"] <= Limit["agent"]

(* How often at most an incident started up the ladder again: recurrences, *)
(* and releases from quarantine by an operator.                            *)
Climbs(i) == inc[i].reopens + spent["human"]

(* The caps of T13, T22 and T39 add up to no more than the largest of      *)
(* them, and starting up the ladder again allows one run more: retries,    *)
(* briefs, reopened windows, recurrences and operators' moves in any order *)
(* never run a play more often.                                            *)
PlayCap ==
  \A i \in Inc : inc[i].playRuns <= Climbs(i) + MaxRuns +
     (IF VerifyReopens > ResearchPlayExtra THEN VerifyReopens ELSE ResearchPlayExtra)

(* An incident a human has acknowledged leaves that state by a close or a  *)
(* quarantine alone (SPEC-05 3.2a), whatever driver or second click had    *)
(* read it before; entries resumed after a kill-switch are the exception   *)
(* (Advance's From test).                                                  *)
AckHasTwoExits ==
  [][\A i \in Inc : inc[i].state = "acknowledged"
        => inc'[i].state \in {"acknowledged", "resolved", "quarantined"}]_vars

WorkStates == {"play:check_only", "play:applied", "research:requested", "agent:running"}

(* Under the kill-switch no incident enters a state in which a play, a     *)
(* research request or an agent runs, not even by an advance the driver or *)
(* the resume pass had begun before the switch was set (Advance, INV-3).   *)
KillFreezesWork ==
  [][kill => \A i \in Inc : inc'[i].state \in WorkStates => inc'[i].state = inc[i].state]_vars

(* Where the driver leaves the incidents: none that is to be worked on     *)
(* stays at `recorded`, unless the kill-switch or its breaker holds it     *)
(* (Drive, DriveOne).                                                      *)
Moved ==
  \A i \in Inc : (inc[i].state = "recorded" /\ inc[i].ceiling # "record") => kill \/ BreakerHolds(i)

(* Where the resume pass leaves the refused entries once the switch is     *)
(* off: each is run, or its incident moved on, or repeated refusals        *)
(* quarantined it; only an entry into the agent stage may keep waiting,    *)
(* for the lease (Pending, ResumePending).                                 *)
Settled ==
  \A i \in Inc : IsPending(i) => \/ kill \/ inc[i].state = "quarantined"
                                  \/ pending[i].to = "agent:running"

(* ------------------- what the documents say of the ladder ------------- *)

(* ResumePending runs the pending entries the gates now allow.             *)
ResumeRunsAgent ==
  [][\A i \in Inc :
       (resume[i].at = "advance" /\ resume'[i] # resume[i] /\ ~kill
          /\ \E e \in Matches(resume[i]) \cap LeaseEdges : Guard(i, e, None))
        => inc'[i].state = "agent:running"]_vars
=============================================================================
