------------------------------ MODULE UnitWatch ------------------------------
(* The D-Bus sensor of internal/sensors: systemd's signals and the sweep of  *)
(* ListUnits both arrive at one merge tracker, which makes one story of a    *)
(* unit's failure; the boot gate holds the units found failed at start and   *)
(* admits them a paced slice at a time.  A sweep decides every unit first    *)
(* and writes its drafts as one batch.  Time is kept as ages, each capped    *)
(* where no guard can tell it from a longer one.                             *)
EXTENDS Naturals, Sequences, SequencesExt, FiniteSetsExt

CONSTANTS
  Managers,      \* the watched managers, in the order a sweep visits them
  UnitsOf,       \* manager -> its units, whose names are distinct
  Signals,       \* what systemd may say of a unit: substates, and "job"
  Window,        \* sensors.merge_window
  CrashWin, Absorb, Cooldown, \* crashLoopWindow, crashLoopAbsorb, the rules' cooldown
  BootWindow, DrainEvery,     \* bootStabilizeWindow, bootDrainInterval
  AdmitPerSweep, HoldMax,     \* bootAdmitPerSweep, bootHoldMax
  Resyncs,       \* how often NameOwnerChanged may be heard
  MaxFaults, MaxFalls, MaxSignals

VARIABLES
  state,   \* unit -> what systemd says of it
  falls,   \* how often a unit has failed since the start
  said,    \* signals sent and not handled yet
  inc,     \* mergeTracker.incidents
  fails,   \* mergeTracker.failures: the ages of a unit's last failures
  cool,    \* cooldownTable: what is left of each (rule, sig)
  gate,    \* bootStabilizer
  turn,    \* the sweep: the managers still to visit, whether it may start again
  job,     \* goroutine -> the reconcile it is in
  count,   \* spent bounds: faults, resyncs, signals
  story,   \* unit -> what is durable of its present failure
  recent   \* ages of the durable admission fires

vars == <<state, falls, said, inc, fails, cool, gate, turn, job, count, story, recent>>

Units == UNION {UnitsOf[m] : m \in ToSet(Managers)}
Classes == Signals \union {"failed", "crash_loop"}
Rules == {"unit", "crash"}
None == [class |-> "none", age |-> 0, crash |-> FALSE, left |-> 0]
NoJob == [at |-> "idle", man |-> "none", todo |-> {}, free |-> {}, drafts |-> {}]
Fresh == [boot |-> FALSE, fires |-> 0, seen |-> FALSE, cut |-> FALSE]
Cap(n, top) == IF n < top THEN n ELSE top

(* startDBus: the gate is armed before the first sweep, the last drain is   *)
(* the zero time.                                                           *)
Init ==
  /\ state \in [Units -> {"running", "failed"}]
  /\ falls = 0 /\ said = {}
  /\ inc = [u \in Units |-> None] /\ fails = [u \in Units |-> <<>>]
  /\ cool = [x \in Units \X Rules \X Classes |-> 0]
  /\ gate = [held |-> {}, admitted |-> {}, order |-> <<>>, released |-> <<>>, fires |-> {},
             drain |-> DrainEvery, left |-> BootWindow]
  /\ turn = [rest |-> Managers, may |-> FALSE, boot |-> TRUE]
  /\ job = [g \in {"sweep", "resync"} |-> NoJob]
  /\ count = [faults |-> 0, resyncs |-> 0, signals |-> 0]
  /\ story = [u \in Units |-> [Fresh EXCEPT !.boot = state[u] = "failed"]]
  /\ recent = <<>>
-----------------------------------------------------------------------------
(* systemd: a unit fails or comes back, and may say so.  A signal is not    *)
(* sent for a unit whose match is not added, and is lost at a full channel. *)
Fall(u, sent) ==
  /\ state[u] = "running" /\ falls < MaxFalls /\ count.signals + Cardinality(sent) <= MaxSignals
  /\ state' = [state EXCEPT ![u] = "failed"] /\ falls' = falls + 1
  /\ said' = said \union {<<u, s>> : s \in sent}
  /\ count' = [count EXCEPT !.signals = @ + Cardinality(sent)]
  /\ story' = [story EXCEPT ![u] = Fresh]
  /\ UNCHANGED <<inc, fails, cool, gate, turn, job, recent>>

Recover(u) ==
  /\ state[u] = "failed" /\ falls < MaxFalls
  /\ state' = [state EXCEPT ![u] = "running"]
  /\ story' = [story EXCEPT ![u] = Fresh]
  /\ UNCHANGED <<falls, said, inc, fails, cool, gate, turn, job, count, recent>>

Older(i) == [i EXCEPT !.age = Cap(@ + 1, Window + 1), !.left = IF @ = 0 THEN 0 ELSE @ - 1]
Aged(s, top) == SelectSeq([i \in DOMAIN s |-> s[i] + 1], LAMBDA a : a < top)

(* A tick is longer than a round of the sweep: none passes within one.      *)
Tick ==
  /\ ~turn.boot /\ turn.rest = <<>> /\ \A g \in DOMAIN job : job[g] = NoJob
  /\ inc' = [u \in Units |-> IF inc[u] = None THEN None ELSE Older(inc[u])]
  /\ fails' = [u \in Units |-> Aged(fails[u], CrashWin)]
  /\ cool' = [x \in DOMAIN cool |-> IF cool[x] = 0 THEN 0 ELSE cool[x] - 1]
  /\ gate' = [gate EXCEPT !.drain = Cap(@ + 1, DrainEvery), !.left = IF @ = 0 THEN 0 ELSE @ - 1]
  /\ recent' = Aged(recent, DrainEvery)
  /\ turn' = [turn EXCEPT !.may = TRUE]
  /\ UNCHANGED <<state, falls, said, job, count, story>>
-----------------------------------------------------------------------------
(* isFailure: a restart and a job's end count as failures like the failure   *)
(* itself, and so does every sweep that finds the unit failed.              *)
IsFailure(said_) == said_ \in {"failed", "auto-restart", "job"}
Fails(u, s) == IF IsFailure(s) THEN <<0>> \o SubSeq(fails[u], 1, Cap(Len(fails[u]), 2)) ELSE fails[u]
CrashNow(u, s) == IsFailure(s) /\ Len(Fails(u, s)) >= 3

(* mergeTracker.arrival.  No caller ever resolves a story: a story is        *)
(* left only by a crash loop whose absorption is over.                      *)
Open(u) == IF inc[u].crash /\ inc[u].left = 0 THEN None ELSE inc[u]
Looping(i) == [i EXCEPT !.class = "crash_loop", !.crash = TRUE, !.left = Absorb]
Opens(u, s) ==
  LET new == [class |-> s, age |-> 0, crash |-> FALSE, left |-> 0]
  IN  IF CrashNow(u, s) THEN Looping(new) ELSE new
Joins(u, s) ==
  LET now == IF CrashNow(u, s) THEN Looping(inc[u]) ELSE inc[u]
  IN  IF s = "job" /\ ~now.crash /\ inc[u].age <= Window THEN [now EXCEPT !.class = "job"] ELSE now
Arrival(u, s) ==
  IF Open(u) = None THEN Opens(u, s) ELSE IF Open(u).crash THEN inc[u] ELSE Joins(u, s)
Outcome(u, s) ==
  CASE Open(u) = None -> "opened"
    [] Open(u).crash \/ Open(u).age <= Window -> "attached"
    [] OTHER -> "counted"

(* evaluateEvent with the two D-Bus rules: a failed substate, a crash loop.  *)
Matched(i, s) == (IF s = "failed" THEN {"unit"} ELSE {}) \union (IF i.crash THEN {"crash"} ELSE {})
Fires(u, i, s) == {<<u, r, i.class>> : r \in {x \in Matched(i, s) : cool[<<u, x, i.class>>] = 0}}
Cooled(keys) == [x \in DOMAIN cool |-> IF x \in keys THEN Cooldown ELSE cool[x]]
First(keys) == IF \E k \in keys : k[2] = "unit" THEN {k \in keys : k[2] = "unit"} ELSE keys

(* handleSignal and emitDBusOutcome: the record is written at once.          *)
Signal(u, s) ==
  LET i == Arrival(u, s)
      keys == Fires(u, i, s)
  IN  /\ <<u, s>> \in said
      /\ said' = said \ {<<u, s>>}
      /\ inc' = [inc EXCEPT ![u] = i]
      /\ fails' = [fails EXCEPT ![u] = Fails(u, s)]
      /\ cool' = Cooled(keys)
      /\ story' = [story EXCEPT ![u].seen = @ \/ keys # {}]
      /\ UNCHANGED <<state, falls, gate, turn, job, count, recent>>
-----------------------------------------------------------------------------
(* sweepRecovery: what is held or admitted of a manager and is not failed    *)
(* any more is forgotten.                                                   *)
Failed(m) == {u \in UnitsOf[m] : state[u] = "failed"}
Gone(m) == UnitsOf[m] \ Failed(m)
SweepRecovery(g, m) ==
  [g EXCEPT !.held = @ \ Gone(m), !.admitted = @ \ Gone(m),
            !.order = SelectSeq(@, LAMBDA u : u \notin UnitsOf[m] \/ u \in g.held \ Gone(m))]

(* drainReady: the pace is one for all managers, the slice is the asking     *)
(* manager's.                                                               *)
FirstOf(s, n) == SubSeq(s, 1, Cap(Len(s), n))
Slice(g, m) == FirstOf(SelectSeq(g.order, LAMBDA u : u \in UnitsOf[m]), AdmitPerSweep)
Ready(g) == g.drain >= DrainEvery /\ Len(g.order) > 0
DrainReady(g, m) ==
  IF ~Ready(g) THEN g
  ELSE [g EXCEPT !.drain = 0, !.released = Slice(g, m),
                 !.held = @ \ ToSet(Slice(g, m)), !.admitted = @ \union ToSet(Slice(g, m)),
                 !.order = SelectSeq(@, LAMBDA u : u \notin ToSet(Slice(g, m)))]

(* reconcile: ListUnits, then the gate is swept and drained.                 *)
Reconcile(g, m) ==
  LET swept == SweepRecovery(gate, m)
  IN  /\ job[g] = NoJob
      /\ gate' = DrainReady(swept, m)
      /\ job' = [job EXCEPT ![g] = [at |-> "decide", man |-> m, todo |-> Failed(m),
                    free |-> IF Ready(swept) THEN ToSet(Slice(swept, m)) ELSE {}, drafts |-> {}]]
      /\ UNCHANGED <<state, falls, said, inc, fails, cool, story, recent>>

(* runReconcileSweep visits the managers in order, the first time within     *)
(* startDBus, before its ticker runs; a resync is the signal    *)
(* goroutine's own, after NameOwnerChanged.                                  *)
Visit ==
  /\ turn.rest # <<>>
  /\ Reconcile("sweep", Head(turn.rest))
  /\ turn' = [turn EXCEPT !.rest = Tail(@)] /\ UNCHANGED count
NextRound ==
  /\ turn.rest = <<>> /\ (turn.may \/ turn.boot) /\ job["sweep"] = NoJob
  /\ turn' = [rest |-> IF turn.boot THEN <<>> ELSE Managers, may |-> FALSE, boot |-> FALSE]
  /\ UNCHANGED <<state, falls, said, inc, fails, cool, gate, job, count, story, recent>>
Resync(m) ==
  /\ count.resyncs < Resyncs
  /\ count' = [count EXCEPT !.resyncs = @ + 1]
  /\ Reconcile("resync", m) /\ UNCHANGED turn
-----------------------------------------------------------------------------
(* classify: a first sight inside the window is held, at the bound in place  *)
(* of the oldest.                                                           *)
Disposition(u) ==
  CASE u \in gate.held -> "hold"
    [] u \in gate.admitted -> "suppress"
    [] gate.left = 0 -> "pass"
    [] OTHER -> "new"
Evicted == IF Cardinality(gate.held) >= HoldMax /\ gate.order # <<>> THEN {Head(gate.order)} ELSE {}
Hold(u) ==
  [gate EXCEPT !.held = (@ \ Evicted) \union {u},
               !.order = Append(IF Evicted = {} THEN @ ELSE Tail(@), u)]

Draft(u, kind, keys) == [unit |-> u, kind |-> kind, fires |-> keys]
Decided(g, u, drafts) ==
  job' = [job EXCEPT ![g].todo = @ \ {u}, ![g].drafts = @ \union drafts]

(* One unit of runBootInventoryGate that is held: recorded, not fired, and   *)
(* its story stays closed.                                                  *)
DecideHeld(g, u) ==
  /\ job[g].at = "decide" /\ u \in job[g].todo \ job[g].free
  /\ Disposition(u) \in {"hold", "new"}
  /\ gate' = IF Disposition(u) = "new" THEN Hold(u) ELSE gate
  /\ Decided(g, u, {Draft(u, "held", {})})
  /\ UNCHANGED <<state, falls, said, inc, fails, cool, turn, count, story, recent>>

(* An admitted unit whose story is open: the accounting without the rules.   *)
DecideSuppressed(g, u) ==
  /\ job[g].at = "decide" /\ u \in job[g].todo \ job[g].free
  /\ Disposition(u) = "suppress"
  /\ inc' = [inc EXCEPT ![u] = Arrival(u, "failed")]
  /\ fails' = [fails EXCEPT ![u] = Fails(u, "failed")]
  /\ Decided(g, u, IF Outcome(u, "failed") = "counted" THEN {} ELSE {Draft(u, "suppressed", {})})
  /\ UNCHANGED <<state, falls, said, cool, gate, turn, count, story, recent>>

(* A released unit is always drafted, one the gate passes only if its        *)
(* arrival was not merely counted; both run the rules.                       *)
DecideFired(g, u) ==
  LET i == Arrival(u, "failed")
      out == Outcome(u, "failed")
      kind == IF u \in job[g].free THEN "admitted" ELSE "passed"
      keys == IF out = "counted" /\ kind = "passed" THEN {} ELSE Fires(u, i, "failed")
  IN  /\ job[g].at = "decide" /\ u \in job[g].todo
      /\ u \in job[g].free \/ Disposition(u) = "pass"
      /\ inc' = [inc EXCEPT ![u] = i]
      /\ fails' = [fails EXCEPT ![u] = Fails(u, "failed")]
      /\ cool' = Cooled(keys)
      /\ Decided(g, u, IF out = "counted" /\ kind = "passed" THEN {} ELSE {Draft(u, kind, keys)})
      /\ UNCHANGED <<state, falls, said, gate, turn, count, story, recent>>

(* noteFired, and the batch goes to the writer.                              *)
Spent(drafts) == UNION {First(d.fires) : d \in {x \in drafts : x.kind = "admitted"}}
Batch(g) ==
  /\ job[g].at = "decide" /\ job[g].todo = {}
  /\ gate' = [gate EXCEPT !.fires = @ \union Spent(job[g].drafts)]
  /\ job' = [job EXCEPT ![g] = IF @.drafts = {} THEN NoJob ELSE [@ EXCEPT !.at = "write"]]
  /\ UNCHANGED <<state, falls, said, inc, fails, cool, turn, count, story, recent>>
-----------------------------------------------------------------------------
(* emitBatchOutcome.  A batch that landed settles the released slice.        *)
Landed(g) ==
  LET lit == {d \in job[g].drafts : d.fires # {}}
      admitted == {d \in lit : d.kind = "admitted"}
  IN  /\ job[g].at = "write"
      /\ gate' = [gate EXCEPT !.released = <<>>, !.fires = {}]
      /\ story' = [u \in Units |->
            IF state[u] = "failed" /\ \E d \in lit : d.unit = u
            THEN [story[u] EXCEPT !.fires = Cap(@ + 1, 2), !.seen = TRUE] ELSE story[u]]
      /\ recent' = recent \o [i \in 1..Cardinality(admitted) |-> 0]
      /\ job' = [job EXCEPT ![g] = NoJob]
      /\ UNCHANGED <<state, falls, said, inc, fails, cool, turn, count>>

(* A refused batch: the slice is held again, at the front, its cooldowns are *)
(* handed back and the next sweep may drain at once.  A unit the gate passed *)
(* keeps its open story and its cooldown: its fire is cut off for good.      *)
Rehold(g) ==
  LET back == SelectSeq(g.released, LAMBDA u : u \notin g.held)
  IN  [g EXCEPT !.admitted = @ \ ToSet(back), !.held = @ \union ToSet(back), !.order = back \o @,
                !.released = <<>>, !.fires = {},
                !.drain = IF back \o g.order = <<>> THEN @ ELSE DrainEvery]
Refused(g) ==
  /\ job[g].at = "write" /\ count.faults < MaxFaults
  /\ count' = [count EXCEPT !.faults = @ + 1]
  /\ gate' = Rehold(gate)
  /\ cool' = [x \in DOMAIN cool |-> IF x \in gate.fires THEN 0 ELSE cool[x]]
  /\ story' = [u \in Units |-> [story[u] EXCEPT !.cut = @ \/ \E d \in job[g].drafts :
                                                           d.unit = u /\ d.kind = "passed" /\ d.fires # {}]]
  /\ job' = [job EXCEPT ![g] = NoJob]
  /\ UNCHANGED <<state, falls, said, inc, fails, turn, recent>>

Decides(g, u) == DecideHeld(g, u) \/ DecideSuppressed(g, u) \/ DecideFired(g, u)
Reconciles(g) == (\E u \in Units : Decides(g, u)) \/ Batch(g) \/ Landed(g)
Next ==
  \/ \E u \in Units, sent \in SUBSET Signals : Fall(u, sent)
  \/ \E u \in Units : Recover(u)
  \/ Tick \/ Visit \/ NextRound
  \/ \E m \in ToSet(Managers) : Resync(m)
  \/ \E u \in Units, s \in Signals : Signal(u, s)
  \/ \E g \in {"sweep", "resync"} : Reconciles(g) \/ Refused(g)

(* Goroutines that are scheduled, a ticker that fires, a writer that answers *)
(* and a bus that delivers.                                                 *)
Fairness ==
  /\ WF_vars(Tick) /\ WF_vars(Visit) /\ WF_vars(NextRound)
  /\ \A g \in {"sweep", "resync"} : WF_vars(Reconciles(g))
Spec == Init /\ [][Next]_vars /\ Fairness
-----------------------------------------------------------------------------
TypeOK ==
  /\ state \in [Units -> {"running", "failed"}] /\ said \subseteq Units \X Signals
  /\ \A u \in Units : inc[u] = None \/ inc[u].class \in Classes
  /\ gate.held \union gate.admitted \subseteq Units /\ gate.drain \in 0..DrainEvery

(* The hold table and its order name the same units, and none of them is     *)
(* admitted: a held unit can be drained, and a drained one is not held       *)
(* again (classify, drainReady, sweepRecovery, reholdPending).               *)
HoldsOrdered ==
  /\ ToSet(gate.order) = gate.held /\ IsInjective(gate.order)
  /\ gate.held \cap gate.admitted = {}
  /\ Cardinality(gate.held) <= HoldMax

(* A unit found failed at boot that stays failed is fired by the sweeps at   *)
(* most once, however often they see it and however often a batch is        *)
(* refused (runBootInventoryGate: "a real fire, exactly once").              *)
FiredOnce == \A u \in Units : story[u].boot => story[u].fires <= 1

(* No more than AdmitPerSweep admission fires become durable in any          *)
(* DrainEvery, whatever number of managers reconcile (drainReady).           *)
Paced == Len(recent) <= AdmitPerSweep

(* A unit of the first manager that failed before the boot is fired in the  *)
(* end (bootStabilizer: a released unit that is still failed opens its real  *)
(* merge story).  The other managers' units may wait for ever: the first one *)
(* takes each drain, whether it has holds or not.  And a unit dropped from a *)
(* full hold table may be cut off by a refused batch.                        *)
HeldOut == \A u \in UnitsOf[Head(Managers)] : story[u].boot => story[u].seen \/ story[u].cut
=============================================================================
