----------------------------- MODULE SensorGate -----------------------------
(* The detection plane's rule pipeline (internal/sensors): evaluateEvent    *)
(* runs an observation through the live rules, their stabilization timers, *)
(* cooldowns and storm breakers, while Reload swaps the rule set under it. *)
(* Each sensor is a goroutine of its own; the tables are locked call by    *)
(* call.  Time is in minutes: a breaker's ring of 180 one-second buckets is *)
(* a ring of three.                                                        *)
EXTENDS Naturals, Sequences, FiniteSets, FiniteSetsExt

CONSTANTS
  Procs,         \* the sensors; each observes one signature
  RulesOf,       \* the rules of each sensor, in evaluation order
  For, Cooldown, \* the rules' for= and cooldown=
  Cap,           \* events a minute: [global, source, rule]
  IncidentCap,   \* incidents in five minutes: [global, rule]
  MaxBackoff,
  MaxTime, MaxEvents, MaxEdits, MaxFaults

VARIABLES
  now,
  br,     \* scope -> breaker state
  stab,   \* rule -> its timer: [since, finger], or none
  cool,   \* rule -> the time it last fired, or none
  proc,   \* each sensor's evaluation in progress
  live,   \* the installed rule set: its version and its rules' fingerprint
  disk,   \* rules.d: what is there and whether it compiles
  load,   \* the reload: its step, the sweep's fingerprint, the strikes
  held,   \* rule -> since when every observation has satisfied its predicate
  spent   \* events, edits and faults so far

vars == <<now, br, stab, cool, proc, live, disk, load, held, spent>>

None == [since |-> 0, finger |-> 0, set |-> FALSE]
Never == [at |-> 0, set |-> FALSE, gen |-> 0]
Rules == UNION {{RulesOf[p][i] : i \in DOMAIN RulesOf[p]} : p \in Procs}
Scopes == {"global"} \cup Procs \cup Rules
CapOf(c) == IF c = "global" THEN Cap.global ELSE IF c \in Procs THEN Cap.source ELSE Cap.rule

Base == 1      \* 60s
Sustain == 2   \* 120s
Window == 5    \* 300s
Fresh == [state |-> "closed", until |-> 0, backoff |-> Base, trips |-> 0, probed |-> FALSE,
          over |-> Never, cells |-> [i \in 0..2 |-> 0], at |-> 0, inc |-> <<>>]
Resting == [pc |-> "idle", todo |-> <<>>, holds |-> {}, fired |-> <<>>, probe |-> FALSE, gen |-> 0]

Init ==
  /\ now = 0
  /\ br = [c \in Scopes |-> Fresh]
  /\ stab = [r \in Rules |-> None] /\ cool = [r \in Rules |-> Never]
  /\ held = [r \in Rules |-> Never]
  /\ proc = [p \in Procs |-> Resting]
  /\ live = [version |-> 0, match |-> 0] /\ disk = [version |-> 0, match |-> 0, ok |-> TRUE, there |-> TRUE]
  /\ load = [pc |-> "idle", next |-> live, seen |-> 0, strikes |-> 0, off |-> FALSE, asked |-> FALSE]
  /\ spent = [events |-> 0, edits |-> 0, faults |-> 0]

Tick == now < MaxTime /\ now' = now + 1
        /\ UNCHANGED <<br, stab, cool, proc, live, disk, load, held, spent>>
-----------------------------------------------------------------------------
(* The ring: roll clears the buckets passed over; rate1m adds the first 60 *)
(* buckets of the ring, whichever minute they hold.                        *)
Roll(b) ==
  [b EXCEPT !.cells = [i \in 0..2 |->
                         IF now - b.at >= 3 \/ \E k \in 1..2 : k <= now - b.at /\ (b.at + k) % 3 = i
                         THEN 0 ELSE b.cells[i]],
            !.at = now]
Bump(b) == [Roll(b) EXCEPT !.cells[now % 3] = @ + 1]
Rate1m(b) == b.cells[0]

(* tripLocked.                                                             *)
Trip(b) ==
  LET k == IF b.trips = 0 THEN b.backoff ELSE Min({2 * b.backoff, MaxBackoff})
  IN  [b EXCEPT !.state = "open", !.trips = @ + 1, !.backoff = k, !.until = now + k, !.probed = FALSE]

(* Decide, for one scope: whether the event may pass and the scope after.  *)
Decide(t, c) ==
  LET b == Roll(t.br[c])
      h == IF b.state = "open" /\ now >= b.until THEN [b EXCEPT !.state = "half_open", !.probed = FALSE] ELSE b
      over == [h EXCEPT !.over = IF @.set THEN @ ELSE [at |-> now, set |-> TRUE, gen |-> 0]]
      With(x, ok, probe) == [br |-> [t.br EXCEPT ![c] = x], ok |-> ok, probe |-> t.probe \/ probe]
  IN  CASE h.state = "open" -> With(h, FALSE, FALSE)
        [] h.state = "half_open" -> With([h EXCEPT !.probed = TRUE], ~h.probed, TRUE)
        [] h.state = "closed" /\ Rate1m(h) < CapOf(c) -> With([h EXCEPT !.over = Never], TRUE, FALSE)
        [] OTHER -> With(IF now - over.over.at >= Sustain THEN Trip(over) ELSE over, FALSE, FALSE)

(* The scopes of an event in order; the first that refuses ends the round, *)
(* with what the earlier ones noted left noted.                            *)
DecideAll(p, r) ==
  LET d0 == [br |-> br, ok |-> TRUE, probe |-> FALSE]
      d1 == Decide(d0, "global")
      d2 == IF d1.ok THEN Decide(d1, p) ELSE d1
  IN  IF d2.ok THEN Decide(d2, r) ELSE d2

(* Close: the verdict of the half-open probe.                              *)
Close(b, c) ==
  IF b.state # "half_open" THEN b
  ELSE IF Rate1m(b) >= CapOf(c) \/ (b.over.set /\ now - b.over.at >= Sustain) THEN Trip(b)
  ELSE [b EXCEPT !.state = "closed", !.until = 0, !.backoff = Base, !.probed = FALSE, !.over = Never]

Mark(r, f) ==
  IF stab[r].set /\ stab[r].finger = f THEN stab[r] ELSE [since |-> now, finger |-> f, set |-> TRUE]
Unmatched(r) == None
-----------------------------------------------------------------------------
(* An observation arrives: the rules it satisfies are its input, the rule   *)
(* set is the one installed now.                                           *)
Arrive(p) ==
  /\ proc[p].pc = "idle" /\ spent.events < MaxEvents
  /\ \E h \in SUBSET {RulesOf[p][i] : i \in DOMAIN RulesOf[p]} :
       proc' = [proc EXCEPT ![p] = [Resting EXCEPT !.pc = "rules", !.todo = RulesOf[p], !.holds = h, !.gen = live.match]]
  /\ spent' = [spent EXCEPT !.events = @ + 1]
  /\ UNCHANGED <<now, br, stab, cool, live, disk, load, held>>

NextRule(p) == [proc EXCEPT ![p].todo = Tail(@)]

(* One rule up to the gate.                                                *)
Evaluate(p) ==
  /\ proc[p].pc = "rules" /\ proc[p].todo # <<>>
  /\ LET r == Head(proc[p].todo) f == proc[p].gen IN
     \/ /\ r \notin proc[p].holds
        /\ stab' = [stab EXCEPT ![r] = Unmatched(r)] /\ held' = [held EXCEPT ![r] = Never]
        /\ proc' = NextRule(p) /\ UNCHANGED br
     \/ /\ r \in proc[p].holds
        /\ stab' = [stab EXCEPT ![r] = Mark(r, f)]
        /\ held' = [held EXCEPT ![r] = IF @.set /\ @.gen = f THEN @ ELSE [at |-> now, set |-> TRUE, gen |-> f]]
        /\ IF now - stab'[r].since < For \/ (cool[r].set /\ now - cool[r].at < Cooldown)
           THEN proc' = NextRule(p) /\ UNCHANGED br
           ELSE LET d == DecideAll(p, r) IN
                /\ br' = d.br
                /\ proc' = IF d.ok THEN [proc EXCEPT ![p].pc = "passed", ![p].probe = d.probe] ELSE NextRule(p)
  /\ UNCHANGED <<now, cool, live, disk, load, spent>>

(* The rule passed the gate: the event is counted in its three scopes, a   *)
(* probe closes or reopens the ones that are half open, and the cooldown   *)
(* starts.                                                                 *)
Fire(p) ==
  /\ proc[p].pc = "passed"
  /\ LET r == Head(proc[p].todo)
         mine == {"global", p, r}
         seen == [c \in Scopes |-> IF c \in mine THEN Bump(br[c]) ELSE br[c]]
     IN  /\ br' = [c \in Scopes |-> IF c \in mine /\ proc[p].probe THEN Close(seen[c], c) ELSE seen[c]]
         /\ cool' = [cool EXCEPT ![r] = [at |-> now, set |-> TRUE, gen |-> 0]]
         /\ proc' = [proc EXCEPT ![p].pc = "rules", ![p].todo = Tail(@), ![p].fired = Append(@, r), ![p].probe = FALSE]
  /\ UNCHANGED <<now, stab, live, disk, load, held, spent>>

(* OpenIncident, for the first rule that fired.                            *)
WithIncident(b) == [Roll(b) EXCEPT !.inc = Append(SelectSeq(b.inc, LAMBDA t : t + Window > now), now)]
OpenIncident(p) ==
  /\ proc[p].pc = "rules" /\ proc[p].todo = <<>>
  /\ proc' = [proc EXCEPT ![p] = Resting]
  /\ br' = IF proc[p].fired = <<>> THEN br
           ELSE LET r == Head(proc[p].fired)
                    Limit(c) == IF c = "global" THEN IncidentCap.global ELSE IncidentCap.rule
                IN  [c \in Scopes |->
                       IF c \notin {"global", p, r} THEN br[c]
                       ELSE LET b == WithIncident(br[c])
                            IN  IF c # p /\ Len(b.inc) > Limit(c) /\ b.state = "closed" THEN Trip(b) ELSE b]
  /\ UNCHANGED <<now, stab, cool, live, disk, load, held, spent>>
-----------------------------------------------------------------------------
(* Reload: three triggers, one load at a time under reloadMu.  A set that  *)
(* does not compile, or an abandoned load, leaves the installed one.       *)
Edit ==
  /\ spent.edits < MaxEdits /\ spent' = [spent EXCEPT !.edits = @ + 1]
  /\ \E ok, there \in BOOLEAN, m \in {0, 1} :
       disk' = [version |-> disk.version + 1, match |-> m, ok |-> ok /\ there, there |-> there]
  /\ load' = [load EXCEPT !.asked = TRUE]
  /\ UNCHANGED <<now, br, stab, cool, proc, live, held>>

(* The inotify trigger, until three strikes disable it, and the sweep,     *)
(* which notes the fingerprint before it reloads.                          *)
Inotify ==
  /\ load.pc = "idle" /\ load.asked
  /\ load' = [load EXCEPT !.asked = FALSE, !.pc = IF load.off THEN "idle" ELSE "load"]
  /\ UNCHANGED <<now, br, stab, cool, proc, live, disk, held, spent>>
Sweep ==
  /\ load.pc = "idle" /\ load.seen # disk.version /\ disk.there
  /\ load' = [load EXCEPT !.seen = disk.version, !.pc = "load"]
  /\ UNCHANGED <<now, br, stab, cool, proc, live, disk, held, spent>>

Struck(l) == [l EXCEPT !.pc = "idle", !.strikes = @ + 1, !.off = l.off \/ l.strikes + 1 >= 3]

Compiles == disk.ok
Reload ==
  /\ load.pc = "load"
  /\ \/ /\ ~disk.there /\ load' = [load EXCEPT !.pc = "idle"] /\ UNCHANGED <<stab, spent>>
     \/ /\ disk.there /\ ~Compiles /\ load' = Struck(load) /\ UNCHANGED <<stab, spent>>
     \/ /\ spent.faults < MaxFaults /\ spent' = [spent EXCEPT !.faults = @ + 1] /\ disk.there
        /\ load' = [load EXCEPT !.pc = "idle", !.strikes = @ + 1] /\ UNCHANGED stab
     \/ /\ Compiles
        /\ load' = [load EXCEPT !.pc = "swap", !.next = [version |-> disk.version, match |-> disk.match]]
        /\ stab' = [r \in Rules |-> IF stab[r].finger # disk.match THEN None ELSE stab[r]]
        /\ UNCHANGED spent
  /\ UNCHANGED <<now, br, cool, proc, live, disk, held>>

InstallRules ==
  /\ load.pc = "swap" /\ live' = load.next
  /\ load' = [load EXCEPT !.pc = "idle", !.strikes = 0]
  /\ UNCHANGED <<now, br, stab, cool, proc, disk, held, spent>>

Next ==
  \/ Tick \/ Edit \/ Inotify \/ Sweep \/ Reload \/ InstallRules
  \/ \E p \in Procs : Arrive(p) \/ Evaluate(p) \/ Fire(p) \/ OpenIncident(p)
-----------------------------------------------------------------------------
(* A rule fires only when every observation since For ago satisfied the    *)
(* predicate it was evaluated with: a non-match and a changed predicate    *)
(* both start the time again, a reload between two observations too.       *)
HoldsForFull ==
  \A p \in Procs : proc[p].pc = "passed" =>
    LET r == Head(proc[p].todo) IN held[r].set /\ now - held[r].at >= For

(* In the end the installed set is the one in rules.d when that compiles   *)
(* and is not it when it does not: a broken edit never disarms the daemon, *)
(* and a good one is not missed, unless a load of it was abandoned.        *)
EditApplied ==
  IF disk.ok THEN live.version = disk.version \/ spent.faults > 0 ELSE live.version # disk.version

(* "exactly one probe event per scope is evaluated; if it would trip again *)
(* the scope returns to open ..., otherwise it closes" (SPEC-03 3.8): with *)
(* no event in evaluation, no scope is left half open with its probe used. *)
ProbeSettles ==
  (\A p \in Procs : proc[p].pc = "idle") => \A c \in Scopes : ~(br[c].state = "half_open" /\ br[c].probed)
=============================================================================
