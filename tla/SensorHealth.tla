---------------------------- MODULE SensorHealth ----------------------------
(* What the sensors say of themselves (internal/sensors): the degraded flag  *)
(* and its reason, the open gap episodes, and the heartbeat evaluator that   *)
(* calls a sensor stale.  The PSI sampler, the disk sweep, the timers sweep, *)
(* the evaluator and a reload of the rules are goroutines of their own that  *)
(* set and clear the same flag.  Time is in ticks; the evaluator runs, and   *)
(* what is due is done, before a tick ends.                                  *)
EXTENDS Naturals, Sequences, FiniteSets

CONSTANTS
  Kinds,          \* the sensors that are on, of "psi", "disk", "timers"
  Mounts,         \* sensors.disk.mounts, in order
  DeviceNodes,    \* those of them that are device nodes
  Timers, Period, \* the timer units, and what systemd adds to next_elapse
  Interval,       \* sensor -> its cadence
  StaleAfter,     \* sensor -> staleAfter
  ErrorWindow,    \* diskErrorWindow
  Faulty,         \* what may fail beside mounts and timers: of "psi", "bus", "lists", "backed"
  MaxTime, MaxFaults, MaxReloads

VARIABLES
  now,
  rt,       \* sensorRuntime of each sensor
  gapOpen,  \* the open episodes
  lastErr,  \* mount -> when its failure was last recorded; 0 is never
  due,      \* sensor -> when its ticker fires next
  sweep,    \* the disk sweep: the mounts to come, and the one to be marked
  tm,       \* timer -> last, missed and run of timerState
  checked,  \* the sensors the evaluator has seen in this tick
  world,    \* what the sensors look at
  left,     \* faults and reloads still to come
  hist      \* who cleared a flag over an open gap, who was put off, what was recorded

vars == <<now, rt, gapOpen, lastErr, due, sweep, tm, checked, world, left, hist>>

Shed == 4
Idle == [todo |-> <<>>, mark |-> FALSE, on |-> FALSE]
Scopes == SelectSeq(Mounts, LAMBDA m : m \notin DeviceNodes)
Visible == {Scopes[i] : i \in DOMAIN Scopes}
Gap(k, scope, cause) == [sensor |-> k, scope |-> scope, cause |-> cause]
Stale(k) == Gap(k, k, "heartbeat_stale")
Failed(m) == Gap("disk", m, "statfs_failed")
GapsOf(k, G) == {g \in G : g.sensor = k}

SetSensor(r, degraded, reason) == [r EXCEPT !.degraded = degraded, !.reason = reason]
ClearReason(r) == SetSensor(r, FALSE, "")
SensorOK(r) == [r EXCEPT !.lastOK = now]
RecError(r, code) == SetSensor(r, TRUE, code)
OpenGap(r, g) == IF g \in gapOpen THEN r ELSE SetSensor(r, TRUE, g.cause)

(* A flag that is cleared while the sensor has an open gap: by whom. *)
Wiped(k, G, by) ==
  [hist.wiped EXCEPT ![k] = IF GapsOf(k, G) = {} THEN {} ELSE @ \cup {by}]

PipelineBackedUp == world.backed
DiskInterval == IF PipelineBackedUp THEN Shed * Interval.disk ELSE Interval.disk
TimerInterval == IF PipelineBackedUp THEN Shed * Interval.timers ELSE Interval.timers

StartedDegraded(k) == k = "disk" /\ DeviceNodes # {}
Init ==
  /\ now = 1 /\ gapOpen = {} /\ checked = {} /\ sweep = Idle
  /\ rt = [k \in Kinds |-> [degraded |-> StartedDegraded(k), lastOK |-> 0,
                            reason |-> IF StartedDegraded(k) THEN "device_node" ELSE ""]]
  /\ lastErr = [m \in Visible |-> 0]
  /\ due = [k \in Kinds |-> IF k = "disk" THEN 1 ELSE 1 + Interval[k]]
  /\ tm = [t \in Timers |-> [last |-> 0, missed |-> 0, run |-> 0]]
  /\ world = [psi |-> TRUE, bus |-> TRUE, lists |-> TRUE, backed |-> FALSE, mounted |-> Visible,
              stuck |-> {}, next |-> [t \in Timers |-> 1 + Period], up |-> TRUE]
  /\ left = [faults |-> MaxFaults, reloads |-> MaxReloads]
  /\ hist = [wiped |-> [k \in Kinds |-> {}], putOff |-> {}, raced |-> {},
             recs |-> [m \in Visible |-> <<>>], answered |-> [m \in Visible |-> FALSE],
             looks |-> [t \in Timers |-> 0], listed |-> 0]

Resting == sweep = Idle
Due(k) == k \in Kinds /\ world.up /\ due[k] <= now

(* The world moves: a timer that is not stuck elapses. *)
Tick ==
  /\ world.up /\ now < MaxTime /\ Resting /\ checked = Kinds
  /\ \A k \in Kinds : ~Due(k)
  /\ now' = now + 1 /\ checked' = {}
  /\ world' = [world EXCEPT !.next = [t \in Timers |->
       IF t \notin world.stuck /\ @[t] <= now + 1 THEN now + 1 + Period ELSE @[t]]]
  /\ UNCHANGED <<rt, gapOpen, lastErr, due, sweep, tm, left, hist>>

Flips ==
  {[world EXCEPT ![f] = ~@] : f \in Faulty}
  \cup {[world EXCEPT !.mounted = (@ \ {m}) \cup ({m} \ @)] : m \in Visible}
  \cup {[world EXCEPT !.stuck = (@ \ {t}) \cup ({t} \ @)] : t \in Timers}
Fault ==
  /\ world.up /\ left.faults > 0 /\ world' \in Flips /\ left' = [left EXCEPT !.faults = @ - 1]
  /\ UNCHANGED <<now, rt, gapOpen, lastErr, due, sweep, tm, checked, hist>>

(* runSampler's tick. *)
SampleOnce(r) == IF world.psi THEN SensorOK(r) ELSE r
Sample ==
  /\ Due("psi") /\ due' = [due EXCEPT !.psi = now + Interval.psi]
  /\ rt' = [rt EXCEPT !.psi = SampleOnce(@)]
  /\ hist' = IF world.psi THEN hist ELSE [hist EXCEPT !.putOff = @ \cup {"psi"}]
  /\ UNCHANGED <<now, gapOpen, lastErr, sweep, tm, checked, world, left>>

(* runDisk's tick; the ticker is reset to the interval of the moment. *)
BeginSweep ==
  /\ Due("disk") /\ Resting
  /\ sweep' = [todo |-> Scopes, mark |-> FALSE, on |-> TRUE]
  /\ due' = [due EXCEPT !.disk = now + DiskInterval]
  /\ hist' = IF PipelineBackedUp THEN [hist EXCEPT !.putOff = @ \cup {"disk"}] ELSE hist
  /\ UNCHANGED <<now, rt, gapOpen, lastErr, tm, checked, world, left>>

Statfs(m, ok) == /\ sweep.todo # <<>> /\ ~sweep.mark /\ m = Head(sweep.todo) /\ ok = (m \in world.mounted)
NextMount == sweep' = [sweep EXCEPT !.todo = Tail(@), !.mark = FALSE]

(* closeGap: the episode is filed and the sensor's flag cleared. *)
CloseGap(k, g) == [gaps |-> gapOpen \ {g}, run |-> IF g \in gapOpen THEN ClearReason(rt[k]) ELSE rt[k]]

Answers(m) ==
  /\ Statfs(m, TRUE) /\ NextMount
  /\ LET c == CloseGap("disk", Failed(m))
         bad == lastErr[m] # 0
     IN /\ gapOpen' = IF bad THEN c.gaps ELSE gapOpen
        /\ rt' = IF bad THEN [rt EXCEPT !.disk = c.run] ELSE rt
        /\ hist' = [hist EXCEPT !.answered[m] = TRUE,
                                !.wiped = IF bad THEN Wiped("disk", c.gaps, "scope") ELSE @]
  /\ lastErr' = [lastErr EXCEPT ![m] = 0]
  /\ UNCHANGED <<now, due, tm, checked, world, left>>

Recordable(m) == lastErr[m] = 0 \/ now - lastErr[m] >= ErrorWindow
Quiet(m) ==
  /\ Statfs(m, FALSE) /\ ~Recordable(m) /\ NextMount
  /\ hist' = [hist EXCEPT !.answered[m] = FALSE]
  /\ UNCHANGED <<now, rt, gapOpen, lastErr, due, tm, checked, world, left>>

(* diskError: the record and the gap, and then once more the flag. *)
Fails(m) ==
  /\ Statfs(m, FALSE) /\ Recordable(m) /\ sweep' = [sweep EXCEPT !.mark = TRUE]
  /\ lastErr' = [lastErr EXCEPT ![m] = now]
  /\ rt' = [rt EXCEPT !.disk = OpenGap(RecError(@, "statfs"), Failed(m))]
  /\ gapOpen' = gapOpen \cup {Failed(m)}
  /\ hist' = [hist EXCEPT !.recs[m] = Append(@, [at |-> now, since |-> hist.answered[m]]), !.answered[m] = FALSE]
  /\ UNCHANGED <<now, due, tm, checked, world, left>>
Mark ==
  /\ sweep.mark /\ NextMount /\ rt' = [rt EXCEPT !.disk.degraded = TRUE]
  /\ UNCHANGED <<now, gapOpen, lastErr, due, tm, checked, world, left, hist>>

EndSweep ==
  /\ sweep.on /\ sweep.todo = <<>> /\ sweep' = Idle /\ rt' = [rt EXCEPT !.disk = SensorOK(@)]
  /\ UNCHANGED <<now, gapOpen, lastErr, due, tm, checked, world, left, hist>>

(* timerSweep without a bus: the dependency is named, and no success noted. *)
TimersBlind ==
  /\ Due("timers") /\ ~world.bus /\ due' = [due EXCEPT !.timers = now + Interval.timers]
  /\ rt' = [rt EXCEPT !.timers = SetSensor(@, TRUE, "dependency")]
  /\ hist' = [hist EXCEPT !.putOff = @ \cup {"timers"}]
  /\ UNCHANGED <<now, gapOpen, lastErr, sweep, tm, checked, world, left>>

(* emitTimer. *)
Estimate(t) == IF tm[t].last # 0 /\ world.next[t] > tm[t].last THEN world.next[t] - tm[t].last ELSE TimerInterval
Late(t) == now > world.next[t] + Estimate(t)
Corroborated(t) == tm[t].run # 0 /\ tm[t].run + Estimate(t) > world.next[t]
EmitTimer(t) ==
  [last   |-> world.next[t],
   missed |-> IF ~Late(t) THEN 0 ELSE IF Corroborated(t) THEN tm[t].missed ELSE tm[t].missed + 1,
   run    |-> IF ~Late(t) /\ tm[t].missed # 0 THEN now ELSE tm[t].run]

TimersListed ==
  /\ Due("timers") /\ world.bus /\ due' = [due EXCEPT !.timers = now + Interval.timers]
  /\ tm' = IF world.lists THEN [t \in Timers |-> EmitTimer(t)] ELSE tm
  /\ rt' = [rt EXCEPT !.timers = ClearReason(SensorOK(@))]
  /\ hist' = [hist EXCEPT !.wiped = Wiped("timers", gapOpen, "sweep"),
       !.listed = IF world.lists THEN now ELSE @,
       !.looks = [t \in Timers |-> IF ~world.lists THEN @[t] ELSE IF tm[t].last = world.next[t] THEN 2 ELSE 1]]
  /\ UNCHANGED <<now, gapOpen, lastErr, sweep, checked, world, left>>

(* livenessCheck of one sensor. *)
IsStale(k) == rt[k].lastOK # 0 /\ now - rt[k].lastOK > StaleAfter[k]
Unchecked(k) == world.up /\ k \notin checked /\ checked' = checked \cup {k}
Same == UNCHANGED <<now, lastErr, due, sweep, tm, world, left>>
CallStale(k) ==
  /\ Unchecked(k) /\ IsStale(k) /\ Same
  /\ rt' = [rt EXCEPT ![k] = OpenGap(@, Stale(k))] /\ gapOpen' = gapOpen \cup {Stale(k)}
  /\ UNCHANGED hist
CallFresh(k) ==
  /\ Unchecked(k) /\ ~IsStale(k) /\ rt[k].lastOK # 0 /\ rt[k].degraded /\ Same
  /\ LET c == CloseGap(k, Stale(k))
     IN /\ gapOpen' = c.gaps /\ rt' = [rt EXCEPT ![k] = c.run]
        /\ hist' = IF Stale(k) \notin gapOpen THEN hist
                   ELSE [hist EXCEPT !.wiped = Wiped(k, c.gaps, "heartbeat"),
                                     !.raced = IF k = "disk" /\ sweep.mark THEN @ \cup {k} ELSE @]
PassOver(k) ==
  /\ Unchecked(k) /\ (rt[k].lastOK = 0 \/ ~(IsStale(k) \/ rt[k].degraded)) /\ Same
  /\ UNCHANGED <<rt, gapOpen, hist>>

(* Reload: a good rule set clears every sensor's flag, a bad one writes over its reason. *)
Reloads == world.up /\ left.reloads > 0 /\ left' = [left EXCEPT !.reloads = @ - 1]
Reload ==
  /\ Reloads /\ rt' = [k \in Kinds |-> ClearReason(rt[k])]
  /\ hist' = [hist EXCEPT !.wiped = [k \in Kinds |-> Wiped(k, gapOpen, "reload")[k]],
                          !.raced = IF sweep.mark THEN @ \cup {"disk"} ELSE @]
  /\ UNCHANGED <<now, gapOpen, lastErr, due, sweep, tm, checked, world>>
NoteRuleFailure ==
  /\ Reloads /\ rt' = [k \in Kinds |-> [rt[k] EXCEPT !.reason = "reload"]]
  /\ UNCHANGED <<now, gapOpen, lastErr, due, sweep, tm, checked, world, hist>>

(* Stop: what is still open is filed. *)
Stop ==
  /\ world.up /\ Resting /\ world' = [world EXCEPT !.up = FALSE] /\ gapOpen' = {}
  /\ UNCHANGED <<now, rt, lastErr, due, sweep, tm, checked, left, hist>>

Next ==
  \/ Tick \/ Fault \/ Sample \/ BeginSweep \/ Mark \/ EndSweep \/ TimersBlind \/ TimersListed
  \/ Reload \/ NoteRuleFailure \/ Stop
  \/ \E m \in Visible : Answers(m) \/ Quiet(m) \/ Fails(m)
  \/ \E k \in Kinds : CallStale(k) \/ CallFresh(k) \/ PassOver(k)
Spec == Init /\ [][Next]_vars

TypeOK ==
  /\ now \in 1..MaxTime /\ checked \subseteq Kinds /\ DOMAIN rt = Kinds
  /\ \A g \in gapOpen : g.sensor \in Kinds
  /\ \A m \in Visible : lastErr[m] \in 0..now

(* An open gap shows: its sensor is degraded, unless a reload cleared the    *)
(* flag, or on a sensor with several scopes the recovery of another one, or  *)
(* the timers' own sweep (openGapFunc, closeGap, Reload, timerSweep).        *)
MayWipe(k) == {"reload"} \cup (CASE k = "disk" -> {"scope", "heartbeat"} [] k = "timers" -> {"sweep"} [] OTHER -> {})
GapsShow ==
  \A g \in gapOpen : LET k == g.sensor IN
     /\ rt[k].degraded \/ hist.wiped[k] # {}
     /\ hist.wiped[k] \subseteq MayWipe(k)

(* A sensor that says degraded says why, unless the flag was cleared between *)
(* the two writes of diskError (setSensor, recError, openGapFunc, diskError). *)
DegradedSaysWhy == \A k \in Kinds : rt[k].degraded => rt[k].reason # "" \/ k \in hist.raced

(* The evaluator calls a sensor stale for a cause: a read that failed, a bus *)
(* that was away, a sweep put off by load (livenessCheck, diskInterval).     *)
StaleForCause == \A k \in Kinds : Stale(k) \in gapOpen => k \in hist.putOff

(* A mount that failed when last looked at has its gap open and one that     *)
(* answered has not, whatever the error's rate limit let pass (diskError).   *)
MountsGapped ==
  world.up => \A m \in Visible :
    /\ (Failed(m) \in gapOpen) = (lastErr[m] # 0)
    /\ hist.answered[m] => Failed(m) \notin gapOpen
    /\ ~hist.answered[m] /\ Len(hist.recs[m]) > 0 => Failed(m) \in gapOpen

(* A mount's failure is recorded once in an hour, unless it answered in      *)
(* between (diskErrorWindow, diskError).                                     *)
RecordsSpaced ==
  \A m \in Visible : \A i \in 1..(Len(hist.recs[m]) - 1) :
    LET r == hist.recs[m] IN r[i + 1].since \/ r[i + 1].at - r[i].at >= ErrorWindow

(* A timer seen late at two sweeps has a missed run, unless it stopped at    *)
(* the first elapse after a recovery (emitTimer).                            *)
LateIsMissed ==
  \A t \in Timers :
    /\ hist.looks[t] = 2 /\ tm[t].last = world.next[t] /\ hist.listed > world.next[t] + Shed * Interval.timers
    => tm[t].missed > 0 \/ (tm[t].run # 0 /\ tm[t].run + Shed * Interval.timers > world.next[t])
=============================================================================
