--------------------------- MODULE PressureWatch ---------------------------
(* The PSI sensor (internal/sensors, psi.go): the capability probe decides   *)
(* once whether the kernel takes triggers, Start arms one for each resource  *)
(* on a goroutine and an epoll set of its own, and the sampler reads every   *)
(* pressure file whether or not a trigger wakes it.  Windows and time are in *)
(* seconds.                                                                  *)
EXTENDS Naturals, Sequences, FiniteSets

CONSTANTS
  Resources,   \* psiResources, in order
  Hosts,       \* what the host may be and what window it is configured with:
               \* [old, read, arm, max, root, window]
  MaxTime, MaxFaults

VARIABLES
  now,
  kernel,   \* the host: its age, its pressure files, what a write to them says
  probe,    \* probeResult: mode, codes, the largest window
  phase,    \* where Start and Stop are
  mode,     \* psiSamplerState.mode
  sensor,   \* the sensor's entry of /health: on, degraded
  trig,     \* resource -> its goroutine
  fds,      \* the open descriptors: [of, what]
  count,    \* psiState.armed and psiState.epollSets
  wake,     \* resource -> wakes handled, spurious ones, the last one's time
  faults,
  cause,    \* why a trigger was not armed
  seen      \* whether the lost source is on record, and whether the flag was cleared since

vars == <<now, kernel, probe, phase, mode, sensor, trig, fds, count, wake, faults, cause, seen>>

Floor == 2     \* psiWindowFloorUS
Ceiling == 20  \* psiCeilingProbeUS
Names == {Resources[i] : i \in DOMAIN Resources}
None == [mode |-> "none", codes |-> {}, max |-> 0]

Init ==
  /\ now = 1 /\ kernel \in Hosts /\ probe = None /\ phase = [at |-> "boot", left |-> <<>>]
  /\ mode = "none" /\ sensor = [on |-> FALSE, degraded |-> FALSE]
  /\ trig = [r \in Names |-> "none"] /\ fds = {} /\ count = [armed |-> 0, sets |-> 0]
  /\ wake = [r \in Names |-> [n |-> 0, spurious |-> 0, last |-> 0]]
  /\ faults = MaxFaults /\ cause = "none" /\ seen = [recorded |-> FALSE, cleared |-> FALSE]

(* The kernel's answer to one write on a fresh descriptor. *)
Grammar(stall, window) == stall > 0 /\ stall < window /\ window % Floor = 0
KernelTakes(stall, window) == IF Grammar(stall, window) /\ window <= kernel.max THEN kernel.arm ELSE "EINVAL"
Readable == kernel.read
ArmOnce(stall, window) == IF Readable THEN KernelTakes(stall, window) ELSE "ENOENT"

(* probeCapabilities *)
ArmCode(errno) ==
  CASE errno = "EBUSY" -> "003"
    [] errno = "EINVAL" /\ kernel.root -> "002"
    [] OTHER -> "005"
Ladder == <<Ceiling, 10, Floor>>
Tried(i) == \A j \in 1..(i - 1) : ArmOnce(1, Ladder[j]) \notin {"ok", "EBUSY"}
MaxWindow == IF \E i \in 1..3 : Tried(i) /\ ArmOnce(1, Ladder[i]) = "ok"
             THEN Ladder[CHOOSE i \in 1..3 : Tried(i) /\ ArmOnce(1, Ladder[i]) = "ok"] ELSE 0
ProbeCapabilities ==
  CASE kernel.old -> [mode |-> "disabled", codes |-> {"001"}, max |-> 0]
    [] ~kernel.old /\ ~Readable -> [mode |-> "disabled", codes |-> {"025"}, max |-> 0]
    [] ~kernel.old /\ Readable /\ ArmOnce(1, Floor) = "ok" -> [mode |-> "triggers", codes |-> {}, max |-> MaxWindow]
    [] OTHER -> [mode |-> "sampling", codes |-> {ArmCode(ArmOnce(1, Floor))}, max |-> 0]

Probe ==
  /\ phase.at = "boot" /\ probe' = ProbeCapabilities /\ phase' = [phase EXCEPT !.at = "probed"]
  /\ sensor' = IF probe'.mode = "disabled" THEN [on |-> FALSE, degraded |-> TRUE] ELSE sensor
  /\ UNCHANGED <<now, kernel, mode, trig, fds, count, wake, faults, cause, seen>>

(* What the host does after the probe: another holder of the files comes or goes. *)
Busy ==
  /\ phase.at \in {"probed", "arming"} /\ faults > 0 /\ faults' = faults - 1
  /\ kernel' = [kernel EXCEPT !.arm = IF @ = "ok" THEN "EBUSY" ELSE "ok"]
  /\ UNCHANGED <<now, probe, phase, mode, sensor, trig, fds, count, wake, cause, seen>>

(* startPSI: the mode is the probe's; the sampler starts unless it is disabled. *)
StartPSI ==
  /\ phase.at = "probed" /\ mode' = probe.mode
  /\ phase' = IF probe.mode = "triggers" THEN [at |-> "arming", left |-> Resources] ELSE [at |-> "up", left |-> <<>>]
  /\ sensor' = [on |-> probe.mode # "disabled", degraded |-> probe.mode # "triggers"]
  /\ UNCHANGED <<now, kernel, probe, trig, fds, count, wake, faults, cause, seen>>

Window == kernel.window
Clamped ==
  LET w == IF Window < Floor THEN Floor ELSE Window
  IN IF probe.max > 0 /\ w > probe.max THEN probe.max ELSE w
Stall == Clamped \div 2

(* armTrigger: open, arm, epoll set, eventfd and the two registrations; any  *)
(* of them may fail, and what was opened before it is closed again.          *)
Steps == <<"open", "write", "epoll", "eventfd", "addEvent", "addTrigger">>
Owned(r) == {[of |-> r, what |-> w] : w \in {"psi", "epoll", "event"}}
OpenedAt == [psi |-> 1, epoll |-> 3, event |-> 4]
OpenedBefore(r, i) == {f \in Owned(r) : OpenedAt[f.what] < i}
(* A mutant: an arm that fails late closes the trigger and forgets its set.  *)
ClosedOnError_TriggerOnly(r, i) == {f \in Owned(r) : f.what = "psi"}
ClosedOnError(r, i) == {f \in Owned(r) : Steps[i] = "write" => f.what = "psi"}
LeftOver(r, i) == OpenedBefore(r, i) \ ClosedOnError(r, i)
Arming(r) == phase.at = "arming" /\ phase.left # <<>> /\ r = Head(phase.left)
Armed(r) ==
  /\ Arming(r) /\ ArmOnce(Stall, Clamped) = "ok"
  /\ trig' = [trig EXCEPT ![r] = "polling"] /\ fds' = fds \cup Owned(r)
  /\ count' = [armed |-> count.armed + 1, sets |-> count.sets + 1]
  /\ phase' = [phase EXCEPT !.left = Tail(@)]
  /\ UNCHANGED <<now, kernel, probe, mode, sensor, wake, faults, cause, seen>>
NotArmed(r, why) ==
  /\ Arming(r) /\ phase' = [at |-> "up", left |-> <<>>] /\ cause' = why
  /\ mode' = "sampling" /\ sensor' = [on |-> TRUE, degraded |-> TRUE]
  /\ UNCHANGED <<now, kernel, probe, trig, count, wake, seen>>
ArmRefused(r) ==
  /\ ArmOnce(Stall, Clamped) # "ok" /\ NotArmed(r, ArmOnce(Stall, Clamped)) /\ UNCHANGED <<fds, faults>>
ArmBroke(r) ==
  /\ ArmOnce(Stall, Clamped) = "ok" /\ faults > 0 /\ faults' = faults - 1
  /\ \E i \in DOMAIN Steps : fds' = fds \cup LeftOver(r, i)
  /\ NotArmed(r, "fault")
AllArmed ==
  /\ phase.at = "arming" /\ phase.left = <<>> /\ phase' = [phase EXCEPT !.at = "up"]
  /\ UNCHANGED <<now, kernel, probe, mode, sensor, trig, fds, count, wake, faults, cause, seen>>

(* runTrigger: one poll of the trigger's own epoll set. *)
Running == phase.at \in {"arming", "up"}
Polls(r) == trig[r] = "polling" /\ Running
RateLimited(r) == wake[r].last # 0 /\ now - wake[r].last < Clamped
HandleWake(r, crossed) ==
  /\ Polls(r) /\ ~RateLimited(r)
  /\ wake' = [wake EXCEPT ![r] = [n |-> @.n + 1, spurious |-> IF crossed THEN @.spurious ELSE @.spurious + 1, last |-> now]]
  /\ UNCHANGED <<now, kernel, probe, phase, mode, sensor, trig, fds, count, faults, cause, seen>>
PollErr(r) ==
  /\ Polls(r) /\ faults > 0 /\ faults' = faults - 1
  /\ sensor' = [sensor EXCEPT !.degraded = @ \/ ~seen.recorded]
  /\ seen' = [seen EXCEPT !.recorded = TRUE]
  /\ trig' = [trig EXCEPT ![r] = "leaving"]
  /\ UNCHANGED <<now, kernel, probe, phase, mode, fds, count, wake, cause>>
SeeStop(r) ==
  /\ trig[r] = "polling" /\ ~Running /\ trig' = [trig EXCEPT ![r] = "leaving"]
  /\ UNCHANGED <<now, kernel, probe, phase, mode, sensor, fds, count, wake, faults, cause, seen>>

(* clearReason, by a reload of the rules or by the heartbeat's recovery. *)
ClearReason ==
  /\ phase.at = "up" /\ sensor.on /\ sensor.degraded /\ ~seen.cleared
  /\ sensor' = [sensor EXCEPT !.degraded = FALSE] /\ seen' = [seen EXCEPT !.cleared = TRUE]
  /\ UNCHANGED <<now, kernel, probe, phase, mode, trig, fds, count, wake, faults, cause>>

(* The goroutine's deferred calls: the counters, the descriptors, the join. *)
Uncount(r) ==
  /\ trig[r] = "leaving" /\ trig' = [trig EXCEPT ![r] = "uncounted"]
  /\ count' = [armed |-> count.armed - 1, sets |-> count.sets - 1]
  /\ UNCHANGED <<now, kernel, probe, phase, mode, sensor, fds, wake, faults, cause, seen>>
Close(r) ==
  /\ trig[r] = "uncounted" /\ trig' = [trig EXCEPT ![r] = "gone"]
  /\ fds' = {f \in fds : f.of # r}
  /\ UNCHANGED <<now, kernel, probe, phase, mode, sensor, count, wake, faults, cause, seen>>

(* Stop joins every goroutine, or gives up on one that does not come back. *)
Stop ==
  /\ phase.at = "up" /\ phase' = [phase EXCEPT !.at = "stopping"]
  /\ UNCHANGED <<now, kernel, probe, mode, sensor, trig, fds, count, wake, faults, cause, seen>>
(* A mutant: the join counts the resources and not the goroutines started.   *)
Joined_Every ==
  /\ phase.at = "stopping" /\ \A r \in Names : trig[r] = "gone"
  /\ phase' = [phase EXCEPT !.at = "stopped"]
  /\ UNCHANGED <<now, kernel, probe, mode, sensor, trig, fds, count, wake, faults, cause, seen>>
Joined ==
  /\ phase.at = "stopping" /\ \A r \in Names : trig[r] \in {"none", "gone"}
  /\ phase' = [phase EXCEPT !.at = "stopped"]
  /\ UNCHANGED <<now, kernel, probe, mode, sensor, trig, fds, count, wake, faults, cause, seen>>
GiveUp ==
  /\ phase.at = "stopping" /\ faults > 0 /\ faults' = faults - 1 /\ phase' = [phase EXCEPT !.at = "abandoned"]
  /\ UNCHANGED <<now, kernel, probe, mode, sensor, trig, fds, count, wake, cause, seen>>

Tick ==
  /\ now < MaxTime /\ phase.at = "up" /\ now' = now + 1
  /\ UNCHANGED <<kernel, probe, phase, mode, sensor, trig, fds, count, wake, faults, cause, seen>>

Next ==
  \/ Probe \/ Busy \/ StartPSI \/ AllArmed \/ ClearReason \/ Stop \/ Joined \/ GiveUp \/ Tick
  \/ \E r \in Names : \/ Armed(r) \/ ArmRefused(r) \/ ArmBroke(r) \/ PollErr(r) \/ SeeStop(r) \/ Uncount(r) \/ Close(r)
                      \/ \E crossed \in BOOLEAN : HandleWake(r, crossed)
Spec == Init /\ [][Next]_vars

TypeOK ==
  /\ now \in 1..MaxTime /\ kernel.arm \in {"ok", "EBUSY", "EPERM"}
  /\ mode \in {"none", "triggers", "sampling", "disabled"}
  /\ trig \in [Names -> {"none", "polling", "leaving", "uncounted", "gone"}]
  /\ fds \subseteq UNION {Owned(r) : r \in Names}

(* The two counters agree with the goroutines that poll, every one of those  *)
(* has its three descriptors, and after the join none is left, wherever an   *)
(* arm failed or a source went away (armTrigger, close, runTrigger, Stop).   *)
FdsAccounted ==
  LET counted == {r \in Names : trig[r] \in {"polling", "leaving"}}
      open == {r \in Names : trig[r] \in {"polling", "leaving", "uncounted"}}
  IN /\ count = [armed |-> Cardinality(counted), sets |-> Cardinality(counted)]
     /\ fds = UNION {Owned(r) : r \in open}
     /\ phase.at = "stopped" => fds = {}

(* A sensor that is up and not degraded hears every resource: a trigger that *)
(* was refused or went away shows, until a reload or a recovered heartbeat   *)
(* clears the flag (startPSI, runTrigger, recError, clearReason).            *)
DeafShows == phase.at = "up" /\ sensor.on /\ ~sensor.degraded /\ ~seen.cleared => \A r \in Names : trig[r] = "polling"

(* Arming fails for a cause of the host's: the window asked for, clamped to  *)
(* the ceiling the probe found, is one the kernel takes, unless the          *)
(* configured one is odd or the ceiling was not found (probeCapabilities).   *)
ClampIsLegal == cause = "EINVAL" => Window % Floor # 0 \/ (probe.max = 0 /\ Window > kernel.max)

(* Wakes are handled once in a window, counting the spurious ones (runTrigger). *)
WakesPaced == \A r \in Names : wake[r].n * Clamped <= now - 1 + Clamped /\ wake[r].spurious <= wake[r].n

(* What holds in the end: no Stop is waiting, for every goroutine has left   *)
(* or the stop has given up on one (Stop, runTrigger).                       *)
StopReturns == phase.at # "stopping"
=============================================================================
