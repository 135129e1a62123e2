---------------------------- MODULE DaemonLife ----------------------------
(***************************************************************************)
(* troubled from start to exit (app/daemon.go): the twenty-five boot       *)
(* phases in their order, any of which may refuse; the subsystems that are *)
(* built or refused one by one (app/subsystems.go) and what of each other  *)
(* they hold; the sources that hand fired events to the ladder; SIGTERM,   *)
(* which cancels the one context everything else appends with; and the     *)
(* drain, whose middle is the ladder's Park (ladder/park.go).              *)
(***************************************************************************)
EXTENDS Naturals, Sequences, FiniteSets

CONSTANTS
  Refusing,    \* subsystems whose construction may be refused
  FailPhases,  \* phases that may refuse the boot
  Events,      \* fired events, each opening an incident of its own
  HubEnabled,  \* the hub profile is on
  Projects,    \* the sentinel has projects
  MaxFaults    \* bound on refusals, failing appends and a missing listener

VARIABLES
  at,       \* "boot", "serve", "drain", "out"
  pc,       \* the phase of the boot, or step of the drain, that comes next
  ledger,   \* "none", "open", "closed"
  recs,     \* the records the ledger got
  up,       \* what has been constructed
  refusals, \* Subsystems.refusals
  wired,    \* <<holder, held>>: collaborators captured when the holder was built
  on,       \* goroutines and servers running
  lns,      \* listeners held
  term,     \* the daemon's context is cancelled
  event,    \* [Events -> "idle", "recorded", "bypassed"]: what became of a fired event
  inc,      \* [Events -> "none", "recorded", "working", "done"]: Ladder.incs
  busy,     \* the incident a transition holds the ladder's lock for
  faults,   \* faults so far
  exit      \* "", "refused", "ok", "error"

vars == <<at, pc, ledger, recs, up, refusals, wired, on, lns, term, event, inc, busy, faults, exit>>
life == <<at, pc, exit>>
parts == <<up, refusals, wired>>
works == <<event, inc, busy>>

Five == {"sentinel", "issues", "research", "flow", "skills"}
None == "none"

(* A mutant: the sensors run before the ladder is built.                   *)
Phases_SensorsFirst ==
  << "config_resolve", "state_root", "secrets", "schema_compat", "ledger_open", "config_record", "projects",
     "hub_gate", "bind_preflight", "scrubber", "sensors_build", "sensors_start", "subsystems", "registry",
     "skill_library", "llm_port", "ladder", "sensors_probe", "checker_mirror", "dashboard_config",
     "dashboard_serve", "hub_runtime", "sentinel_start", "background_loops", "ready" >>

(* bootPhaseNames. *)
Phases ==
  << "config_resolve", "state_root", "secrets", "schema_compat", "ledger_open", "config_record", "projects",
     "hub_gate", "bind_preflight", "scrubber", "sensors_build", "subsystems", "registry", "skill_library",
     "llm_port", "ladder", "sensors_probe", "checker_mirror", "dashboard_config", "sensors_start",
     "dashboard_serve", "hub_runtime", "sentinel_start", "background_loops", "ready" >>

DrainSteps ==
  << "sentinel", "listener", "hub", "flow", "research", "sensors", "park", "heartbeat", "close" >>

Phase(p) == at = "boot" /\ Phases[pc] = p
Draining(s) == at = "drain" /\ DrainSteps[pc] = s

Onward == at' = at /\ pc' = pc + 1 /\ exit' = exit

(* An append with the daemon's context: refused once that is cancelled or the ledger is closed. *)
MayAppend == ledger = "open" /\ ~term

(* Phase p refuses.  Before the ledger is open the error is all there is; at config_record the ledger  *)
(* is closed without a record; later the sensors stop, the refusal is recorded, the ledger is closed.  *)
BootFailure(p) ==
  /\ p \in FailPhases
  /\ faults < MaxFaults
  /\ faults' = faults + 1
  /\ recs' = recs \cup IF MayAppend /\ p # "config_record" THEN {<<"boot_refused", p>>} ELSE {}
  /\ on' = on \ {"sensors"}
  /\ ledger' = IF ledger = "open" THEN "closed" ELSE ledger
  /\ at' = "out" /\ exit' = "refused" /\ pc' = pc
  /\ UNCHANGED <<parts, lns, term, works>>

(* The checks before the ledger exists. *)
Checks(p) ==
  /\ p \in {"config_resolve", "state_root", "secrets", "schema_compat"}
  /\ Phase(p)
  /\ \/ Onward /\ UNCHANGED <<ledger, recs, parts, on, lns, term, works, faults>>
     \/ BootFailure(p)

(* Phases that construct, or check, what this model has no state for. *)
Constructs(p) ==
  /\ p \in {"projects", "registry", "skill_library", "llm_port", "sensors_probe", "dashboard_config"}
  /\ Phase(p)
  /\ \/ Onward /\ UNCHANGED <<ledger, recs, parts, on, lns, term, works, faults>>
     \/ p # "sensors_probe" /\ BootFailure(p)

LedgerOpen ==
  /\ Phase("ledger_open")
  /\ \/ Onward /\ ledger' = "open" /\ UNCHANGED <<recs, parts, on, lns, term, works, faults>>
     \/ BootFailure("ledger_open")

(* WriteConfigRecord, the first record of a start; a cancelled context refuses it and so the boot. *)
ConfigRecord ==
  /\ Phase("config_record")
  /\ \/ /\ MayAppend
        /\ Onward
        /\ recs' = recs \cup {<<"config">>}
        /\ UNCHANGED <<ledger, parts, on, lns, term, works, faults>>
     \/ BootFailure("config_record")
     \/ /\ ~MayAppend
        /\ ledger' = "closed"
        /\ at' = "out" /\ exit' = "refused" /\ pc' = pc
        /\ UNCHANGED <<recs, parts, on, lns, term, works, faults>>

HubGate ==
  /\ Phase("hub_gate")
  /\ \/ /\ Onward
        /\ up' = up \cup IF HubEnabled THEN {"hub"} ELSE {}
        /\ UNCHANGED <<ledger, recs, refusals, wired, on, lns, term, works, faults>>
     \/ BootFailure("hub_gate")

(* PreflightBinds binds and keeps both listeners. *)
BindPreflight ==
  /\ Phase("bind_preflight")
  /\ \/ /\ Onward
        /\ lns' = {"dashboard", "ingest"}
        /\ UNCHANGED <<ledger, recs, parts, on, term, works, faults>>
     \/ BootFailure("bind_preflight")

(* A scrubber that does not load is gone without: the boot goes on. *)
Scrubber ==
  /\ Phase("scrubber")
  /\ Onward
  /\ \/ up' = up \cup {"scrubber"} /\ faults' = faults
     \/ "scrubber" \in Refusing /\ faults < MaxFaults /\ faults' = faults + 1 /\ up' = up
  /\ UNCHANGED <<ledger, recs, refusals, wired, on, lns, term, works>>

SensorsBuild ==
  /\ Phase("sensors_build")
  /\ \/ /\ Onward
        /\ up' = up \cup {"sensors"}
        /\ UNCHANGED <<ledger, recs, refusals, wired, on, lns, term, works, faults>>
     \/ BootFailure("sensors_build")

(* buildSentinel needs projects and a scrubber; with neither its absence is not even a refusal. *)
SentinelBuilds(bad) == Projects /\ "scrubber" \in up /\ "sentinel" \notin bad

(* recordSubsystemRefusal: the row of /health.json and the record, with a context of its own. *)
RecordSubsystemRefusal(names) ==
  /\ refusals' = refusals \cup names
  /\ recs' = recs \cup IF ledger = "open" THEN {<<"not_built", n>> : n \in names} ELSE {}

(* What flow.SetDeps gets: the members of subs at that moment.  The flow and the skills are stored     *)
(* after it, so its spawn adapter and its skill sink hold nothing.                                     *)
FlowDeps(built) == {<<"flow", h>> : h \in built \cap {"issues"}}

(* buildSubsystems: each one built or refused on its own, in the order of subsystemNames.  The flow's  *)
(* spool is refused under a name of its own.                                                           *)
Subsystems(bad) ==
  /\ Phase("subsystems")
  /\ bad \subseteq (Five \cup {"flow_spool"}) \cap Refusing
  /\ faults + Cardinality(bad) <= MaxFaults
  /\ faults' = faults + Cardinality(bad)
  /\ LET built == {n \in Five \ bad : n = "sentinel" => SentinelBuilds(bad)}
     IN  /\ up' = up \cup built
         /\ wired' = wired \cup IF "flow" \in built THEN FlowDeps(built) ELSE {}
         /\ RecordSubsystemRefusal({n \in (Five \ built) \cup bad : n = "sentinel" => Projects \/ "scrubber" \in up})
         /\ lns' = IF "sentinel" \in built THEN lns ELSE lns \ {"ingest"}
  /\ Onward
  /\ UNCHANGED <<ledger, on, term, works>>

(* ladder.New takes the subsystems as they are; ResumePending's error is only logged. *)
LadderNew ==
  /\ Phase("ladder")
  /\ \/ /\ Onward
        /\ up' = up \cup {"ladder"}
        /\ wired' = wired \cup {<<"ladder", n>> : n \in up \cap {"research", "issues", "flow", "sentinel"}}
        /\ UNCHANGED <<ledger, recs, refusals, on, lns, term, works, faults>>
     \/ BootFailure("ladder")

(* The stall checker's alarms are copied into the ledger, up to the first append that fails. *)
CheckerMirror ==
  /\ Phase("checker_mirror")
  /\ Onward
  /\ recs' = recs \cup IF MayAppend THEN {<<"checker_alarm_mirror">>} ELSE {}
  /\ UNCHANGED <<ledger, parts, on, lns, term, works, faults>>

SensorsStart ==
  /\ Phase("sensors_start")
  /\ \/ /\ Onward
        /\ on' = on \cup {"sensors"}
        /\ UNCHANGED <<ledger, recs, parts, lns, term, works, faults>>
     \/ BootFailure("sensors_start")

(* A missing token store is a sixth refusal; the server runs all the same. *)
DashboardServe(missing) ==
  /\ Phase("dashboard_serve")
  /\ missing => "dashboard" \in Refusing /\ faults < MaxFaults
  /\ faults' = IF missing THEN faults + 1 ELSE faults
  /\ IF missing THEN RecordSubsystemRefusal({"dashboard"}) ELSE UNCHANGED <<refusals, recs>>
  /\ on' = on \cup {"dashboard"}
  /\ Onward
  /\ UNCHANGED <<ledger, up, wired, lns, term, works>>

HubRuntime ==
  /\ Phase("hub_runtime")
  /\ \/ /\ Onward
        /\ on' = on \cup (up \cap {"hub"})
        /\ UNCHANGED <<ledger, recs, parts, lns, term, works, faults>>
     \/ "hub" \in up /\ BootFailure("hub_runtime")

SentinelStart ==
  /\ Phase("sentinel_start")
  /\ \/ /\ Onward
        /\ on' = on \cup IF "ingest" \in lns THEN up \cap {"sentinel"} ELSE {}
        /\ UNCHANGED <<ledger, recs, parts, lns, term, works, faults>>
     \/ "sentinel" \in up /\ BootFailure("sentinel_start")

BackgroundLoops ==
  /\ Phase("background_loops")
  /\ Onward
  /\ on' = on \cup (up \cap {"research", "issues", "flow"}) \cup {"drive", "heartbeat"}
  /\ UNCHANGED <<ledger, recs, parts, lns, term, works, faults>>

(* READY=1; then the daemon waits for its context. *)
Ready ==
  /\ Phase("ready")
  /\ at' = "serve" /\ UNCHANGED <<pc, exit>>
  /\ UNCHANGED <<ledger, recs, parts, on, lns, term, works, faults>>

(* SIGTERM, at any moment of the process. *)
Signal ==
  /\ at \in {"boot", "serve"}
  /\ ~term
  /\ term' = TRUE
  /\ UNCHANGED <<life, ledger, recs, parts, on, lns, works, faults>>

(* What the sentinel appends goes over the hub's stream when the profile is on; a consumer that stopped *)
(* for the drain leaves it to the next start's.                                                        *)
Consumed(src) == src = "sentinel" /\ HubEnabled => "hub" \in on \/ term

(* A fired event of the sensors (emit, the ladder bridge), or of the sentinel (sentinelToLadder): the  *)
(* append, and the admission if there is a ladder.  The sentinel's handlers have contexts of their own *)
(* and are joined by nothing, so they go on until the ledger is closed.                                *)
Emit(e, src) ==
  /\ at # "out"
  /\ event[e] = "idle"
  /\ src \in on
  /\ ledger = "open"
  /\ src = "sensors" => ~term
  /\ busy = None
  /\ event' = [event EXCEPT ![e] = IF "ladder" \in up /\ Consumed(src) THEN "recorded" ELSE "bypassed"]
  /\ inc' = IF "ladder" \in up THEN [inc EXCEPT ![e] = "recorded"] ELSE inc
  /\ recs' = recs \cup {<<"incident", e, "recorded">>}
  /\ UNCHANGED <<life, ledger, parts, on, lns, term, busy, faults>>

(* Advance, from the drive loop: under the ladder's lock its record is queued with the daemon's context, ... *)
Advance(i) ==
  /\ "drive" \in on
  /\ MayAppend
  /\ busy = None
  /\ inc[i] \in {"recorded", "working"}
  /\ busy' = i
  /\ UNCHANGED <<life, ledger, recs, parts, on, lns, term, event, inc, faults>>

Moved(s) == IF s = "recorded" THEN "working" ELSE "done"

(* ... and the state moves when the append returns.  A context cancelled meanwhile returns an error    *)
(* and leaves the state, whether the record lands or not.                                              *)
AdvanceEnds(landed, seen) ==
  /\ at # "out"
  /\ busy # None
  /\ seen => landed
  /\ ~seen => term
  /\ recs' = recs \cup IF landed THEN {<<"incident", busy, Moved(inc[busy])>>} ELSE {}
  /\ inc' = IF seen THEN [inc EXCEPT ![busy] = Moved(@)] ELSE inc
  /\ busy' = None
  /\ UNCHANGED <<life, ledger, parts, on, lns, term, event, faults>>

(* The context is done: the drain begins. *)
DrainBegins ==
  /\ at = "serve"
  /\ term
  /\ at' = "drain" /\ pc' = 1 /\ exit' = exit
  /\ UNCHANGED <<ledger, recs, parts, on, lns, term, works, faults>>

(* Sentinel.Drain, closing the listener, closeHubRuntime, Flow.Stop, Research.Close and Sensors.Stop:  *)
(* each stops its own part and has a deadline.  Requests in flight are not waited for.                 *)
StopPart(s) ==
  /\ s \in {"sentinel", "listener", "hub", "flow", "research", "sensors"}
  /\ Draining(s)
  /\ Onward
  /\ lns' = IF s = "listener" THEN lns \ {"ingest"} ELSE lns
  /\ on' = IF s \in {"sentinel", "listener"} THEN on ELSE on \ {s}
  /\ UNCHANGED <<ledger, recs, parts, term, works, faults>>

(* Park holds the ladder's lock for its snapshot. *)
Locked == busy = None

NeedsParking == {i \in Events : inc[i] = "working"}

(* Ladder.Park with the drain's own context: one record for each working incident, up to the first     *)
(* that fails.                                                                                         *)
Park(done) ==
  /\ Draining("park")
  /\ Locked
  /\ done \subseteq NeedsParking
  /\ done # NeedsParking => faults < MaxFaults
  /\ faults' = IF done = NeedsParking THEN faults ELSE faults + 1
  /\ exit' = IF done = NeedsParking THEN exit ELSE "error"
  /\ recs' = recs \cup {<<"park", i>> : i \in done}
  /\ at' = at /\ pc' = pc + 1
  /\ UNCHANGED <<ledger, parts, on, lns, term, works>>

(* The last heartbeat says shutdown; it is a file. *)
ShutdownHeartbeat ==
  /\ Draining("heartbeat")
  /\ Onward
  /\ on' = on \ {"heartbeat"}
  /\ UNCHANGED <<ledger, recs, parts, lns, term, works, faults>>

(* Ledger.Close waits for the appends under way, then the process exits. *)
CloseLedger ==
  /\ Draining("close")
  /\ busy = None
  /\ ledger' = "closed"
  /\ at' = "out" /\ pc' = pc
  /\ exit' = IF exit = "error" THEN exit ELSE "ok"
  /\ UNCHANGED <<recs, parts, on, lns, term, works, faults>>

Init ==
  /\ at = "boot" /\ pc = 1 /\ exit = ""
  /\ ledger = "none" /\ recs = {}
  /\ up = {} /\ refusals = {} /\ wired = {} /\ on = {} /\ lns = {}
  /\ term = FALSE
  /\ event = [e \in Events |-> "idle"]
  /\ inc = [e \in Events |-> "none"]
  /\ busy = None
  /\ faults = 0

Boots ==
  \/ \E p \in {Phases[i] : i \in 1..Len(Phases)} : Checks(p) \/ Constructs(p)
  \/ LedgerOpen \/ ConfigRecord \/ HubGate \/ BindPreflight \/ Scrubber \/ SensorsBuild
  \/ \E bad \in SUBSET Refusing : Subsystems(bad)
  \/ LadderNew \/ CheckerMirror \/ SensorsStart \/ \E m \in BOOLEAN : DashboardServe(m)
  \/ HubRuntime \/ SentinelStart \/ BackgroundLoops \/ Ready

Drains ==
  \/ DrainBegins
  \/ \E s \in {"sentinel", "listener", "hub", "flow", "research", "sensors"} : StopPart(s)
  \/ \E done \in SUBSET Events : Park(done)
  \/ ShutdownHeartbeat \/ CloseLedger

Ends == \E landed \in BOOLEAN, seen \in BOOLEAN : AdvanceEnds(landed, seen)

Next ==
  \/ Boots \/ Drains \/ Signal \/ Ends
  \/ \E e \in Events, src \in {"sensors", "sentinel"} : Emit(e, src)
  \/ \E i \in Events : Advance(i)

(* Health: "ok" needs every row of Report built. *)
Built(n) == n \in up /\ n \notin refusals
HealthOk == (\A n \in Five : Built(n)) /\ "dashboard" \notin refusals

-----------------------------------------------------------------------------

(* However the boot is ordered and wherever it stops, a fired event that was recorded was given to the *)
(* ladder, and one that came over the hub's stream found its consumer running (RunDaemon, emit,        *)
(* sentinelToLadder, startHubRuntime).                                                                 *)
FiredIsAdmitted == \A e \in Events : event[e] # "bypassed"

(* A boot that is refused once the ledger is open leaves the reason in it, unless the daemon was told  *)
(* to stop meanwhile; and no exit leaves the ledger open (bootFailure, drain).                         *)
RefusalIsOnRecord ==
  at = "out" => /\ ledger # "open"
                /\ exit = "refused" /\ <<"config">> \in recs /\ ~term => \E p \in FailPhases : <<"boot_refused", p>> \in recs

(* The health answer and the ledger tell one story of what the boot refused: the dashboard's status is *)
(* ok only if no refusal of a subsystem is on record (recordSubsystemRefusal, Report, Health).  The    *)
(* flow's spool is not a row.                                                                          *)
OneTruth ==
  "dashboard" \in on /\ HealthOk => \A r \in recs : r[1] = "not_built" => r[2] = "flow_spool"

(* The same for everything the boot recorded as refused. *)
OneTruthOfAll ==
  "dashboard" \in on /\ HealthOk => \A r \in recs : r[1] # "not_built"

(* A drain that reports success has parked every incident the ladder had at work, though the drive     *)
(* loop is not joined (Park, Advance, enqueue).                                                        *)
WorkIsParked ==
  exit = "ok" => \A i \in Events : inc[i] = "working" => <<"park", i>> \in recs

(* The same of what the ledger says, which is all the next start has. *)
RecordedWorkIsParked ==
  exit = "ok" => \A i \in Events :
    <<"incident", i, "working">> \in recs /\ <<"incident", i, "done">> \notin recs => <<"park", i>> \in recs

(* Once the ladder runs, a subsystem that is built is held by everything that uses it: the flow spawns *)
(* through itself and drafts skills (flowDeps).                                                        *)
BuiltIsWired ==
  "ladder" \in up /\ "flow" \in up =>
    \A h \in {"issues", "flow", "skills"} \cap up : <<"flow", h>> \in wired

(* A daemon told to stop has exited (drain): eventually and for good, as neither is undone.             *)
Stopped == term => at = "out"

Fairness ==
  WF_vars(Boots) /\ WF_vars(Drains) /\ WF_vars(Ends)
Spec == Init /\ [][Next]_vars /\ Fairness

TypeOK ==
  /\ at \in {"boot", "serve", "drain", "out"}
  /\ pc \in 1..Len(Phases)
  /\ ledger \in {"none", "open", "closed"}
  /\ up \subseteq Five \cup {"hub", "scrubber", "sensors", "ladder"}
  /\ refusals \subseteq Five \cup {"flow_spool", "dashboard"}
  /\ on \subseteq Five \cup {"sensors", "dashboard", "hub", "drive", "heartbeat"}
  /\ inc \in [Events -> {"none", "recorded", "working", "done"}]
  /\ event \in [Events -> {"idle", "recorded", "bypassed"}]
  /\ busy \in Events \cup {None}
  /\ exit \in {"", "refused", "ok", "error"}
=============================================================================
