----------------------------- MODULE MCDelivery -----------------------------
(* Deliveries: a message from the hub's door to the ledger, a ledger file  *)
(* to the archive, a journal entry to the ladder, an incident through the  *)
(* driver, and a daemon from its boot to its stop.  The scene is chosen at *)
(* the start and only its component moves.                                 *)
(* The scene's component keeps its variables in x1, x2, ...; the others   *)
(* stay 0.                                                                   *)
EXTENDS Naturals, Sequences, FiniteSets

VARIABLES scene, x1, x2, x3, x4, x5, x6, x7, x8, x9, x10, x11, x12, x13, x14, x15

vars == <<scene, x1, x2, x3, x4, x5, x6, x7, x8, x9, x10, x11, x12, x13, x14, x15>>

(* Two senders offer the same key to a hub that loses Redis, an append, a  *)
(* claim or its own process.                                               *)
Hub == INSTANCE HubIngest WITH
  Senders <- {"s1", "s2"}, Keys <- {"k1"}, KeyOf <- [s \in {"s1", "s2"} |->
  "k1"], BatchRecs <- 1, RequireRedis <- FALSE, Faults <- {"down", "append",
  "claim", "cold", "crash", "claimfail"}, MaxFaults <- 1, MaxTries <- 2,
  MaxEntries <- 3,
  redis <- x1, hub <- x2, cons <- x3, offer <- x4, ledger <- x5, direct <- x6,
  bad <- x7, late <- x8, dead <- x9, acked <- x10, spent <- x11
InHub(A) == scene = "hub" /\ A /\ UNCHANGED <<scene, x7, x12, x13, x14, x15>>
HubInit == scene = "hub" /\ Hub!Init
  /\ x12 = 0 /\ x13 = 0 /\ x14 = 0 /\ x15 = 0
HubNext ==
  \/ \E s \in {"s1", "s2"} : InHub(Hub!Claim(s))
  \/ \E s \in {"s1", "s2"} : InHub(Hub!Enqueue(s))
  \/ \E s \in {"s1", "s2"} : InHub(Hub!EnqueueFails(s))
  \/ \E s \in {"s1", "s2"} : InHub(Hub!Register(s))
  \/ \E s \in {"s1", "s2"} : InHub(Hub!Answered(s))
  \/ \E s \in {"s1", "s2"} : InHub(Hub!Timeout(s))
  \/ \E s \in {"s1", "s2"} : InHub(Hub!Bypass(s))
  \/ InHub(Hub!Read)
  \/ InHub(Hub!Reclaim)
  \/ InHub(Hub!Decide)
  \/ InHub(Hub!AppendOK)
  \/ InHub(Hub!Mark)
  \/ InHub(Hub!Completed)
  \/ InHub(Hub!Ack)
  \/ InHub(Hub!EntryFails)
  \/ InHub(Hub!ReclaimFails)
  \/ InHub(Hub!ProbeFails)
  \/ InHub(Hub!StopConsumer)
  \/ InHub(Hub!Reconnect)
  \/ InHub(Hub!Restart)
  \/ InHub(Hub!Open)
  \/ InHub(Hub!Crash)
  \/ InHub(Hub!TrustEnds)
  \/ InHub(\E e \in x1.pel : Hub!Idle(e))
  \/ InHub(Hub!Land("k1"))
  \/ InHub(Hub!ClaimLost("k1"))
  \/ InHub(Hub!RedisDown)
  \/ InHub(Hub!RedisUp)
(* The hub's loops run on: the consumer's, the supervisor's and the ledger *)
(* writer's; a call returns; time passes; Redis comes back.                *)
HubFairness ==
  /\ WF_vars(InHub(Hub!Consume))
  /\ WF_vars(InHub(Hub!Supervise))
  /\ WF_vars(InHub(Hub!Open))
  /\ WF_vars(InHub(Hub!RedisUp))
  /\ WF_vars(InHub(Hub!TrustEnds))
  /\ WF_vars(InHub(\E e \in x1.pel : Hub!Idle(e)))
  /\ WF_vars(InHub(Hub!Land("k1")))
  /\ \A s \in {"s1", "s2"} : WF_vars(InHub(Hub!Call(s)))

(* The archiver copies closed ledger files to the archive one at a time.   *)
Archive == INSTANCE HubArchive WITH
  MaxFiles <- 3, MaxVersion <- 2, Keep <- 1, BatchFiles <- 1, VerifyAfter <-
  TRUE, Faults <- {"put", "damage", "get", "compact", "crash"}, MaxFaults <-
  2,
  files <- x1, live <- x2, liveFile <- x3, marks <- x4, obj <- x5, pass <- x6,
  faults <- x7
InArchive(A) == scene = "archive" /\ A /\ UNCHANGED <<scene, x8, x9, x10, x11, x12, x13, x14, x15>>
ArchiveInit == scene = "archive" /\ Archive!Init
  /\ x8 = 0 /\ x9 = 0 /\ x10 = 0 /\ x11 = 0 /\ x12 = 0 /\ x13 = 0 /\ x14 = 0 /\
  x15 = 0
ArchiveNext ==
  \/ InArchive(Archive!PlanArchive)
  \/ InArchive(Archive!Check)
  \/ InArchive(Archive!Put)
  \/ InArchive(Archive!Get)
  \/ InArchive(Archive!Mark)
  \/ InArchive(Archive!Sweep)
  \/ InArchive(Archive!PutFails)
  \/ InArchive(Archive!Damage)
  \/ InArchive(Archive!GetFails)
  \/ InArchive(Archive!AppendLive)
  \/ InArchive(Archive!Rotate)
  \/ InArchive(Archive!Restart)
  \/ \E f \in 1..3 : InArchive(Archive!Vanish(f))
(* The archive loop ticks.                                                 *)
ArchiveFairness ==
  /\ WF_vars(InArchive(Archive!ArchiveOnce))

(* Every phase may refuse, every subsystem may be refused, one event.      *)
LifeRefusals == INSTANCE DaemonLife WITH
  Refusing <- {"sentinel", "issues", "research", "flow", "skills",
  "flow_spool", "dashboard", "scrubber"}, FailPhases <- {"config_resolve",
  "state_root", "secrets", "schema_compat", "ledger_open", "config_record",
  "projects", "hub_gate", "bind_preflight", "sensors_build", "registry",
  "skill_library", "llm_port", "ladder", "dashboard_config",
  "sensors_start", "hub_runtime", "sentinel_start"}, Events <- {"e"},
  HubEnabled <- TRUE, Projects <- TRUE, MaxFaults <- 2,
  at <- x1, pc <- x2, ledger <- x3, recs <- x4, up <- x5, refusals <- x6,
  wired <- x7, on <- x8, lns <- x9, term <- x10, event <- x11, inc <- x12,
  busy <- x13, faults <- x14, exit <- x15
InLifeRefusals(A) == scene = "lifeRefusals" /\ A /\ UNCHANGED <<scene>>
LifeRefusalsInit == scene = "lifeRefusals" /\ LifeRefusals!Init
LifeRefusalsNext ==
  \/ \E p \in {"config_resolve", "projects", "registry", "sensors_probe", "dashboard_config", "state_root", "secrets", "schema_compat", "skill_library", "llm_port"} : InLifeRefusals(LifeRefusals!Checks(p))
  \/ \E p \in {"config_resolve", "projects", "registry", "sensors_probe", "dashboard_config", "state_root", "secrets", "schema_compat", "skill_library", "llm_port"} : InLifeRefusals(LifeRefusals!Constructs(p))
  \/ InLifeRefusals(LifeRefusals!LedgerOpen)
  \/ InLifeRefusals(LifeRefusals!ConfigRecord)
  \/ InLifeRefusals(LifeRefusals!HubGate)
  \/ InLifeRefusals(LifeRefusals!BindPreflight)
  \/ InLifeRefusals(LifeRefusals!Scrubber)
  \/ InLifeRefusals(LifeRefusals!SensorsBuild)
  \/ InLifeRefusals(LifeRefusals!LadderNew)
  \/ InLifeRefusals(LifeRefusals!CheckerMirror)
  \/ InLifeRefusals(LifeRefusals!SensorsStart)
  \/ InLifeRefusals(LifeRefusals!HubRuntime)
  \/ InLifeRefusals(LifeRefusals!SentinelStart)
  \/ InLifeRefusals(LifeRefusals!BackgroundLoops)
  \/ InLifeRefusals(LifeRefusals!Ready)
  \/ InLifeRefusals(LifeRefusals!Signal)
  \/ InLifeRefusals(LifeRefusals!DrainBegins)
  \/ InLifeRefusals(LifeRefusals!ShutdownHeartbeat)
  \/ InLifeRefusals(LifeRefusals!CloseLedger)
  \/ \E off \in SUBSET {"sentinel", "issues", "research", "flow", "skills", "flow_spool", "dashboard", "scrubber"} : InLifeRefusals(LifeRefusals!Subsystems(off))
  \/ \E m \in BOOLEAN : InLifeRefusals(LifeRefusals!DashboardServe(m))
  \/ \E s \in {"sentinel", "listener", "hub", "flow", "research", "sensors"} : InLifeRefusals(LifeRefusals!StopPart(s))
  \/ \E done \in SUBSET {"e"} : InLifeRefusals(LifeRefusals!Park(done))
  \/ \E landed \in BOOLEAN, seen \in BOOLEAN : InLifeRefusals(LifeRefusals!AdvanceEnds(landed, seen))
  \/ \E e \in {"e"}, src \in {"sensors", "sentinel"} : InLifeRefusals(LifeRefusals!Emit(e, src))
  \/ \E i \in {"e"} : InLifeRefusals(LifeRefusals!Advance(i))
LifeRefusalsFairness ==
  /\ WF_vars(InLifeRefusals(LifeRefusals!Boots))
  /\ WF_vars(InLifeRefusals(LifeRefusals!Drains))
  /\ WF_vars(InLifeRefusals(LifeRefusals!Ends))

(* Two events through boot, service and drain.                             *)
LifeDrain == INSTANCE DaemonLife WITH
  Refusing <- {}, FailPhases <- {}, Events <- {"e", "f"}, HubEnabled <- FALSE,
  Projects <- TRUE, MaxFaults <- 1,
  at <- x1, pc <- x2, ledger <- x3, recs <- x4, up <- x5, refusals <- x6,
  wired <- x7, on <- x8, lns <- x9, term <- x10, event <- x11, inc <- x12,
  busy <- x13, faults <- x14, exit <- x15
InLifeDrain(A) == scene = "lifeDrain" /\ A /\ UNCHANGED <<scene>>
LifeDrainInit == scene = "lifeDrain" /\ LifeDrain!Init
LifeDrainNext ==
  \/ \E p \in {"config_resolve", "projects", "registry", "sensors_probe", "dashboard_config", "state_root", "secrets", "schema_compat", "skill_library", "llm_port"} : InLifeDrain(LifeDrain!Checks(p))
  \/ \E p \in {"config_resolve", "projects", "registry", "sensors_probe", "dashboard_config", "state_root", "secrets", "schema_compat", "skill_library", "llm_port"} : InLifeDrain(LifeDrain!Constructs(p))
  \/ InLifeDrain(LifeDrain!LedgerOpen)
  \/ InLifeDrain(LifeDrain!ConfigRecord)
  \/ InLifeDrain(LifeDrain!HubGate)
  \/ InLifeDrain(LifeDrain!BindPreflight)
  \/ InLifeDrain(LifeDrain!Scrubber)
  \/ InLifeDrain(LifeDrain!SensorsBuild)
  \/ InLifeDrain(LifeDrain!LadderNew)
  \/ InLifeDrain(LifeDrain!CheckerMirror)
  \/ InLifeDrain(LifeDrain!SensorsStart)
  \/ InLifeDrain(LifeDrain!HubRuntime)
  \/ InLifeDrain(LifeDrain!SentinelStart)
  \/ InLifeDrain(LifeDrain!BackgroundLoops)
  \/ InLifeDrain(LifeDrain!Ready)
  \/ InLifeDrain(LifeDrain!Signal)
  \/ InLifeDrain(LifeDrain!DrainBegins)
  \/ InLifeDrain(LifeDrain!ShutdownHeartbeat)
  \/ InLifeDrain(LifeDrain!CloseLedger)
  \/ \E off \in SUBSET {} : InLifeDrain(LifeDrain!Subsystems(off))
  \/ \E m \in BOOLEAN : InLifeDrain(LifeDrain!DashboardServe(m))
  \/ \E s \in {"sentinel", "listener", "hub", "flow", "research", "sensors"} : InLifeDrain(LifeDrain!StopPart(s))
  \/ \E done \in SUBSET {"e", "f"} : InLifeDrain(LifeDrain!Park(done))
  \/ \E landed \in BOOLEAN, seen \in BOOLEAN : InLifeDrain(LifeDrain!AdvanceEnds(landed, seen))
  \/ \E e \in {"e", "f"}, src \in {"sensors", "sentinel"} : InLifeDrain(LifeDrain!Emit(e, src))
  \/ \E i \in {"e", "f"} : InLifeDrain(LifeDrain!Advance(i))
LifeDrainFairness ==
  /\ WF_vars(InLifeDrain(LifeDrain!Boots))
  /\ WF_vars(InLifeDrain(LifeDrain!Drains))
  /\ WF_vars(InLifeDrain(LifeDrain!Ends))

(* One follower, one death of the child, a vacuumed journal and rescans    *)
(* that begin anywhere.                                                    *)
Journal == INSTANCE JournalFollow WITH
  QueueCap <- 2, RingSize <- 2, SaveEvery <- 2, Overlap <- FALSE, MaxEntries
  <- 4, MaxDeaths <- 1, MaxVacuums <- 2, MaxRefusals <- 0, MaxStops <- 0,
  journal <- x1, child <- x2, fol <- x3, q <- x4, rd <- x5, hd <- x6, disk <-
  x7, life <- x8, gap <- x9, out <- x10, spent <- x11
InJournal(A) == scene = "journal" /\ A /\ UNCHANGED <<scene, x12, x13, x14, x15>>
JournalInit == scene = "journal" /\ Journal!Init
  /\ x12 = 0 /\ x13 = 0 /\ x14 = 0 /\ x15 = 0
JournalNext ==
  \/ InJournal(Journal!Write)
  \/ InJournal(Journal!Vacuum)
  \/ InJournal(Journal!ChildDies)
  \/ InJournal(Journal!SkipRepeat)
  \/ InJournal(Journal!Read)
  \/ InJournal(Journal!PushReads)
  \/ InJournal(Journal!PushWrites)
  \/ InJournal(Journal!Overflow)
  \/ InJournal(Journal!PopReads)
  \/ InJournal(Journal!PopWrites)
  \/ InJournal(Journal!EpisodeEnds)
  \/ InJournal(Journal!GapCloses)
  \/ \E gone \in BOOLEAN : InJournal(Journal!Follow(gone))
  \/ \E due \in BOOLEAN : InJournal(Journal!Handle(due))
JournalFairness ==
  /\ WF_vars(InJournal(Journal!Reader))
  /\ WF_vars(InJournal(Journal!Handler))

(* Two incidents compete for the lease, the kill-switch is flipped twice   *)
(* and an append fails.                                                    *)
Driver == INSTANCE LadderRun WITH
  Inc <- {"i1", "i2"}, Ceilings <- {"agent"}, Drafts <- {"none"}, CallerEdges
  <- {"T49"}, ResearchWired <- TRUE, QuietClose <- TRUE, Cooldown <- FALSE,
  MaxRuns <- 1, VerifyReopens <- 1, ResearchPlayExtra <- 1, ReopenMax <- 1,
  WaitAfter <- 1, Limit <- [c \in {"play", "research", "agent"} |-> 0],
  MaxFlight <- 1, MaxSpent <- [k \in {"kill", "fault", "trip", "suppress",
  "day", "arrive", "human", "expire", "age", "call", "verify", "desk"} |->
  CASE k \in {"kill", "fault"} -> 2 [] OTHER -> 0],
  inc <- x1, kill <- x2, pending <- x3, tick <- x4, resume <- x5, drv <- x6,
  lease <- x7, used <- x8, desk <- x9, flight <- x10, breaker <- x11,
  suppress <- x12, spent <- x13
InDriver(A) == scene = "driver" /\ A /\ UNCHANGED <<scene, x14, x15>>
DriverInit == scene = "driver" /\ Driver!Init
  /\ x14 = 0 /\ x15 = 0
DriverNext ==
  \/ \E i \in {"i1", "i2"}, e \in {"T49"} : InDriver(Driver!Caller(i, e))
  \/ InDriver(Driver!Worker)
  \/ InDriver(Driver!SetKillSwitch)
(* The daemon's ladder goroutine ticks for ever (ladderDriveLoop).         *)
DriverFairness ==
  /\ WF_vars(InDriver(Driver!Worker))

Init == HubInit \/ ArchiveInit \/ LifeRefusalsInit \/ LifeDrainInit \/ JournalInit
        \/ DriverInit
Next == HubNext \/ ArchiveNext \/ LifeRefusalsNext \/ LifeDrainNext \/ JournalNext
        \/ DriverNext
Spec == Init /\ [][Next]_vars /\ HubFairness /\ ArchiveFairness /\ LifeRefusalsFairness /\ LifeDrainFairness
        /\ JournalFairness /\ DriverFairness

(* What was taken over is not lost. What the consumer acknowledged to      *)
(* Redis is in the ledger or on the dead-letter stream, whatever failed on *)
(* the way (Consumer.handleBatch). Whether the consumer finishes an entry  *)
(* before or after the door registers who waits for it, the waiter gets    *)
(* the answer (Door.Complete, Door.OfferRoute). A ledger file marked       *)
(* verified has these very bytes in the archive, although it may grow      *)
(* during the export and a marker line may be torn (Archive, MarkerStore). *)
(* A journal entry read and not recorded is counted or gapped              *)
(* (queueJournal, runJournalReader).                                       *)
NothingLost ==
  /\ scene = "hub" => Hub!AckedIsRecorded /\ Hub!NoLostAnswer
  /\ scene = "archive" => Archive!VerifiedHolds
  /\ scene = "journal" => Journal!NeverSilent

(* What arrives twice has a known cause. A key is appended again only as   *)
(* often as the hub reconnected or a fault happened (DedupGate,            *)
(* Consumer.handleEntry). A journal entry is recorded once, and again only *)
(* by a rescan that began before what the ring remembers                   *)
(* (parseJournalEntry).                                                    *)
NothingTwice ==
  /\ scene = "hub" => Hub!DuplicatesPriced
  /\ scene = "journal" => Journal!AtMostOnce

(* A daemon's boot, refusals and stop. A fired event on record was given   *)
(* to the ladder, at every moment of boot and drain (RunDaemon, emit,      *)
(* sentinelToLadder). A refused boot leaves its reason in the ledger and   *)
(* the ledger closed (bootFailure). The status is ok only if no            *)
(* subsystem's refusal is on record (recordSubsystemRefusal, Health). A    *)
(* drain that succeeds has parked every incident at work (Park, Advance).  *)
LifeOnRecord ==
  /\ scene = "lifeRefusals" => LifeRefusals!FiredIsAdmitted /\ LifeRefusals!RefusalIsOnRecord /\
                    LifeRefusals!OneTruth /\ LifeRefusals!WorkIsParked
  /\ scene = "lifeDrain" => LifeDrain!FiredIsAdmitted /\ LifeDrain!RefusalIsOnRecord /\
                    LifeDrain!OneTruth /\ LifeDrain!WorkIsParked

(* Every delivery comes to its end. The stream and its pending list run    *)
(* empty for good (Consumer.Run, reclaim). The hub is attached to Redis    *)
(* again and again: no outage leaves it down (Runtime.reconnect). Every    *)
(* closed ledger file is exported in the end, whatever failed on the way   *)
(* (PlanArchive). A daemon told to stop exits (drain). Every journal entry *)
(* is recorded, accounted for, or passed over by a --since in the future,  *)
(* in the end (followOnce, followSince). An incident that is to be worked  *)
(* on does not stay at `recorded` (Drive, DriveOne). An entry refused      *)
(* under the kill-switch is settled once the switch is off; only one into  *)
(* the agent stage may keep waiting (ResumePending).                       *)
DeliverySettles ==
  /\ <>[](
       /\ scene = "hub" => Hub!Drained
       /\ scene = "archive" => Archive!Exported
       /\ scene = "lifeRefusals" => LifeRefusals!Stopped
       /\ scene = "lifeDrain" => LifeDrain!Stopped
       /\ scene = "journal" => Journal!CaughtUp
       /\ scene = "driver" => Driver!Moved
       /\ scene = "driver" => Driver!Settled)
  /\ []<>(scene = "hub" => Hub!Rewired)

=============================================================================
