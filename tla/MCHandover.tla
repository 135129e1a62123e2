----------------------------- MODULE MCHandover -----------------------------
(* The queues on which something is handed on and has to arrive: the issue *)
(* desk, hotfix dispatches, the sentinel's spool, a rule edit on its way   *)
(* into the daemon, research runs, and appends racing the ledger's Close.  *)
(* The scene is chosen at the start and only its component moves.          *)
(* The scene's component keeps its variables in x1, x2, ...; the others   *)
(* stay 0.                                                                   *)
EXTENDS Naturals, Sequences, FiniteSets

VARIABLES scene, x1, x2, x3, x4, x5, x6, x7, x8, x9, x10, x11, x12, x13, x14, x15,
  x16, x17, x18, x19, x20, x21, x22, x23, x24, x25, x26

vars == <<scene, x1, x2, x3, x4, x5, x6, x7, x8, x9, x10, x11, x12, x13, x14, x15,
  x16, x17, x18, x19, x20, x21, x22, x23, x24, x25, x26>>

(* The ladder, the closing outlet and one replay loop on one signature.    *)
DeskA == INSTANCE IssueDesk WITH
  Procs <- {"ladder", "closer", "r1"}, Incs <- {1}, MaxIssues <- 3,
  MaxAttempts <- 1, MaxPerOp <- 2, SpoolMax <- 1, MemMax <- 1, Stores <-
  {"disk", "memory"}, CapCreates <- 2, FailAfter <- 1, MaxCalls <- 3,
  MaxFaults <- 1, MaxCrashes <- 1,
  remote <- x1, memo <- x2, anchor <- x3, ledger <- x4, creates <- x5, store
  <- x6, spool <- x7, shelf <- x8, list <- x9, job <- x10, lock <- x11,
  health <- x12, hist <- x13, calls <- x14, faults <- x15, crashes <- x16
InDeskA(A) == scene = "deskA" /\ A /\ UNCHANGED <<scene, x17, x18, x19, x20, x21, x22, x23, x24, x25, x26>>
DeskAInit == scene = "deskA" /\ DeskA!Init
  /\ x17 = 0 /\ x18 = 0 /\ x19 = 0 /\ x20 = 0 /\ x21 = 0 /\ x22 = 0 /\ x23 = 0 /\
  x24 = 0 /\ x25 = 0 /\ x26 = 0
DeskANext ==
  \/ \E i \in {1} : InDeskA(DeskA!EnsureBySig(i))
  \/ InDeskA(DeskA!LadderEnds)
  \/ InDeskA(DeskA!Due)
  \/ InDeskA(DeskA!ProbeFails)
  \/ InDeskA(DeskA!Probe)
  \/ InDeskA(DeskA!Restart)
  \/ InDeskA(DeskA!Person)
  \/ \E p \in {"ladder", "closer", "r1"} : InDeskA(DeskA!Search(p))
  \/ \E p \in {"ladder", "closer", "r1"} : InDeskA(DeskA!Create(p))
  \/ \E p \in {"ladder", "closer", "r1"} : InDeskA(DeskA!ReadMarks(p))
  \/ \E p \in {"ladder", "closer", "r1"} : InDeskA(DeskA!Post(p))
  \/ \E p \in {"ladder", "closer", "r1"} : InDeskA(DeskA!Patch(p))
  \/ \E p \in {"ladder", "closer", "r1"} : InDeskA(DeskA!Records(p))
  \/ \E op \in {"close", "note"} : InDeskA(DeskA!Outlet(op))
  \/ InDeskA(DeskA!OutletEnds)
  \/ \E r \in {"r1"} : InDeskA(DeskA!Replay(r))
  \/ \E r \in {"r1"} : InDeskA(DeskA!ReplayEntry(r))
  \/ \E r \in {"r1"} : InDeskA(DeskA!ReplayEnds(r))
  \/ \E r \in {"r1"} : InDeskA(DeskA!ReplayFails(r))
(* The probe and the replay loops tick on, backoffs pass, and a call under *)
(* way returns.                                                            *)
DeskAFairness ==
  /\ WF_vars(InDeskA(DeskA!Probe))
  /\ WF_vars(InDeskA(DeskA!Due))
  /\ WF_vars(InDeskA(DeskA!Work))
  /\ \A r \in {"r1"} : WF_vars(InDeskA(DeskA!Loop(r)))

(* The quiet-close sweep and two overlapping replay loops.                 *)
DeskB == INSTANCE IssueDesk WITH
  Procs <- {"ladder", "sweep", "r1", "r2"}, Incs <- {1}, MaxIssues <- 3,
  MaxAttempts <- 1, MaxPerOp <- 2, SpoolMax <- 1, MemMax <- 1, Stores <-
  {"disk", "memory"}, CapCreates <- 2, FailAfter <- 1, MaxCalls <- 2,
  MaxFaults <- 2, MaxCrashes <- 1,
  remote <- x1, memo <- x2, anchor <- x3, ledger <- x4, creates <- x5, store
  <- x6, spool <- x7, shelf <- x8, list <- x9, job <- x10, lock <- x11,
  health <- x12, hist <- x13, calls <- x14, faults <- x15, crashes <- x16
InDeskB(A) == scene = "deskB" /\ A /\ UNCHANGED <<scene, x17, x18, x19, x20, x21, x22, x23, x24, x25, x26>>
DeskBInit == scene = "deskB" /\ DeskB!Init
  /\ x17 = 0 /\ x18 = 0 /\ x19 = 0 /\ x20 = 0 /\ x21 = 0 /\ x22 = 0 /\ x23 = 0 /\
  x24 = 0 /\ x25 = 0 /\ x26 = 0
DeskBNext ==
  \/ \E i \in {1} : InDeskB(DeskB!EnsureBySig(i))
  \/ InDeskB(DeskB!LadderEnds)
  \/ InDeskB(DeskB!Due)
  \/ InDeskB(DeskB!ProbeFails)
  \/ InDeskB(DeskB!Probe)
  \/ InDeskB(DeskB!Restart)
  \/ InDeskB(DeskB!Person)
  \/ \E p \in {"ladder", "sweep", "r1", "r2"} : InDeskB(DeskB!Search(p))
  \/ \E p \in {"ladder", "sweep", "r1", "r2"} : InDeskB(DeskB!Create(p))
  \/ \E p \in {"ladder", "sweep", "r1", "r2"} : InDeskB(DeskB!ReadMarks(p))
  \/ \E p \in {"ladder", "sweep", "r1", "r2"} : InDeskB(DeskB!Post(p))
  \/ \E p \in {"ladder", "sweep", "r1", "r2"} : InDeskB(DeskB!Patch(p))
  \/ \E p \in {"ladder", "sweep", "r1", "r2"} : InDeskB(DeskB!Records(p))
  \/ InDeskB(DeskB!SweepQuietClose)
  \/ InDeskB(DeskB!SweepEnds)
  \/ \E r \in {"r1", "r2"} : InDeskB(DeskB!Replay(r))
  \/ \E r \in {"r1", "r2"} : InDeskB(DeskB!ReplayEntry(r))
  \/ \E r \in {"r1", "r2"} : InDeskB(DeskB!ReplayEnds(r))
  \/ \E r \in {"r1", "r2"} : InDeskB(DeskB!ReplayFails(r))
(* The probe and the replay loops tick on, backoffs pass, and a call under *)
(* way returns.                                                            *)
DeskBFairness ==
  /\ WF_vars(InDeskB(DeskB!Probe))
  /\ WF_vars(InDeskB(DeskB!Due))
  /\ WF_vars(InDeskB(DeskB!Work))
  /\ \A r \in {"r1", "r2"} : WF_vars(InDeskB(DeskB!Loop(r)))

(* Two incidents of one signature ask for a hotfix through a queue of one. *)
Spawn == INSTANCE FlowSpawn WITH
  Incs <- {"i1", "i2"}, Worktrees <- {TRUE, FALSE}, MaxConcurrent <- 1,
  SpoolMax <- 1, MaxAttempts <- 2, MaxCalls <- 2, MaxFaults <- 1, MaxCrashes
  <- 1,
  lease <- x1, spawn <- x2, trees <- x3, pc <- x4, mutex <- x5, spool <- x6,
  back <- x7, written <- x8, replay <- x9, owed <- x10, router <- x11,
  fixing <- x12, hist <- x13, broken <- x14, calls <- x15, faults <- x16,
  crashes <- x17
InSpawn(A) == scene = "spawn" /\ A /\ UNCHANGED <<scene, x18, x19, x20, x21, x22, x23, x24, x25, x26>>
SpawnInit == scene = "spawn" /\ Spawn!Init
  /\ x18 = 0 /\ x19 = 0 /\ x20 = 0 /\ x21 = 0 /\ x22 = 0 /\ x23 = 0 /\ x24 = 0 /\
  x25 = 0 /\ x26 = 0
SpawnNext ==
  \/ \E i \in {"i1", "i2"} : InSpawn(Spawn!HotfixGate(i))
  \/ \E i \in {"i1", "i2"} : InSpawn(Spawn!Spawn(i))
  \/ \E i \in {"i1", "i2"} : InSpawn(Spawn!Promote(i))
  \/ \E i \in {"i1", "i2"} : InSpawn(Spawn!Rollback(i))
  \/ InSpawn(Spawn!Replay)
  \/ InSpawn(Spawn!Due)
  \/ InSpawn(Spawn!Lapse)
  \/ InSpawn(Spawn!Restart)
(* The replay loop ticks, backoffs pass, a Spawn call returns.             *)
SpawnFairness ==
  /\ WF_vars(InSpawn(Spawn!Replay))
  /\ WF_vars(InSpawn(Spawn!Due))
  /\ \A i \in {"i1", "i2"} : WF_vars(InSpawn(Spawn!Spawn(i)))

(* An envelope of two events over a quota of one, whose project spools     *)
(* what it cannot admit.                                                   *)
SentSpool == INSTANCE SentinelIngest WITH
  Reqs <- {"r1"}, Envelopes <- {<<"e1", "e2", "e3">>}, Stores <- {}, Policies
  <- {"spool"}, Rels <- {FALSE}, Quota <- 1, SpoolMax <- 2, MaxTries <- 1,
  MaxFaults <- 0, MaxCrashes <- 1,
  policy <- x1, log <- x2, grp <- x3, dups <- x4, fold <- x5, used <- x6,
  spool <- x7, torn <- x8, req <- x9, late <- x10, flush <- x11, hist <-
  x12, tries <- x13, faults <- x14, crashes <- x15
InSentSpool(A) == scene = "sentSpool" /\ A /\ UNCHANGED <<scene, x16, x17, x18, x19, x20, x21, x22, x23, x24, x25, x26>>
SentSpoolInit == scene = "sentSpool" /\ SentSpool!Init
  /\ x16 = 0 /\ x17 = 0 /\ x18 = 0 /\ x19 = 0 /\ x20 = 0 /\ x21 = 0 /\ x22 = 0 /\
  x23 = 0 /\ x24 = 0 /\ x25 = 0 /\ x26 = 0
SentSpoolNext ==
  \/ \E p \in {"r1"} : InSentSpool(SentSpool!HandleEnvelope(p))
  \/ \E p \in {"r1", "replay"} : InSentSpool(SentSpool!Admit(p))
  \/ \E p \in {"r1", "replay"} : InSentSpool(SentSpool!QuotaAdmit(p))
  \/ \E p \in {"r1", "replay"} : InSentSpool(SentSpool!RecordLoss(p))
  \/ \E p \in {"r1", "replay"} : InSentSpool(SentSpool!Draft(p))
  \/ \E p \in {"r1", "replay"} : InSentSpool(SentSpool!AppendBatch(p))
  \/ \E p \in {"r1", "replay"} : InSentSpool(SentSpool!AfterBatch(p))
  \/ InSentSpool(SentSpool!Peek)
  \/ InSentSpool(SentSpool!Drain)
  \/ InSentSpool(SentSpool!Turn)
  \/ InSentSpool(SentSpool!Forget)
  \/ InSentSpool(SentSpool!Restart)
(* The replay loop and the quota window tick on, and an admission under    *)
(* way goes on.                                                            *)
SentSpoolFairness ==
  /\ WF_vars(InSentSpool(SentSpool!Peek))
  /\ WF_vars(InSentSpool(SentSpool!Drain))
  /\ WF_vars(InSentSpool(SentSpool!Turn))
  /\ \A p \in {"r1", "replay"} : WF_vars(InSentSpool(SentSpool!Admit(p) \/ SentSpool!QuotaAdmit(p) \/ SentSpool!RecordLoss(p) \/ SentSpool!Draft(p) \/ SentSpool!AppendBatch(p) \/ SentSpool!AfterBatch(p)))

(* One sensor, one rule, an edit of rules.d.                               *)
Gate == INSTANCE SensorGate WITH
  Procs <- {"psi"}, RulesOf <- [psi |-> <<"r1">>], For <- 1, Cooldown <- 1,
  Cap <- [global |-> 9, source |-> 9, rule |-> 2], IncidentCap <- [global
  |-> 9, rule |-> 1], MaxBackoff <- 4, MaxTime <- 3, MaxEvents <- 3,
  MaxEdits <- 1, MaxFaults <- 1,
  now <- x1, br <- x2, stab <- x3, cool <- x4, proc <- x5, live <- x6, disk <-
  x7, load <- x8, held <- x9, spent <- x10
InGate(A) == scene = "gate" /\ A /\ UNCHANGED <<scene, x11, x12, x13, x14, x15, x16, x17, x18, x19, x20, x21, x22, x23, x24,
  x25, x26>>
GateInit == scene = "gate" /\ Gate!Init
  /\ x11 = 0 /\ x12 = 0 /\ x13 = 0 /\ x14 = 0 /\ x15 = 0 /\ x16 = 0 /\ x17 = 0 /\
  x18 = 0 /\ x19 = 0 /\ x20 = 0 /\ x21 = 0 /\ x22 = 0 /\ x23 = 0 /\ x24 = 0
  /\ x25 = 0 /\ x26 = 0
GateNext ==
  \/ InGate(Gate!Tick)
  \/ InGate(Gate!Edit)
  \/ InGate(Gate!Inotify)
  \/ InGate(Gate!Sweep)
  \/ InGate(Gate!Reload)
  \/ InGate(Gate!InstallRules)
  \/ \E p \in {"psi"} : InGate(Gate!Arrive(p))
  \/ \E p \in {"psi"} : InGate(Gate!Evaluate(p))
  \/ \E p \in {"psi"} : InGate(Gate!Fire(p))
  \/ \E p \in {"psi"} : InGate(Gate!OpenIncident(p))
(* The sweep ticks, inotify delivers and a reload goes on.                 *)
GateFairness ==
  /\ WF_vars(InGate(Gate!Sweep))
  /\ WF_vars(InGate(Gate!Reload))
  /\ WF_vars(InGate(Gate!InstallRules))
  /\ WF_vars(InGate(Gate!Inotify))

(* Two research runs of one class against a lab that answers, refuses,     *)
(* forgets or fails, and the kill-switch.                                  *)
LabFails == INSTANCE ResearchRuns WITH
  Runs <- {"a", "b"}, KeyOf <- [r \in {"a", "b"} |-> "k"], MaxInflight <- 2,
  MaxPolls <- 1, CooldownFailures <- 1, SubmitFuse <- 1, RequestsPerDay <-
  2, Cadences <- 2, Codes <- {"lab", "decoder"}, Fallbacks <- {FALSE, TRUE},
  MaxFaults <- 1, MaxCrashes <- 1,
  rung <- x1, inflight <- x2, submitted <- x3, svc <- x4, subs <- x5, answers
  <- x6, log <- x7, hist <- x8, spent <- x9
InLabFails(A) == scene = "labFails" /\ A /\ UNCHANGED <<scene, x10, x11, x12, x13, x14, x15, x16, x17, x18, x19, x20, x21, x22, x23,
  x24, x25, x26>>
LabFailsInit == scene = "labFails" /\ LabFails!Init
  /\ x10 = 0 /\ x11 = 0 /\ x12 = 0 /\ x13 = 0 /\ x14 = 0 /\ x15 = 0 /\ x16 = 0 /\
  x17 = 0 /\ x18 = 0 /\ x19 = 0 /\ x20 = 0 /\ x21 = 0 /\ x22 = 0 /\ x23 = 0
  /\ x24 = 0 /\ x25 = 0 /\ x26 = 0
LabFailsNext ==
  \/ \E r \in {"a", "b"} : InLabFails(LabFails!Run(r))
  \/ \E r \in {"a", "b"} : InLabFails(LabFails!Discover(r))
  \/ \E r \in {"a", "b"} : InLabFails(LabFails!Corpus(r))
  \/ \E r \in {"a", "b"} : InLabFails(LabFails!Adopt(r))
  \/ \E r \in {"a", "b"} : InLabFails(LabFails!Submit(r))
  \/ \E r \in {"a", "b"} : InLabFails(LabFails!LoopTop(r))
  \/ \E r \in {"a", "b"} : InLabFails(LabFails!PollAnswer(r))
  \/ \E r \in {"a", "b"} : InLabFails(LabFails!ProbeAnswer(r))
  \/ InLabFails(LabFails!SetKillSwitch)
  \/ InLabFails(LabFails!CooldownEnds)
  \/ InLabFails(LabFails!LabWorks)
(* A call of the lab returns, and its loops tick.                          *)
LabFailsFairness ==
  /\ \A r \in {"a", "b"} : WF_vars(InLabFails(LabFails!RunStep(r)))
  /\ \A r \in {"a", "b"} : WF_vars(InLabFails(LabFails!LoopStep(r)))

(* Two research runs, one of them parked, closed, restarted and resumed.   *)
LabStops == INSTANCE ResearchRuns WITH
  Runs <- {"a", "b"}, KeyOf <- [r \in {"a", "b"} |-> "k"], MaxInflight <- 2,
  MaxPolls <- 1, CooldownFailures <- 1, SubmitFuse <- 1, RequestsPerDay <-
  2, Cadences <- 1, Codes <- {"lab", "decoder"}, Fallbacks <- {FALSE},
  MaxFaults <- 0, MaxCrashes <- 1,
  rung <- x1, inflight <- x2, submitted <- x3, svc <- x4, subs <- x5, answers
  <- x6, log <- x7, hist <- x8, spent <- x9
InLabStops(A) == scene = "labStops" /\ A /\ UNCHANGED <<scene, x10, x11, x12, x13, x14, x15, x16, x17, x18, x19, x20, x21, x22, x23,
  x24, x25, x26>>
LabStopsInit == scene = "labStops" /\ LabStops!Init
  /\ x10 = 0 /\ x11 = 0 /\ x12 = 0 /\ x13 = 0 /\ x14 = 0 /\ x15 = 0 /\ x16 = 0 /\
  x17 = 0 /\ x18 = 0 /\ x19 = 0 /\ x20 = 0 /\ x21 = 0 /\ x22 = 0 /\ x23 = 0
  /\ x24 = 0 /\ x25 = 0 /\ x26 = 0
LabStopsNext ==
  \/ \E r \in {"a", "b"} : InLabStops(LabStops!Run(r))
  \/ \E r \in {"a", "b"} : InLabStops(LabStops!Discover(r))
  \/ \E r \in {"a", "b"} : InLabStops(LabStops!Corpus(r))
  \/ \E r \in {"a", "b"} : InLabStops(LabStops!Adopt(r))
  \/ \E r \in {"a", "b"} : InLabStops(LabStops!Submit(r))
  \/ \E r \in {"a", "b"} : InLabStops(LabStops!LoopTop(r))
  \/ \E r \in {"a", "b"} : InLabStops(LabStops!PollAnswer(r))
  \/ \E r \in {"a", "b"} : InLabStops(LabStops!ProbeAnswer(r))
  \/ \E r \in {"a"} : InLabStops(LabStops!Park(r))
  \/ \E r \in {"a", "b"} : InLabStops(LabStops!Resume(r))
  \/ InLabStops(LabStops!Close)
  \/ InLabStops(LabStops!Restart)
  \/ InLabStops(LabStops!LabWorks)
(* A call of the lab returns, and its loops tick.                          *)
LabStopsFairness ==
  /\ \A r \in {"a", "b"} : WF_vars(InLabStops(LabStops!RunStep(r)))
  /\ \A r \in {"a", "b"} : WF_vars(InLabStops(LabStops!LoopStep(r)))

(* Two appends, a full queue, a Rotate, the disk-budget note and a failing *)
(* write racing Close.                                                     *)
Closing == INSTANCE LedgerWriter WITH
  Calls <- {"c1", "c2"}, NoCall <- "none", Batches <- {}, GroupSize <- [c \in
  {"c1", "c2"} |-> 1], Rotators <- {"r1"}, QueueCap <- 1, MaxBatch <- 2,
  IOFaults <- {"write"}, Tears <- {}, DiskOver <- {TRUE}, MaxFaults <- 1,
  MaxCrashes <- 0, MaxParts <- 2,
  proc <- x1, call <- x2, off <- x3, rot <- x4, rotateReq <- x5, notes <- x6,
  queue <- x7, chClosed <- x8, batch <- x9, batchN <- x10, pc <- x11, then
  <- x12, pendingSeq <- x13, lastSeq <- x14, holes <- x15, cur <- x16,
  degraded <- x17, dropN <- x18, backpressure <- x19, estLost <- x20, file
  <- x21, synced <- x22, head <- x23, idx <- x24, faults <- x25, crashes <-
  x26
InClosing(A) == scene = "closing" /\ A /\ UNCHANGED <<scene>>
ClosingInit == scene = "closing" /\ Closing!Init
ClosingNext ==
  \/ \E c \in {"c1", "c2"} : InClosing(Closing!Producer(c))
  \/ InClosing(Closing!Rotate("r1"))
  \/ InClosing(Closing!Recv)
  \/ InClosing(Closing!Timer)
  \/ InClosing(Closing!Drained)
  \/ InClosing(Closing!RotateReceived)
  \/ InClosing(Closing!HouseBatch)
  \/ InClosing(Closing!RotateReply)
  \/ InClosing(Closing!WriterExit)
  \/ InClosing(Closing!Write)
  \/ InClosing(Closing!WriteFails)
  \/ InClosing(Closing!Fsync)
  \/ InClosing(Closing!Ack)
  \/ InClosing(Closing!Open)
  \/ InClosing(Closing!BootNote)
  \/ InClosing(Closing!Close)
  \/ InClosing(Closing!CloseChannel)
  \/ InClosing(Closing!CloseDone)
(* The goroutines the Go scheduler keeps running: the writer, each         *)
(* producer past its closing check, whoever opened or is closing the       *)
(* ledger.                                                                 *)
ClosingFairness ==
  /\ WF_vars(InClosing(Closing!Writer))
  /\ WF_vars(InClosing(Closing!Open \/ Closing!BootNote))
  /\ WF_vars(InClosing(Closing!CloseChannel \/ Closing!CloseDone))
  /\ \A c \in {"c1", "c2"} : WF_vars(InClosing(Closing!Send(c) \/ Closing!Block(c) \/ Closing!Refuse(c)))
  /\ \A c \in {"c1", "c2"} : WF_vars(InClosing(x3[c] > 0 /\ Closing!Enter(c)))

Init == DeskAInit \/ DeskBInit \/ SpawnInit \/ SentSpoolInit \/ GateInit \/
        LabFailsInit \/ LabStopsInit \/ ClosingInit
Next == DeskANext \/ DeskBNext \/ SpawnNext \/ SentSpoolNext \/ GateNext \/
        LabFailsNext \/ LabStopsNext \/ ClosingNext
Spec == Init /\ [][Next]_vars /\ DeskAFairness /\ DeskBFairness /\ SpawnFairness /\ SentSpoolFairness /\
        GateFairness /\ LabFailsFairness /\ LabStopsFairness /\
        ClosingFairness

(* What waits in a queue is kept, and the queues keep their bounds. An     *)
(* operation handed to the spool stays in it until it took effect or was   *)
(* dropped with a record; a crash loses only a spool in memory and the     *)
(* drops not yet on record (issues spool and replay). A dispatch once      *)
(* queued is queued, delivered, or recorded as dropped; only a restart     *)
(* between an eviction and its record forgets one (flow spool, replay.go). *)
(* The dispatch queue exceeds its bound by no more than the evicted        *)
(* entries a replay wrote back since the last put (Spool.Put, replay.go    *)
(* Update). What the sentinel spooled is in the spool, being replayed or   *)
(* admitted, or its loss has a known cause (spool.go). A rule fires only   *)
(* when every observation for its whole for= time satisfied the predicate  *)
(* it was evaluated with (sensors.go evaluateEvent).                       *)
HandedOnKept ==
  /\ scene = "deskA" => DeskA!SpooledNotLost
  /\ scene = "deskB" => DeskB!SpooledNotLost
  /\ scene = "spawn" => Spawn!Accounted /\ Spawn!QueueBound
  /\ scene = "sentSpool" => SentSpool!SpooledIsKept
  /\ scene = "gate" => Gate!HoldsForFull

(* What is handed on takes effect once. However creates lose their         *)
(* answers, replays interleave or the process restarts, a signature has a  *)
(* second issue at the driver only where the search before a create missed *)
(* one (Desk.EnsureBySig). A comment is posted twice only where it could   *)
(* not be read back before: the read failed, or its one page did not reach *)
(* it (driver Comment, replay). As long as no lease lapsed, no restart     *)
(* forgot it and no decision freed another's, a signature never has two    *)
(* fixes under way (hotfix.go grantLease, spawn.go Promote). A research    *)
(* run has one terminal record, unless it was parked (settle, Park). The   *)
(* lab gets one submission per key, but for runs racing each other, lost   *)
(* answers and restarts (submitStage).                                     *)
HandedOnOnce ==
  /\ scene = "deskA" => DeskA!OneIssue /\ DeskA!CommentsPriced
  /\ scene = "deskB" => DeskB!OneIssue /\ DeskB!CommentsPriced
  /\ scene = "spawn" => Spawn!OneFixPerSig
  /\ scene = "labFails" => LabFails!OneTerminalRecord /\ LabFails!SubmitsPriced
  /\ scene = "labStops" => LabStops!OneTerminalRecord /\ LabStops!SubmitsPriced

(* Every queue empties, every call returns. The issue spool empties and    *)
(* the signature's lock is released for good (replay.go). The dispatch     *)
(* queue drains for good: every entry is delivered or used up (replay.go). *)
(* The sentinel's spool runs empty, unless a torn tail left an unreadable  *)
(* entry at its head (replaySpool). In the end the installed rules are     *)
(* those of rules.d when these compile, and the old ones when they do not, *)
(* unless a load was abandoned (reload). Every research run let in comes   *)
(* to an outcome, whatever the lab does (pollLoop, duplicateLoop). A       *)
(* caller that passed its closing check always comes back (failBatch,      *)
(* enqueue). Close returns (stop).                                         *)
HandoverSettles ==
  /\ <>[](
       /\ scene = "deskA" => DeskA!Drained
       /\ scene = "deskB" => DeskB!Drained
       /\ scene = "spawn" => Spawn!Drained
       /\ scene = "sentSpool" => SentSpool!SpoolEmpties
       /\ scene = "gate" => Gate!EditApplied
       /\ scene = "labFails" => LabFails!Settles
       /\ scene = "labStops" => LabStops!Settles
       /\ scene = "closing" => Closing!AllReturned
       /\ scene = "closing" => Closing!CloseOver)

(* A clean Close swallows nothing: the queue, the batch and the open       *)
(* refusal fold are written (writer.stop, run).                            *)
CleanClose == scene = "closing" => Closing!CleanClose

=============================================================================
